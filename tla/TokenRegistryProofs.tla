------------------------- MODULE TokenRegistryProofs -------------------------
(* Theorems about TokenRegistry, for every set of tokens, devices and        *)
(* handlers and any number of requests.                                      *)
EXTENDS TokenRegistry, TLAPS

-----------------------------------------------------------------------------
(* What a handler knows at each of its transactions *)

\* The body of a request has the fields its endpoint reads.
CallOK(c) ==
  /\ c.op \in AllOps
  /\ c.op \in {"create_token", "update_token", "rotate_token", "delete_token"}
       => c.token \in Tokens
  /\ c.op = "create_token" => c.device \in Devices \cup {None} /\ c.expires \in Nat
  /\ c.op = "update_token" => /\ c.device \in Devices \cup {None, Keep}
                              /\ c.enabled \in BOOLEAN \cup {Keep}
                              /\ c.expires \in Nat \cup {Keep}
  /\ c.op \in {"create_device", "update_device", "delete_device"}
       => c.device \in Devices
  /\ c.op = "create_device" => c.token \in Tokens \cup {None}
  /\ c.op = "update_device" => c.token \in Tokens \cup {None, Keep}

\* The handler will write its copy of a token row back, or may do so.
HoldsRow(r) ==
  \/ pc[r] \in {"load_old_device", "unlink_device", "set_token",
                "unlink_token", "link_token"}
  \/ /\ pc[r] \in {"check_device", "load_new_device", "link_device"}
     /\ call[r].op = "update_token"

\* The token whose row that is.
RowToken(r) == CASE pc[r] = "unlink_token" -> loc[r].old
                 [] pc[r] = "link_token"   -> NewLink(r)
                 [] OTHER                  -> call[r].token

\* The handler has minted an id for a token that it has not stored yet.
Creates(r) == /\ pc[r] \in {"check_device", "create_token"}
              /\ call[r].op = "create_token"

\* Which endpoint is at a label, and what it has read by then.
HandlerOK(r) ==
  /\ pc[r] = "idle" => loc[r] = NoLocals
  /\ pc[r] # "idle" => CallOK(call[r])
  /\ pc[r] \in {"lookup", "load_by_id", "record_usage", "record_failure"}
       => call[r].op = "sync"
  /\ pc[r] \in {"load_by_id", "record_usage", "record_failure"}
       => loc[r].token \in Tokens
  /\ pc[r] \in {"load_token", "set_token"}
       => call[r].op \in {"update_token", "rotate_token"}
  /\ pc[r] \in {"check_device", "load_new_device", "link_device"}
       => call[r].op \in {"create_token", "update_token"} /\ call[r].device \in Devices
  /\ pc[r] = "create_token" => call[r].op = "create_token"
  /\ pc[r] \in {"load_old_device", "unlink_device"}
       => /\ call[r].op = "update_token" /\ call[r].device # Keep
          /\ loc[r].row.device \in Devices
  /\ pc[r] \in {"list_devices", "unlink_listed", "delete_token"}
       => call[r].op = "delete_token"
  /\ pc[r] \in {"check_token", "set_device"}
       => /\ call[r].op \in {"create_device", "update_device"}
          /\ call[r].op = "create_device" => loc[r].old = None
  /\ pc[r] = "check_token" => call[r].token \in Tokens
  /\ pc[r] = "load_device" => call[r].op \in {"update_device", "delete_device"}
  /\ pc[r] \in {"load_old_token", "unlink_token"}
       => call[r].op \in {"update_device", "delete_device"} /\ loc[r].old \in Tokens
  /\ pc[r] \in {"load_new_token", "link_token"}
       => call[r].op \in {"create_device", "update_device"} /\ NewLink(r) \in Tokens
  /\ pc[r] = "delete_device" => call[r].op = "delete_device"
  /\ HoldsRow(r) => loc[r].row \in TokenRow

TypeInv == TypeOK /\ DOMAIN call = Requests /\ \A r \in Requests : HandlerOK(r)

-----------------------------------------------------------------------------
(* Secrets belong to one token *)

\* Every secret was minted for one token, and the last number was the last.
MintedOnce ==
  /\ \A e \in minted : e[1] \in 1..lastSecret
  /\ \A e, f \in minted : e[1] = f[1] => e[2] = f[2]

\* A row, stored or copied, holds a secret minted for its own token.
RowsOwn ==
  /\ \A t \in Tokens : tokens[t] # None => <<tokens[t].hash, t>> \in minted
  /\ \A r \in Requests : HoldsRow(r) => <<loc[r].row.hash, RowToken(r)>> \in minted

IndexInv == TypeInv /\ MintedOnce /\ RowsOwn /\ HashIndexExact

-----------------------------------------------------------------------------
(* One admin request at a time *)

SerialAdmins ==
  overlap # "any" => \A q, r \in Requests :
    q # r /\ pc[q] # "idle" /\ pc[r] # "idle" => call[q].op = "sync" \/ call[r].op = "sync"

\* The row that a handler holds a copy of is still there.
HeldRowsStay ==
  overlap # "any" =>
    /\ \A t \in Tokens : tokens[t] # None => t \in ids
    /\ \A r \in Requests : HoldsRow(r) => tokens[RowToken(r)] # None
    /\ \A r \in Requests : Creates(r) => tokens[call[r].token] = None /\ call[r].token \in ids

\* No row, stored or copied, holds a secret out of use.
InUse ==
  /\ retired \subseteq 1..lastSecret
  /\ overlap # "any" =>
       /\ \A t \in Tokens : tokens[t] # None => tokens[t].hash \notin retired
       /\ \A r \in Requests : HoldsRow(r) => loc[r].row.hash \notin retired

\* A request with a secret out of use is refused by the hash index.
LateRefused ==
  /\ \A r \in Requests : pc[r] = "lookup" /\ call[r].late => call[r].secret \in retired
  /\ overlap # "any" => \A r \in Requests :
       pc[r] \in {"load_by_id", "record_usage"} => ~call[r].late

\* A copy of a disabled token's row is enabled only if the request asks for it.
EnabledAsked ==
  overlap # "any" => \A r \in Requests :
    HoldsRow(r) /\ loc[r].row.enabled /\ ~tokens[RowToken(r)].enabled
      => call[r].op = "update_token" /\ call[r].enabled = TRUE

SerialInv == /\ IndexInv /\ SerialAdmins /\ HeldRowsStay
             /\ InUse /\ LateRefused /\ EnabledAsked

-----------------------------------------------------------------------------
(* The admin alone *)

LoneAdmin ==
  overlap = "admin_alone" => \A q, r \in Requests :
    q # r /\ pc[q] # "idle" /\ pc[r] # "idle" => call[q].op = "sync" /\ call[r].op = "sync"

NotObserved(t) == observed[t].uses = 0 /\ observed[t].fails = 0

\* Counters of rows, stored or copied, agree with what was recorded; nothing
\* was recorded for a token before it is stored.
CountsAgree ==
  overlap = "admin_alone" =>
    /\ \A t \in Tokens \ ids : NotObserved(t)
    /\ \A r \in Requests : Creates(r) => NotObserved(call[r].token)
    /\ \A r \in Requests : pc[r] \in {"load_by_id", "record_usage", "record_failure"}
         => loc[r].token \in ids
    /\ \A r \in Requests : HoldsRow(r) =>
         /\ loc[r].row.uses = observed[RowToken(r)].uses
         /\ loc[r].row.fails = observed[RowToken(r)].fails

UsageInv == SerialInv /\ LoneAdmin /\ CountsAgree /\ UsageRecorded

\* The tokens that a handler is about to link to are there, and the devices
\* that a deletion has yet to unlink are on its list.
LinksSound ==
  overlap = "admin_alone" => \A r \in Requests :
    /\ pc[r] \in {"load_new_device", "link_device"} => tokens[call[r].token] # None
    /\ pc[r] \in {"check_token", "set_device"} /\ loc[r].old # None
         => tokens[loc[r].old] # None
    /\ pc[r] = "set_device" /\ call[r].token \in Tokens => tokens[call[r].token] # None
    /\ pc[r] = "unlink_listed" => LinkedTo(call[r].token) \subseteq loc[r].listed
    /\ pc[r] = "delete_token" => LinkedTo(call[r].token) = {}

LinkInv == SerialInv /\ LoneAdmin /\ LinksSound /\ DeviceTokenExists
-----------------------------------------------------------------------------
(* Steps of one handler leave the others alone *)

OthersKept(r) ==
  \A q \in Requests \ {r} : pc'[q] = pc[q] /\ call'[q] = call[q] /\ loc'[q] = loc[q]

\* The ways a handler ends a transaction: it answers, or goes on to a label
\* with the same local values or with one of them replaced.
LEMMA DoneLocal ==
  ASSUME TypeInv, NEW r \in Requests, Done(r)
  PROVE  /\ pc' \in [Requests -> Labels] /\ loc' \in [Requests -> Locals]
         /\ DOMAIN call' = Requests /\ OthersKept(r)
         /\ pc'[r] = "idle" /\ loc'[r] = NoLocals
  BY DEF Done, TypeInv, TypeOK, Labels, OthersKept, Locals, NoLocals

LEMMA GotoLocal ==
  ASSUME TypeInv, NEW r \in Requests, NEW l \in Labels, Goto(r, l)
  PROVE  /\ pc' \in [Requests -> Labels] /\ pc'[r] = l
         /\ DOMAIN call' = Requests /\ call'[r] = call[r]
         /\ \A q \in Requests \ {r} : pc'[q] = pc[q] /\ call'[q] = call[q]
  BY DEF Goto, TypeInv, TypeOK

LEMMA ProceedLocal ==
  ASSUME TypeInv, NEW r \in Requests, NEW l \in Labels, Proceed(r, l)
  PROVE  /\ pc' \in [Requests -> Labels] /\ pc'[r] = l
         /\ loc' \in [Requests -> Locals] /\ loc'[r] = loc[r]
         /\ DOMAIN call' = Requests /\ call'[r] = call[r] /\ OthersKept(r)
  BY GotoLocal DEF Proceed, TypeInv, TypeOK, OthersKept

LEMMA KeepLocal ==
  ASSUME TypeInv, NEW r \in Requests
  PROVE  /\ \A t \in Tokens : KeepToken(r, t) =>
              /\ loc' \in [Requests -> Locals] /\ loc'[r] = [loc[r] EXCEPT !.token = t]
              /\ \A q \in Requests \ {r} : loc'[q] = loc[q]
         /\ \A row \in TokenRow : KeepRow(r, row) =>
              /\ loc' \in [Requests -> Locals] /\ loc'[r] = [loc[r] EXCEPT !.row = row]
              /\ \A q \in Requests \ {r} : loc'[q] = loc[q]
         /\ \A t \in Tokens \cup {None} : KeepOld(r, t) =>
              /\ loc' \in [Requests -> Locals] /\ loc'[r] = [loc[r] EXCEPT !.old = t]
              /\ \A q \in Requests \ {r} : loc'[q] = loc[q]
         /\ \A S \in SUBSET Devices : KeepListed(r, S) =>
              /\ loc' \in [Requests -> Locals] /\ loc'[r] = [loc[r] EXCEPT !.listed = S]
              /\ \A q \in Requests \ {r} : loc'[q] = loc[q]
<1>0. loc \in [Requests -> Locals] /\ loc[r] \in Locals
  BY DEF TypeInv, TypeOK
<1>1. ASSUME NEW t \in Tokens, KeepToken(r, t)
      PROVE  /\ loc' \in [Requests -> Locals] /\ loc'[r] = [loc[r] EXCEPT !.token = t]
             /\ \A q \in Requests \ {r} : loc'[q] = loc[q]
  <2>1. [loc[r] EXCEPT !.token = t] \in Locals
    BY <1>0 DEF Locals
  <2>2. loc' = [loc EXCEPT ![r] = [loc[r] EXCEPT !.token = t]]
    BY <1>1 DEF KeepToken
  <2> QED
    BY <1>0, <2>1, <2>2
<1>2. ASSUME NEW row \in TokenRow, KeepRow(r, row)
      PROVE  /\ loc' \in [Requests -> Locals] /\ loc'[r] = [loc[r] EXCEPT !.row = row]
             /\ \A q \in Requests \ {r} : loc'[q] = loc[q]
  <2>1. [loc[r] EXCEPT !.row = row] \in Locals
    BY <1>0 DEF Locals
  <2>2. loc' = [loc EXCEPT ![r] = [loc[r] EXCEPT !.row = row]]
    BY <1>2 DEF KeepRow
  <2> QED
    BY <1>0, <2>1, <2>2
<1>3. ASSUME NEW t \in Tokens \cup {None}, KeepOld(r, t)
      PROVE  /\ loc' \in [Requests -> Locals] /\ loc'[r] = [loc[r] EXCEPT !.old = t]
             /\ \A q \in Requests \ {r} : loc'[q] = loc[q]
  <2>1. [loc[r] EXCEPT !.old = t] \in Locals
    BY <1>0 DEF Locals
  <2>2. loc' = [loc EXCEPT ![r] = [loc[r] EXCEPT !.old = t]]
    BY <1>3 DEF KeepOld
  <2> QED
    BY <1>0, <2>1, <2>2
<1>4. ASSUME NEW S \in SUBSET Devices, KeepListed(r, S)
      PROVE  /\ loc' \in [Requests -> Locals] /\ loc'[r] = [loc[r] EXCEPT !.listed = S]
             /\ \A q \in Requests \ {r} : loc'[q] = loc[q]
  <2>1. [loc[r] EXCEPT !.listed = S] \in Locals
    BY <1>0 DEF Locals
  <2>2. loc' = [loc EXCEPT ![r] = [loc[r] EXCEPT !.listed = S]]
    BY <1>4 DEF KeepListed
  <2> QED
    BY <1>0, <2>1, <2>2
<1> QED
  BY <1>1, <1>2, <1>3, <1>4

\* What a handler knows depends on nothing but its own frame.
LEMMA OtherHandlers ==
  ASSUME NEW r \in Requests, OthersKept(r)
  PROVE  \A q \in Requests \ {r} :
           /\ HandlerOK(q) => HandlerOK(q)'
           /\ HoldsRow(q)' = HoldsRow(q) /\ RowToken(q)' = RowToken(q)
           /\ Creates(q)' = Creates(q)
<1> SUFFICES ASSUME NEW q \in Requests \ {r}
             PROVE  /\ HandlerOK(q) => HandlerOK(q)'
                    /\ HoldsRow(q)' = HoldsRow(q) /\ RowToken(q)' = RowToken(q)
                    /\ Creates(q)' = Creates(q)
  OBVIOUS
<1>1. pc'[q] = pc[q] /\ call'[q] = call[q] /\ loc'[q] = loc[q]
  BY DEF OthersKept
<1>2. NewLink(q)' = NewLink(q)
  BY <1>1 DEF NewLink
<1>3. HoldsRow(q)' = HoldsRow(q) /\ RowToken(q)' = RowToken(q) /\ Creates(q)' = Creates(q)
  BY <1>1, <1>2 DEF HoldsRow, RowToken, Creates
<1>4. HandlerOK(q) => HandlerOK(q)'
  BY <1>1, <1>2, <1>3 DEF HandlerOK, CallOK
<1> QED
  BY <1>3, <1>4
-----------------------------------------------------------------------------
(* Type correctness *)

\* The tables and histories of TypeOK, without the handlers' frames.
DataOK ==
  /\ overlap \in Overlaps
  /\ tokens \in [Tokens -> TokenRow \cup {None}]
  /\ hashes \in SUBSET (Nat \X Tokens)
  /\ devices \in [Devices -> DeviceRow \cup {None}]
  /\ ids \in SUBSET (Tokens \cup Devices)
  /\ minted \in SUBSET (Nat \X Tokens)
  /\ lastSecret \in Nat /\ now \in Nat /\ calls \in Nat
  /\ retired \in SUBSET Nat
  /\ observed \in [Tokens -> [uses : Nat, fails : Nat]]

FramesOK == pc \in [Requests -> Labels] /\ loc \in [Requests -> Locals]

LEMMA TypeSplit == TypeOK <=> DataOK /\ FramesOK
  BY DEF TypeOK, DataOK, FramesOK

LEMMA TypeInit == Init => TypeInv
<1> SUFFICES ASSUME Init PROVE TypeInv
  OBVIOUS
<1>1. DataOK
  BY TokenBoundsAssumption DEF Init, DataOK
<1>2. FramesOK
  BY DEF Init, FramesOK, Labels, Locals, NoLocals
<1>3. ASSUME NEW r \in Requests PROVE HandlerOK(r)
  BY <1>3 DEF Init, HandlerOK, HoldsRow
<1>4. DOMAIN call = Requests
  BY DEF Init
<1> QED
  BY <1>1, <1>2, <1>3, <1>4, TypeSplit DEF TypeInv

LEMMA DataKept ==
  ASSUME DataOK, UNCHANGED <<tables, mint, now, load, history>>
  PROVE  DataOK'
  BY DEF DataOK, tables, mint, load, history

\* Writing a token row, and taking one out.
LEMMA SetTokenType ==
  ASSUME DataOK, NEW t \in Tokens, NEW row \in TokenRow, SetToken(t, row)
  PROVE  /\ tokens' \in [Tokens -> TokenRow \cup {None}]
         /\ hashes' \in SUBSET (Nat \X Tokens) /\ retired' \in SUBSET Nat
         /\ tokens'[t] = row /\ \A u \in Tokens \ {t} : tokens'[u] = tokens[u]
<1>1. tokens' \in [Tokens -> TokenRow \cup {None}] /\ tokens'[t] = row
      /\ \A u \in Tokens \ {t} : tokens'[u] = tokens[u]
  BY DEF SetToken, DataOK
<1>2. row.hash \in Nat /\ (tokens[t] # None => tokens[t].hash \in Nat)
  BY DEF DataOK, TokenRow
<1>3. retired' \in SUBSET Nat
  BY <1>2 DEF SetToken, Retire, DataOK
<1>4. Unindexed(t) \subseteq hashes
  BY DEF Unindexed
<1>5. <<row.hash, t>> \in Nat \X Tokens
  BY <1>2
<1>6. hashes' \in SUBSET (Nat \X Tokens)
  BY <1>4, <1>5 DEF SetToken, DataOK
<1> QED
  BY <1>1, <1>3, <1>6

LEMMA MintType ==
  ASSUME DataOK, NEW t \in Tokens, MintSecret(t)
  PROVE  /\ lastSecret' \in Nat /\ lastSecret' = lastSecret + 1
         /\ minted' \in SUBSET (Nat \X Tokens) /\ ids' = ids
<1>1. lastSecret + 1 \in Nat
  BY DEF DataOK
<1>2. <<lastSecret + 1, t>> \in Nat \X Tokens
  BY <1>1
<1> QED
  BY <1>1, <1>2 DEF MintSecret, DataOK

LEMMA SetDeviceType ==
  ASSUME DataOK, NEW d \in Devices, NEW t \in Tokens \cup {None}, SetDeviceLink(d, t)
  PROVE  devices' \in [Devices -> DeviceRow \cup {None}]
  BY DEF DataOK, SetDeviceLink, DeviceRow

\* The rows that handlers make of the rows they read.
LEMMA RowTypes ==
  ASSUME NEW row \in TokenRow
  PROVE  /\ \A s \in Nat : RotatedRow(row, s) \in TokenRow
         /\ \A d \in Devices \cup {None} : [row EXCEPT !.device = d] \in TokenRow
         /\ CountUse(row) \in TokenRow /\ [row EXCEPT !.fails = @ + 1] \in TokenRow
         /\ \A c : c.enabled \in BOOLEAN \cup {Keep} /\ c.expires \in Nat \cup {Keep}
              => Edited(row, c) \in TokenRow
         /\ row.device \in Devices \cup {None}
<1>1. \A s \in Nat : RotatedRow(row, s) \in TokenRow
  BY DEF RotatedRow, TokenRow
<1>2. \A d \in Devices \cup {None} : [row EXCEPT !.device = d] \in TokenRow
  BY DEF TokenRow
<1>3. CountUse(row) \in TokenRow /\ [row EXCEPT !.fails = @ + 1] \in TokenRow
  BY DEF CountUse, TokenRow
<1>4. ASSUME NEW c, c.enabled \in BOOLEAN \cup {Keep}, c.expires \in Nat \cup {Keep}
      PROVE  Edited(row, c) \in TokenRow
  <2>1. (IF c.enabled = Keep THEN row.enabled ELSE c.enabled) \in BOOLEAN
    BY <1>4 DEF TokenRow
  <2>2. (IF c.expires = Keep THEN row.expires ELSE c.expires) \in Nat
    BY <1>4 DEF TokenRow
  <2> QED
    BY <2>1, <2>2 DEF Edited, TokenRow
<1>5. row.device \in Devices \cup {None}
  BY DEF TokenRow
<1> QED
  BY <1>1, <1>2, <1>3, <1>4, <1>5
\* What a step of a handler must establish about its own frame.
FrameOK(r) == FramesOK' /\ DOMAIN call' = Requests /\ OthersKept(r) /\ HandlerOK(r)'

LEMMA DoneType ==
  ASSUME TypeInv, NEW r \in Requests, Done(r)
  PROVE  FrameOK(r) /\ ~HoldsRow(r)' /\ ~Creates(r)'
<1>1. FramesOK' /\ DOMAIN call' = Requests /\ OthersKept(r)
  BY DoneLocal DEF FramesOK
<1>2. pc'[r] = "idle" /\ loc'[r] = NoLocals
  BY DoneLocal
<1>3. ~HoldsRow(r)' /\ ~Creates(r)'
  BY <1>2 DEF HoldsRow, Creates
<1>4. HandlerOK(r)'
  BY <1>2, <1>3 DEF HandlerOK
<1> QED
  BY <1>1, <1>3, <1>4 DEF FrameOK

\* Going on with the same local values: the label fits what is known.
LEMMA ProceedType ==
  ASSUME TypeInv, NEW r \in Requests, NEW l \in Labels, Proceed(r, l),
         HandlerOK(r)'
  PROVE  FrameOK(r)
  BY ProceedLocal DEF FrameOK, FramesOK

LEMMA StartType ==
  ASSUME TypeInv, NEW r \in Requests, Start(r)
  PROVE  DataOK' /\ FrameOK(r)
<1>1. PICK c \in Calls :
        /\ c.op \in Ops
        /\ call' = [call EXCEPT ![r] = c]
        /\ pc' = [pc EXCEPT ![r] = FirstStep(c)]
        /\ ids' = CASE c.op = "create_token"  -> ids \cup {c.token}
                    [] c.op = "create_device" -> ids \cup {c.device}
                    [] OTHER -> ids
  BY DEF Start
<1>2. CallOK(c)
  <2>1. CASE c \in SyncCall
    BY <2>1 DEF SyncCall, CallOK, AllOps
  <2>2. CASE c \in CreateTokenCall
    BY <2>2, TokenBoundsAssumption DEF CreateTokenCall, CallOK, AllOps, Expiries
  <2>3. CASE c \in UpdateTokenCall
    BY <2>3, TokenBoundsAssumption DEF UpdateTokenCall, CallOK, AllOps, Expiries
  <2>4. CASE c \in TokenCall
    BY <2>4 DEF TokenCall, CallOK, AllOps
  <2>5. CASE c \in CreateDeviceCall
    BY <2>5 DEF CreateDeviceCall, CallOK, AllOps
  <2>6. CASE c \in UpdateDeviceCall
    BY <2>6 DEF UpdateDeviceCall, CallOK, AllOps
  <2>7. CASE c \in DeviceCall
    BY <2>7 DEF DeviceCall, CallOK, AllOps
  <2> QED
    BY <2>1, <2>2, <2>3, <2>4, <2>5, <2>6, <2>7 DEF Calls
<1>3. /\ c.op = "sync" => FirstStep(c) = "lookup"
      /\ c.op = "create_token" => FirstStep(c) = IF c.device = None THEN "create_token"
                                                 ELSE "check_device"
      /\ c.op \in {"update_token", "rotate_token"} => FirstStep(c) = "load_token"
      /\ c.op = "delete_token" => FirstStep(c) = "list_devices"
      /\ c.op = "create_device" => FirstStep(c) = IF c.token = None THEN "set_device"
                                                  ELSE "check_token"
      /\ c.op \in {"update_device", "delete_device"} => FirstStep(c) = "load_device"
  BY DEF FirstStep
<1>4. FirstStep(c) \in Labels
  BY <1>2, <1>3 DEF Labels, CallOK, AllOps
<1>5. FramesOK' /\ DOMAIN call' = Requests /\ OthersKept(r)
  BY <1>1, <1>4 DEF TypeInv, TypeOK, FramesOK, OthersKept, Start
<1>6. call'[r] = c /\ pc'[r] = FirstStep(c) /\ loc'[r] = NoLocals
  <2>1. loc[r] = NoLocals /\ loc' = loc
    BY DEF TypeInv, HandlerOK, Start
  <2> QED
    BY <1>1, <2>1 DEF TypeInv, TypeOK
<1>7. NoLocals.old = None
  BY DEF NoLocals
<1>8. HandlerOK(r)'
  BY <1>2, <1>3, <1>6, <1>7 DEF HandlerOK, HoldsRow, CallOK, AllOps
<1>9. ids' \in SUBSET (Tokens \cup Devices)
  BY <1>1, <1>2 DEF TypeInv, TypeOK, CallOK
<1>10. calls' \in Nat
  BY DEF Start, TypeInv, TypeOK
<1>11. DataOK'
  BY <1>9, <1>10 DEF Start, TypeInv, TypeOK, DataOK, tables, history
<1> QED
  BY <1>5, <1>8, <1>11 DEF FrameOK

LEMMA SyncType ==
  ASSUME TypeInv, NEW r \in Requests,
         \/ LookupSecret(r) \/ LoadBySecret(r) \/ RecordUsage(r) \/ RecordFailure(r)
  PROVE  DataOK' /\ FrameOK(r)
<1> USE TypeSplit DEF TypeInv
<1>1. CASE LookupSecret(r)
  <2>1. CASE Done(r)
    BY <1>1, <2>1, DoneType, DataKept DEF LookupSecret
  <2>2. CASE ~Done(r)
    <3>1. PICK t \in Tokens : KeepToken(r, t)
      BY <1>1, <2>2 DEF LookupSecret
    <3>2. Goto(r, "load_by_id") /\ "load_by_id" \in Labels
      BY <1>1, <2>2 DEF LookupSecret, Labels
    <3>3. /\ loc' \in [Requests -> Locals] /\ loc'[r] = [loc[r] EXCEPT !.token = t]
          /\ \A q \in Requests \ {r} : loc'[q] = loc[q]
      BY <3>1, KeepLocal
    <3>4. /\ pc' \in [Requests -> Labels] /\ pc'[r] = "load_by_id"
          /\ DOMAIN call' = Requests /\ call'[r] = call[r]
          /\ \A q \in Requests \ {r} : pc'[q] = pc[q] /\ call'[q] = call[q]
      BY <3>2, GotoLocal
    <3>5. loc'[r].token \in Tokens
      BY <3>3 DEF FramesOK, Locals
    <3>6. HandlerOK(r)'
      BY <1>1, <3>4, <3>5 DEF LookupSecret, HandlerOK, HoldsRow, CallOK
    <3> QED
      BY <1>1, <3>3, <3>4, <3>6, DataKept DEF LookupSecret, FrameOK, FramesOK, OthersKept
  <2> QED
    BY <2>1, <2>2
<1>2. CASE LoadBySecret(r)
  <2>1. CASE Done(r)
    BY <1>2, <2>1, DoneType, DataKept DEF LoadBySecret
  <2>2. CASE ~Done(r)
    <3>1. PICK l \in {"record_usage", "record_failure"} : Proceed(r, l)
      BY <1>2, <2>2 DEF LoadBySecret
    <3>2. l \in Labels
      BY DEF Labels
    <3>3. HandlerOK(r)'
      BY <1>2, <3>1, <3>2, ProceedLocal DEF LoadBySecret, HandlerOK, HoldsRow, CallOK
    <3> QED
      BY <1>2, <3>1, <3>2, <3>3, ProceedType, DataKept DEF LoadBySecret
  <2> QED
    BY <2>1, <2>2
<1>3. CASE RecordUsage(r)
  <2>1. FrameOK(r)
    BY <1>3, DoneType DEF RecordUsage
  <2>2. loc[r].token \in Tokens
    BY <1>3 DEF RecordUsage, HandlerOK
  <2>3. tokens' \in [Tokens -> TokenRow \cup {None}]
    <3>1. tokens[loc[r].token] # None => CountUse(tokens[loc[r].token]) \in TokenRow
      BY <2>2, RowTypes DEF DataOK
    <3> QED
      BY <1>3, <2>2, <3>1 DEF RecordUsage, DataOK
  <2>4. devices' \in [Devices -> DeviceRow \cup {None}]
    <3>1. ASSUME NEW d, TakeDevice(loc[r].token, d), d = None \/ d \in Devices
          PROVE  devices' \in [Devices -> DeviceRow \cup {None}]
      <4>1. CASE devices' = devices
        BY <4>1 DEF DataOK
      <4>2. CASE devices' # devices
        <5>1. d \in Devices /\ devices[d] \in DeviceRow
          BY <3>1, <4>2 DEF TakeDevice, DataOK
        <5>2. [devices[d] EXCEPT !.token = loc[r].token] \in DeviceRow
          BY <2>2, <5>1 DEF DeviceRow
        <5>3. devices' = [devices EXCEPT ![d] = [devices[d] EXCEPT !.token = loc[r].token]]
          BY <3>1, <4>2 DEF TakeDevice
        <5> QED
          BY <5>2, <5>3 DEF DataOK
      <4> QED
        BY <4>1, <4>2
    <3>2. CASE tokens[loc[r].token] = None
      BY <1>3, <3>2 DEF RecordUsage, DataOK
    <3>3. CASE tokens[loc[r].token] # None
      <4>1. tokens[loc[r].token].device \in Devices \cup {None}
        BY <2>2, <3>3 DEF DataOK, TokenRow
      <4> QED
        BY <1>3, <3>1, <3>3, <4>1 DEF RecordUsage
    <3> QED
      BY <3>2, <3>3
  <2>5. observed' \in [Tokens -> [uses : Nat, fails : Nat]]
    BY <1>3, <2>2 DEF RecordUsage, DataOK
  <2> QED
    BY <1>3, <2>1, <2>3, <2>4, <2>5 DEF RecordUsage, DataOK, mint, load
<1>4. CASE RecordFailure(r)
  <2>1. FrameOK(r)
    BY <1>4, DoneType DEF RecordFailure
  <2>2. loc[r].token \in Tokens
    BY <1>4 DEF RecordFailure, HandlerOK
  <2>3. tokens' \in [Tokens -> TokenRow \cup {None}]
    BY <1>4, <2>2, RowTypes DEF RecordFailure, DataOK
  <2>5. observed' \in [Tokens -> [uses : Nat, fails : Nat]]
    BY <1>4, <2>2 DEF RecordFailure, DataOK
  <2> QED
    BY <1>4, <2>1, <2>3, <2>5 DEF RecordFailure, DataOK, mint, load
<1> QED
  BY <1>1, <1>2, <1>3, <1>4
LEMMA KeepRowType ==
  ASSUME TypeInv, NEW r \in Requests, NEW row \in TokenRow, NEW l \in Labels,
         KeepRow(r, row), Goto(r, l)
  PROVE  /\ FramesOK' /\ DOMAIN call' = Requests /\ OthersKept(r)
         /\ pc'[r] = l /\ call'[r] = call[r]
         /\ loc'[r].row = row /\ loc'[r].old = loc[r].old
<1>1. /\ loc' \in [Requests -> Locals] /\ loc'[r] = [loc[r] EXCEPT !.row = row]
      /\ \A q \in Requests \ {r} : loc'[q] = loc[q]
  BY KeepLocal
<1>2. loc'[r].row = row /\ loc'[r].old = loc[r].old
  BY <1>1 DEF TypeInv, TypeOK, Locals
<1> QED
  BY <1>1, <1>2, GotoLocal DEF FramesOK, OthersKept

LEMMA LoadTokenType ==
  ASSUME TypeInv, NEW r \in Requests, LoadToken(r)
  PROVE  DataOK' /\ FrameOK(r)
<1> USE TypeSplit DEF TypeInv
<1>1. /\ call[r].op \in {"update_token", "rotate_token"} /\ call[r].token \in Tokens
      /\ CallOK(call[r])
  BY DEF LoadToken, HandlerOK, CallOK
<1>2. CASE tokens[call[r].token] = None
  BY <1>2, DoneType, DataKept DEF LoadToken
<1>3. CASE tokens[call[r].token] # None /\ call[r].op = "rotate_token"
  <2>1. tokens[call[r].token] \in TokenRow /\ lastSecret + 1 \in Nat
    BY <1>1, <1>3 DEF DataOK
  <2>2. PICK row : row = RotatedRow(tokens[call[r].token], lastSecret + 1)
    OBVIOUS
  <2>3. row \in TokenRow
    BY <2>1, <2>2, RowTypes
  <2>4. KeepRow(r, row) /\ Goto(r, "set_token") /\ MintSecret(call[r].token)
    BY <1>3, <2>2 DEF LoadToken
  <2>5. "set_token" \in Labels
    BY DEF Labels
  <2>6. /\ FramesOK' /\ DOMAIN call' = Requests /\ OthersKept(r)
        /\ pc'[r] = "set_token" /\ call'[r] = call[r] /\ loc'[r].row = row
    BY <2>3, <2>4, <2>5, KeepRowType
  <2>7. HandlerOK(r)'
    BY <1>1, <2>3, <2>6 DEF HandlerOK, HoldsRow, CallOK
  <2>8. DataOK'
    BY <1>1, <2>4, MintType DEF LoadToken, DataOK, tables, load, history
  <2> QED
    BY <2>6, <2>7, <2>8 DEF FrameOK
<1>4. CASE tokens[call[r].token] # None /\ call[r].op = "update_token"
  <2>1. tokens[call[r].token] \in TokenRow
    BY <1>1, <1>4 DEF DataOK
  <2>2. PICK row : row = Edited(tokens[call[r].token], call[r])
    OBVIOUS
  <2>3. row \in TokenRow /\ row.device = tokens[call[r].token].device
        /\ row.device \in Devices \cup {None}
    <3>1. row \in TokenRow
      BY <1>1, <1>4, <2>1, <2>2, RowTypes DEF CallOK
    <3>2. row.device = tokens[call[r].token].device
      BY <2>1, <2>2 DEF Edited, TokenRow
    <3> QED
      BY <3>1, <3>2, RowTypes
  <2>4. PICK l : l = CASE call[r].device = Keep -> "set_token"
                       [] call[r].device = None -> RelinkStep(row.device, None)
                       [] OTHER                 -> "check_device"
    BY Zenon
  <2>5. /\ l \in {"set_token", "check_device", "load_old_device"}
        /\ l = "check_device" => call[r].device \in Devices
        /\ l = "load_old_device" => call[r].device = None /\ row.device \in Devices
    <3>1. CASE call[r].device = Keep
      BY <2>4, <3>1, TokenNoneAssumption DEF RelinkStep
    <3>2. CASE call[r].device = None
      <4>1. Keep # None
        BY TokenNoneAssumption
      <4>2. l = RelinkStep(row.device, None)
        BY <2>4, <3>2, <4>1
      <4> QED
        BY <2>3, <3>2, <4>2 DEF RelinkStep
    <3>3. CASE call[r].device \in Devices
      BY <2>4, <3>3, TokenNoneAssumption
    <3> QED
      BY <1>1, <1>4, <3>1, <3>2, <3>3 DEF CallOK
  <2>6. KeepRow(r, row) /\ Goto(r, l)
    BY <1>4, <2>2, <2>3, <2>4 DEF LoadToken
  <2>7. l \in Labels
    BY <2>5 DEF Labels
  <2>8. /\ FramesOK' /\ DOMAIN call' = Requests /\ OthersKept(r)
        /\ pc'[r] = l /\ call'[r] = call[r] /\ loc'[r].row = row
    BY <2>3, <2>6, <2>7, KeepRowType
  <2>9. HandlerOK(r)'
    BY <1>1, <1>4, <2>3, <2>5, <2>8, TokenNoneAssumption DEF HandlerOK, HoldsRow, CallOK
  <2>10. DataOK'
    BY <1>4, DataKept DEF LoadToken, mint
  <2> QED
    BY <2>8, <2>9, <2>10 DEF FrameOK
<1> QED
  BY <1>1, <1>2, <1>3, <1>4

LEMMA TokenDeviceType ==
  ASSUME TypeInv, NEW r \in Requests,
         \/ CheckDevice(r) \/ LoadOldDevice(r) \/ UnlinkDevice(r)
         \/ LoadNewDevice(r) \/ LinkDevice(r)
  PROVE  DataOK' /\ FrameOK(r)
<1> USE TypeSplit DEF TypeInv
<1>1. CASE CheckDevice(r)
  <2>1. DataOK'
    BY <1>1, DataKept DEF CheckDevice
  <2>2. CASE Done(r)
    BY <2>1, <2>2, DoneType
  <2>3. CASE call[r].op = "create_token" /\ Proceed(r, "create_token")
    <3>1. "create_token" \in Labels
      BY DEF Labels
    <3>2. HandlerOK(r)'
      BY <1>1, <2>3, <3>1, ProceedLocal DEF CheckDevice, HandlerOK, HoldsRow, CallOK
    <3> QED
      BY <2>1, <2>3, <3>1, <3>2, ProceedType
  <2>4. CASE /\ call[r].op = "update_token"
             /\ Proceed(r, RelinkStep(loc[r].row.device, call[r].device))
    <3>1. loc[r].row \in TokenRow /\ loc[r].row.device \in Devices \cup {None}
          /\ call[r].device \in Devices
      BY <1>1, <2>4, RowTypes DEF CheckDevice, HandlerOK, HoldsRow
    <3>2. PICK l : l = RelinkStep(loc[r].row.device, call[r].device)
      OBVIOUS
    <3>3. /\ l \in {"set_token", "load_new_device", "load_old_device"}
          /\ l = "load_old_device" => loc[r].row.device \in Devices
      BY <3>1, <3>2 DEF RelinkStep
    <3>4. l \in Labels
      BY <3>3 DEF Labels
    <3>5. Proceed(r, l)
      BY <2>4, <3>2
    <3>6. HandlerOK(r)'
      BY <1>1, <2>4, <3>1, <3>3, <3>4, <3>5, ProceedLocal, TokenNoneAssumption
      DEF CheckDevice, HandlerOK, HoldsRow, CallOK
    <3> QED
      BY <2>1, <3>4, <3>5, <3>6, ProceedType
  <2> QED
    BY <1>1, <2>2, <2>3, <2>4 DEF CheckDevice
<1>2. ASSUME pc[r] \in {"load_old_device", "unlink_device"}, Proceed(r, AfterUnlink(r))
      PROVE  FrameOK(r)
  <2>1. /\ call[r].op = "update_token" /\ loc[r].row \in TokenRow
        /\ call[r].device \in Devices \cup {None}
    BY <1>2 DEF HandlerOK, HoldsRow, CallOK
  <2>2. PICK l : l = AfterUnlink(r)
    OBVIOUS
  <2>3. /\ l \in {"set_token", "load_new_device"}
        /\ l = "load_new_device" => call[r].device \in Devices
    BY <2>1, <2>2 DEF AfterUnlink
  <2>4. l \in Labels /\ Proceed(r, l)
    BY <1>2, <2>2, <2>3 DEF Labels
  <2>5. HandlerOK(r)'
    BY <1>2, <2>1, <2>3, <2>4, ProceedLocal DEF HandlerOK, HoldsRow, CallOK
  <2> QED
    BY <2>4, <2>5, ProceedType
<1>3. CASE LoadOldDevice(r)
  <2>1. DataOK'
    BY <1>3, DataKept DEF LoadOldDevice
  <2>2. CASE Proceed(r, AfterUnlink(r))
    BY <1>2, <1>3, <2>1, <2>2 DEF LoadOldDevice
  <2>3. CASE Proceed(r, "unlink_device")
    <3>1. "unlink_device" \in Labels
      BY DEF Labels
    <3>2. HandlerOK(r)'
      BY <1>3, <2>3, <3>1, ProceedLocal DEF LoadOldDevice, HandlerOK, HoldsRow, CallOK
    <3> QED
      BY <2>1, <2>3, <3>1, <3>2, ProceedType
  <2> QED
    BY <1>3, <2>2, <2>3 DEF LoadOldDevice
<1>4. CASE UnlinkDevice(r)
  <2>1. FrameOK(r)
    BY <1>2, <1>4 DEF UnlinkDevice
  <2>2. loc[r].row.device \in Devices
    BY <1>4 DEF UnlinkDevice, HandlerOK
  <2>3. devices' \in [Devices -> DeviceRow \cup {None}]
    BY <1>4, <2>2, SetDeviceType DEF UnlinkDevice
  <2> QED
    BY <1>4, <2>1, <2>3 DEF UnlinkDevice, DataOK, mint, load, history
<1>5. ASSUME pc[r] \in {"load_new_device", "link_device"}, AfterLink(r)
      PROVE  FrameOK(r)
  <2>1. CASE Done(r)
    BY <2>1, DoneType
  <2>2. CASE call[r].op = "update_token" /\ Proceed(r, "set_token")
    <3>1. "set_token" \in Labels
      BY DEF Labels
    <3>2. HandlerOK(r)'
      BY <1>5, <2>2, <3>1, ProceedLocal DEF HandlerOK, HoldsRow, CallOK
    <3> QED
      BY <2>2, <3>1, <3>2, ProceedType
  <2> QED
    BY <1>5, <2>1, <2>2 DEF AfterLink, HandlerOK
<1>6. CASE LoadNewDevice(r)
  <2>1. DataOK'
    BY <1>6, DataKept DEF LoadNewDevice
  <2>2. CASE AfterLink(r)
    BY <1>5, <1>6, <2>1, <2>2 DEF LoadNewDevice
  <2>3. CASE Proceed(r, "link_device")
    <3>1. "link_device" \in Labels
      BY DEF Labels
    <3>2. HandlerOK(r)'
      BY <1>6, <2>3, <3>1, ProceedLocal DEF LoadNewDevice, HandlerOK, HoldsRow, CallOK
    <3> QED
      BY <2>1, <2>3, <3>1, <3>2, ProceedType
  <2> QED
    BY <1>6, <2>2, <2>3 DEF LoadNewDevice
<1>7. CASE LinkDevice(r)
  <2>1. FrameOK(r)
    BY <1>5, <1>7 DEF LinkDevice
  <2>2. call[r].device \in Devices /\ call[r].token \in Tokens
    BY <1>7 DEF LinkDevice, HandlerOK, CallOK
  <2>3. devices' \in [Devices -> DeviceRow \cup {None}]
    BY <1>7, <2>2, SetDeviceType DEF LinkDevice
  <2> QED
    BY <1>7, <2>1, <2>3 DEF LinkDevice, DataOK, mint, load, history
<1> QED
  BY <1>1, <1>3, <1>4, <1>6, <1>7
LEMMA WriteTokenType ==
  ASSUME TypeInv, NEW r \in Requests, CreateToken(r) \/ WriteToken(r) \/ DeleteToken(r)
  PROVE  DataOK' /\ FrameOK(r)
<1> USE TypeSplit DEF TypeInv
<1>1. CASE CreateToken(r)
  <2>1. /\ call[r].op = "create_token" /\ call[r].token \in Tokens
        /\ call[r].device \in Devices \cup {None} /\ call[r].expires \in Nat
    BY <1>1 DEF CreateToken, HandlerOK, CallOK
  <2>2. PICK row : row = [hash |-> lastSecret + 1, enabled |-> TRUE,
                          expires |-> call[r].expires, device |-> call[r].device,
                          uses |-> 0, fails |-> 0]
    OBVIOUS
  <2>3. row \in TokenRow
    BY <2>1, <2>2 DEF TokenRow, DataOK
  <2>4. SetToken(call[r].token, row) /\ MintSecret(call[r].token)
    BY <1>1, <2>2 DEF CreateToken
  <2>5. DataOK'
    BY <1>1, <2>1, <2>3, <2>4, SetTokenType, MintType DEF CreateToken, DataOK, load
  <2>6. CASE Done(r)
    BY <2>5, <2>6, DoneType
  <2>7. CASE call[r].device # None /\ Proceed(r, "load_new_device")
    <3>1. "load_new_device" \in Labels
      BY DEF Labels
    <3>2. HandlerOK(r)'
      BY <1>1, <2>1, <2>7, <3>1, ProceedLocal DEF CreateToken, HandlerOK, HoldsRow, CallOK
    <3> QED
      BY <2>5, <2>7, <3>1, <3>2, ProceedType
  <2> QED
    BY <1>1, <2>6, <2>7 DEF CreateToken
<1>2. CASE WriteToken(r)
  <2>1. call[r].token \in Tokens /\ loc[r].row \in TokenRow
        /\ (call[r].op = "update_token" => call[r].device \in Devices \cup {None, Keep})
    BY <1>2 DEF WriteToken, HandlerOK, CallOK, HoldsRow
  <2>2. PICK row : row = IF call[r].op = "update_token" /\ call[r].device # Keep
                         THEN [loc[r].row EXCEPT !.device = call[r].device]
                         ELSE loc[r].row
    OBVIOUS
  <2>3. row \in TokenRow
    BY <2>1, <2>2, RowTypes
  <2>4. SetToken(call[r].token, row)
    BY <1>2, <2>2 DEF WriteToken
  <2>5. DataOK'
    BY <1>2, <2>1, <2>3, <2>4, SetTokenType DEF WriteToken, DataOK, mint, load
  <2> QED
    BY <1>2, <2>5, DoneType DEF WriteToken
<1>3. CASE DeleteToken(r)
  <2>1. call[r].token \in Tokens
    BY <1>3 DEF DeleteToken, HandlerOK, CallOK
  <2>2. tokens' \in [Tokens -> TokenRow \cup {None}]
    BY <1>3, <2>1 DEF DeleteToken, DataOK
  <2>3. hashes' \in SUBSET (Nat \X Tokens)
    BY <1>3, <2>1 DEF DeleteToken, DataOK, Unindexed
  <2>4. tokens[call[r].token] # None => tokens[call[r].token].hash \in Nat
    BY <2>1 DEF DataOK, TokenRow
  <2>5. retired' \in SUBSET Nat
    BY <1>3, <2>4 DEF DeleteToken, DataOK, Retire
  <2> QED
    BY <1>3, <2>2, <2>3, <2>5, DoneType DEF DeleteToken, DataOK, mint, load
<1> QED
  BY <1>1, <1>2, <1>3

LEMMA UnlinkAllType ==
  ASSUME TypeInv, NEW r \in Requests, ListDevices(r) \/ UnlinkListed(r)
  PROVE  DataOK' /\ FrameOK(r)
<1> USE TypeSplit DEF TypeInv
<1>1. ASSUME pc[r] \in {"list_devices", "unlink_listed"}, NEW S \in SUBSET Devices,
             KeepListed(r, S), Goto(r, AfterListed(S))
      PROVE  FrameOK(r)
  <2>1. PICK l : l = AfterListed(S)
    OBVIOUS
  <2>2. l \in {"delete_token", "unlink_listed"}
    BY <2>1 DEF AfterListed
  <2>3. l \in Labels /\ Goto(r, l)
    BY <1>1, <2>1, <2>2 DEF Labels
  <2>4. /\ loc' \in [Requests -> Locals]
        /\ \A q \in Requests \ {r} : loc'[q] = loc[q]
    BY <1>1, KeepLocal
  <2>5. /\ pc' \in [Requests -> Labels] /\ pc'[r] = l
        /\ DOMAIN call' = Requests /\ call'[r] = call[r]
        /\ \A q \in Requests \ {r} : pc'[q] = pc[q] /\ call'[q] = call[q]
    BY <2>3, GotoLocal
  <2>6. HandlerOK(r)'
    BY <1>1, <2>2, <2>5 DEF HandlerOK, HoldsRow, CallOK
  <2> QED
    BY <2>4, <2>5, <2>6 DEF FrameOK, FramesOK, OthersKept
<1>2. CASE ListDevices(r)
  <2>1. PICK S : S = LinkedTo(call[r].token)
    OBVIOUS
  <2>2. S \in SUBSET Devices
    BY <2>1 DEF LinkedTo
  <2> QED
    BY <1>1, <1>2, <2>1, <2>2, DataKept DEF ListDevices
<1>3. CASE UnlinkListed(r)
  <2>1. loc[r].listed \in SUBSET Devices
    BY DEF FramesOK, Locals
  <2>2. PICK d \in loc[r].listed :
          /\ SetDeviceLink(d, None)
          /\ KeepListed(r, loc[r].listed \ {d})
          /\ Goto(r, AfterListed(loc[r].listed \ {d}))
    BY <1>3 DEF UnlinkListed
  <2>3. PICK S : S = loc[r].listed \ {d}
    OBVIOUS
  <2>4. FrameOK(r)
    BY <1>1, <1>3, <2>1, <2>2, <2>3 DEF UnlinkListed
  <2>5. devices' \in [Devices -> DeviceRow \cup {None}]
    BY <2>1, <2>2, SetDeviceType
  <2> QED
    BY <1>3, <2>4, <2>5 DEF UnlinkListed, DataOK, mint, load, history
<1> QED
  BY <1>2, <1>3

\* The token that a device is to be linked to.
LEMMA NewLinkType ==
  ASSUME TypeInv, NEW r \in Requests,
         \/ pc[r] = "set_device"
         \/ pc[r] \in {"load_old_token", "unlink_token"}
  PROVE  NewLink(r) \in Tokens \cup {None}
<1>1. CallOK(call[r]) /\ loc[r].old \in Tokens \cup {None}
  BY DEF TypeInv, TypeOK, HandlerOK, Locals
<1>2. call[r].op \in {"create_device", "update_device", "delete_device"}
  BY DEF TypeInv, HandlerOK
<1> QED
  BY <1>1, <1>2 DEF NewLink, CallOK

LEMMA DeviceType ==
  ASSUME TypeInv, NEW r \in Requests,
         CheckToken(r) \/ LoadDevice(r) \/ WriteDevice(r) \/ DeleteDevice(r)
  PROVE  DataOK' /\ FrameOK(r)
<1> USE TypeSplit DEF TypeInv
<1>1. CASE CheckToken(r)
  <2>1. DataOK'
    BY <1>1, DataKept DEF CheckToken
  <2>2. CASE Done(r)
    BY <2>1, <2>2, DoneType
  <2>3. CASE Proceed(r, "set_device")
    <3>1. "set_device" \in Labels
      BY DEF Labels
    <3>2. HandlerOK(r)'
      BY <1>1, <2>3, <3>1, ProceedLocal DEF CheckToken, HandlerOK, HoldsRow, CallOK
    <3> QED
      BY <2>1, <2>3, <3>1, <3>2, ProceedType
  <2> QED
    BY <1>1, <2>2, <2>3 DEF CheckToken
<1>2. CASE LoadDevice(r)
  <2>1. DataOK'
    BY <1>2, DataKept DEF LoadDevice
  <2>2. CASE Done(r)
    BY <2>1, <2>2, DoneType
  <2>3. CASE devices[call[r].device] # None /\ ~Done(r)
    <3>1. CallOK(call[r]) /\ call[r].device \in Devices
          /\ call[r].op \in {"update_device", "delete_device"}
      BY <1>2 DEF LoadDevice, HandlerOK, CallOK
    <3>2. PICK t : t = devices[call[r].device].token
      OBVIOUS
    <3>3. t \in Tokens \cup {None}
      BY <2>3, <3>1, <3>2 DEF DataOK, DeviceRow
    <3>4. KeepOld(r, t)
      BY <1>2, <2>3, <3>2 DEF LoadDevice
    <3>5. PICK l \in {"set_device", "check_token", "delete_device", "load_old_token"} :
            /\ Goto(r, l)
            /\ l = "set_device" => call[r].op = "update_device"
            /\ l = "check_token" => call[r].op = "update_device" /\ call[r].token \notin {None, Keep}
            /\ l = "delete_device" => call[r].op = "delete_device"
            /\ l = "load_old_token" => call[r].op = "delete_device" /\ t # None
      BY <1>2, <2>3, <3>2 DEF LoadDevice
    <3>6. l \in Labels
      BY DEF Labels
    <3>7. /\ loc' \in [Requests -> Locals] /\ loc'[r] = [loc[r] EXCEPT !.old = t]
          /\ \A q \in Requests \ {r} : loc'[q] = loc[q]
      BY <3>3, <3>4, KeepLocal
    <3>8. loc'[r].old = t
      BY <3>7 DEF FramesOK, Locals
    <3>9. /\ pc' \in [Requests -> Labels] /\ pc'[r] = l
          /\ DOMAIN call' = Requests /\ call'[r] = call[r]
          /\ \A q \in Requests \ {r} : pc'[q] = pc[q] /\ call'[q] = call[q]
      BY <3>5, <3>6, GotoLocal
    <3>10. HandlerOK(r)'
      BY <3>1, <3>3, <3>5, <3>8, <3>9 DEF HandlerOK, HoldsRow, CallOK
    <3> QED
      BY <2>1, <3>7, <3>9, <3>10 DEF FrameOK, FramesOK, OthersKept
  <2> QED
    BY <1>2, <2>2, <2>3 DEF LoadDevice
<1>3. CASE WriteDevice(r)
  <2>1. /\ CallOK(call[r]) /\ call[r].op \in {"create_device", "update_device"}
        /\ call[r].device \in Devices /\ NewLink(r) \in Tokens \cup {None}
        /\ call[r].op = "create_device" => loc[r].old = None
        /\ loc[r].old \in Tokens \cup {None}
    BY <1>3, NewLinkType DEF WriteDevice, HandlerOK, CallOK, FramesOK, Locals
  <2>2. devices' \in [Devices -> DeviceRow \cup {None}]
    BY <1>3, <2>1, SetDeviceType DEF WriteDevice
  <2>3. DataOK'
    BY <1>3, <2>2 DEF WriteDevice, DataOK, mint, load, history
  <2>4. CASE Done(r)
    BY <2>3, <2>4, DoneType
  <2>5. CASE loc[r].old # NewLink(r) /\ ~Done(r)
    <3>1. PICK l : l = IF loc[r].old # None THEN "load_old_token" ELSE "load_new_token"
      OBVIOUS
    <3>2. l \in Labels /\ Proceed(r, l)
      BY <1>3, <2>5, <3>1 DEF WriteDevice, Labels
    <3>3. pc'[r] = l /\ loc'[r] = loc[r] /\ call'[r] = call[r]
      BY <3>2, ProceedLocal
    <3>4. NewLink(r)' = NewLink(r)
      BY <3>3 DEF NewLink
    <3>5. HandlerOK(r)'
      BY <2>1, <2>5, <3>1, <3>3, <3>4 DEF HandlerOK, HoldsRow, CallOK
    <3> QED
      BY <2>3, <3>2, <3>5, ProceedType
  <2> QED
    BY <1>3, <2>4, <2>5 DEF WriteDevice
<1>4. CASE DeleteDevice(r)
  <2>1. call[r].device \in Devices
    BY <1>4 DEF DeleteDevice, HandlerOK, CallOK
  <2>2. devices' \in [Devices -> DeviceRow \cup {None}]
    BY <1>4, <2>1 DEF DeleteDevice, DataOK
  <2> QED
    BY <1>4, <2>2, DoneType DEF DeleteDevice, DataOK, mint, load, history
<1> QED
  BY <1>1, <1>2, <1>3, <1>4
\* The last steps of set_token_device_link, with or without the old token.
LEMMA AfterOldType ==
  ASSUME TypeInv, NEW r \in Requests, pc[r] \in {"load_old_token", "unlink_token"},
         AfterOld(r)
  PROVE  FrameOK(r) /\ ~HoldsRow(r)' /\ ~Creates(r)'
<1> USE DEF TypeInv
<1>1. /\ CallOK(call[r]) /\ call[r].op \in {"update_device", "delete_device"}
      /\ NewLink(r) \in Tokens \cup {None}
  BY NewLinkType DEF HandlerOK
<1>2. CASE Done(r)
  BY <1>2, DoneType
<1>3. CASE ~Done(r)
  <2>1. PICK l \in {"delete_device", "load_new_token"} :
          /\ Proceed(r, l)
          /\ l = "delete_device" => call[r].op = "delete_device"
          /\ l = "load_new_token" => call[r].op = "update_device" /\ NewLink(r) # None
    BY <1>3 DEF AfterOld
  <2>2. l \in Labels
    BY DEF Labels
  <2>3. pc'[r] = l /\ loc'[r] = loc[r] /\ call'[r] = call[r]
    BY <2>1, <2>2, ProceedLocal
  <2>4. NewLink(r)' = NewLink(r)
    BY <2>3 DEF NewLink
  <2>5. ~HoldsRow(r)' /\ ~Creates(r)'
    BY <2>3 DEF HoldsRow, Creates
  <2>6. HandlerOK(r)'
    BY <1>1, <2>1, <2>3, <2>4, <2>5 DEF HandlerOK, CallOK
  <2> QED
    BY <2>1, <2>2, <2>5, <2>6, ProceedType
<1> QED
  BY <1>2, <1>3

LEMMA DeviceTokenType ==
  ASSUME TypeInv, NEW r \in Requests,
         LoadOldToken(r) \/ UnlinkToken(r) \/ LoadNewToken(r) \/ LinkToken(r)
  PROVE  DataOK' /\ FrameOK(r)
<1> USE TypeSplit DEF TypeInv
<1>1. CASE LoadOldToken(r)
  <2>1. DataOK'
    BY <1>1, DataKept DEF LoadOldToken
  <2>2. /\ CallOK(call[r]) /\ call[r].op \in {"update_device", "delete_device"}
        /\ loc[r].old \in Tokens
    BY <1>1 DEF LoadOldToken, HandlerOK
  <2>3. CASE AfterOld(r)
    BY <1>1, <2>1, <2>3, AfterOldType DEF LoadOldToken
  <2>4. CASE tokens[loc[r].old] # None /\ ~AfterOld(r)
    <3>1. PICK row : row = [tokens[loc[r].old] EXCEPT !.device = None]
      OBVIOUS
    <3>2. row \in TokenRow
      BY <2>2, <2>4, <3>1, RowTypes DEF DataOK
    <3>3. KeepRow(r, row) /\ Goto(r, "unlink_token") /\ "unlink_token" \in Labels
      BY <1>1, <2>4, <3>1 DEF LoadOldToken, Labels
    <3>4. /\ FramesOK' /\ DOMAIN call' = Requests /\ OthersKept(r)
          /\ pc'[r] = "unlink_token" /\ call'[r] = call[r]
          /\ loc'[r].row = row /\ loc'[r].old = loc[r].old
      BY <3>2, <3>3, KeepRowType
    <3>5. HandlerOK(r)'
      BY <2>2, <3>2, <3>4 DEF HandlerOK, HoldsRow, CallOK
    <3> QED
      BY <2>1, <3>4, <3>5 DEF FrameOK
  <2> QED
    BY <1>1, <2>3, <2>4 DEF LoadOldToken
<1>2. CASE UnlinkToken(r)
  <2>1. loc[r].old \in Tokens /\ loc[r].row \in TokenRow
    BY <1>2 DEF UnlinkToken, HandlerOK, HoldsRow
  <2>2. DataOK'
    BY <1>2, <2>1, SetTokenType DEF UnlinkToken, DataOK, mint, load
  <2> QED
    BY <1>2, <2>2, AfterOldType DEF UnlinkToken
<1>3. CASE LoadNewToken(r)
  <2>1. DataOK'
    BY <1>3, DataKept DEF LoadNewToken
  <2>2. /\ CallOK(call[r]) /\ call[r].op \in {"create_device", "update_device"}
        /\ NewLink(r) \in Tokens /\ call[r].device \in Devices
    BY <1>3 DEF LoadNewToken, HandlerOK, CallOK
  <2>3. CASE Done(r)
    BY <2>1, <2>3, DoneType
  <2>4. CASE tokens[NewLink(r)] # None
    <3>1. PICK row : row = [tokens[NewLink(r)] EXCEPT !.device = call[r].device]
      OBVIOUS
    <3>2. row \in TokenRow
      BY <2>2, <2>4, <3>1, RowTypes DEF DataOK
    <3>3. KeepRow(r, row) /\ Goto(r, "link_token") /\ "link_token" \in Labels
      BY <1>3, <2>4, <3>1 DEF LoadNewToken, Labels
    <3>4. /\ FramesOK' /\ DOMAIN call' = Requests /\ OthersKept(r)
          /\ pc'[r] = "link_token" /\ call'[r] = call[r]
          /\ loc'[r].row = row /\ loc'[r].old = loc[r].old
      BY <3>2, <3>3, KeepRowType
    <3>5. NewLink(r)' = NewLink(r)
      BY <3>4 DEF NewLink
    <3>6. HandlerOK(r)'
      BY <2>2, <3>2, <3>4, <3>5 DEF HandlerOK, HoldsRow, CallOK
    <3> QED
      BY <2>1, <3>4, <3>6 DEF FrameOK
  <2> QED
    BY <1>3, <2>3, <2>4 DEF LoadNewToken
<1>4. CASE LinkToken(r)
  <2>1. NewLink(r) \in Tokens /\ loc[r].row \in TokenRow
    BY <1>4 DEF LinkToken, HandlerOK, HoldsRow
  <2>2. DataOK'
    BY <1>4, <2>1, SetTokenType DEF LinkToken, DataOK, mint, load
  <2> QED
    BY <1>4, <2>2, DoneType DEF LinkToken
<1> QED
  BY <1>1, <1>2, <1>3, <1>4

LEMMA StepType ==
  ASSUME TypeInv, NEW r \in Requests, Step(r)
  PROVE  TypeInv' /\ OthersKept(r)
<1>1. DataOK' /\ FrameOK(r)
  <2>1. CASE StorageError(r)
    BY <2>1, DoneType, DataKept, TypeSplit DEF StorageError, TypeInv
  <2>2. CASE ~StorageError(r)
    BY <2>2, StartType, SyncType, LoadTokenType, TokenDeviceType, WriteTokenType,
       UnlinkAllType, DeviceType, DeviceTokenType DEF Step
  <2> QED
    BY <2>1, <2>2
<1>2. \A q \in Requests \ {r} : HandlerOK(q)'
  BY <1>1, OtherHandlers DEF FrameOK, TypeInv
<1>3. DataOK' /\ FramesOK' => TypeOK'
  BY DEF TypeOK, DataOK, FramesOK
<1> QED
  BY <1>1, <1>2, <1>3 DEF FrameOK, TypeInv

\* Without a step of a handler: the clock moves, or all handlers are lost.
LEMMA CrashFrames ==
  ASSUME Crash
  PROVE  /\ FramesOK' /\ DOMAIN call' = Requests
         /\ \A r \in Requests :
              pc'[r] = "idle" /\ HandlerOK(r)' /\ ~HoldsRow(r)' /\ ~Creates(r)'
<1>1. FramesOK' /\ DOMAIN call' = Requests
  BY DEF Crash, FramesOK, Labels, Locals, NoLocals
<1>2. ASSUME NEW r \in Requests
      PROVE  pc'[r] = "idle" /\ HandlerOK(r)' /\ ~HoldsRow(r)' /\ ~Creates(r)'
  <2>1. pc'[r] = "idle" /\ loc'[r] = NoLocals
    BY DEF Crash
  <2> QED
    BY <2>1 DEF HandlerOK, HoldsRow, Creates
<1> QED
  BY <1>1, <1>2

LEMMA TypeNext == ASSUME TypeInv, [Next]_vars PROVE TypeInv'
<1>1. CASE \E r \in Requests : Step(r)
  BY <1>1, StepType
<1>2. CASE Tick
  <2>1. now' \in Nat
    BY <1>2 DEF Tick, TypeInv, TypeOK
  <2>2. TypeOK'
    BY <1>2, <2>1 DEF Tick, TypeInv, TypeOK, tables, mint, load, history
  <2> QED
    BY <1>2, <2>2 DEF Tick, TypeInv, HandlerOK, HoldsRow, CallOK, NewLink
<1>3. CASE Crash
  <2>1. DataOK'
    BY <1>3, DataKept, TypeSplit DEF Crash, TypeInv
  <2>2. DataOK' /\ FramesOK' => TypeOK'
    BY DEF TypeOK, DataOK, FramesOK
  <2> QED
    BY <1>3, <2>1, <2>2, CrashFrames DEF TypeInv
<1>4. CASE UNCHANGED vars
  BY <1>4 DEF vars, tables, mint, load, history, TypeInv, TypeOK, HandlerOK, HoldsRow,
     CallOK, NewLink
<1> QED
  BY <1>1, <1>2, <1>3, <1>4 DEF Next, Quiet

\* TypeOK always holds: no handler, at any of its transactions, misses a value
\* it goes on to use, or stores one of another type.
THEOREM TypeCorrect == Spec => []TypeOK
<1>1. TypeInv => TypeOK
  BY DEF TypeInv
<1> QED
  BY <1>1, TypeInit, TypeNext, PTL DEF Spec
-----------------------------------------------------------------------------
(* What a step does to token rows *)

\* The handler goes on with the copy it had.
Kept(r) ==
  /\ HoldsRow(r) /\ loc'[r].row = loc[r].row /\ RowToken(r)' = RowToken(r)
  /\ call'[r] = call[r] /\ UNCHANGED mint

\* The handler has copied the row of a token, edited as its request asks.
Loaded(r) ==
  /\ RowToken(r)' \in Tokens /\ tokens[RowToken(r)'] # None
  /\ loc'[r].row.uses = tokens[RowToken(r)'].uses
  /\ loc'[r].row.fails = tokens[RowToken(r)'].fails
  /\ \/ loc'[r].row.hash = tokens[RowToken(r)'].hash /\ UNCHANGED mint
     \/ loc'[r].row.hash = lastSecret + 1 /\ MintSecret(RowToken(r)')
  /\ \/ loc'[r].row.enabled = tokens[RowToken(r)'].enabled
     \/ call'[r].op = "update_token" /\ call'[r].enabled = loc'[r].row.enabled

\* The handler has written its copy back, but for the device link.
Wrote(r, row) ==
  /\ pc[r] \in {"set_token", "unlink_token", "link_token"}
  /\ HoldsRow(r) /\ SetToken(RowToken(r), row) /\ row \in TokenRow
  /\ row.hash = loc[r].row.hash /\ row.enabled = loc[r].row.enabled
  /\ row.uses = loc[r].row.uses /\ row.fails = loc[r].row.fails
  /\ ~HoldsRow(r)' /\ ~Creates(r)' /\ UNCHANGED <<mint, observed, devices>>

\* Steps without a copy afterwards.
LEMMA NoCopySteps ==
  ASSUME TypeInv, NEW r \in Requests,
         \/ Start(r) \/ LookupSecret(r) \/ LoadBySecret(r) \/ RecordUsage(r)
         \/ RecordFailure(r) \/ CreateToken(r) \/ ListDevices(r) \/ UnlinkListed(r)
         \/ DeleteToken(r) \/ CheckToken(r) \/ LoadDevice(r) \/ WriteDevice(r)
         \/ DeleteDevice(r) \/ StorageError(r)
  PROVE  ~HoldsRow(r)' /\ (Creates(r)' => Start(r))
<1> USE DEF TypeInv, TypeOK
<1>1. CASE Start(r)
  <2>1. PICK c \in Calls : /\ c.op \in Ops
                           /\ call' = [call EXCEPT ![r] = c]
                           /\ pc' = [pc EXCEPT ![r] = FirstStep(c)]
    BY <1>1 DEF Start
  <2>2. call'[r] = c /\ pc'[r] = FirstStep(c) /\ c.op \in AllOps
    BY <2>1, TokenOpsAssumption
  <2>3. /\ FirstStep(c) \notin {"load_old_device", "unlink_device", "set_token",
                                "unlink_token", "link_token", "load_new_device", "link_device"}
        /\ FirstStep(c) = "check_device" => c.op = "create_token"
    BY <2>2 DEF FirstStep, AllOps
  <2> QED
    BY <1>1, <2>2, <2>3 DEF HoldsRow
<1>2. CASE Done(r)
  BY <1>2, DoneType
<1>3. CASE LookupSecret(r) /\ ~Done(r)
  BY <1>3 DEF LookupSecret, Goto, HoldsRow, Creates
<1>4. CASE LoadBySecret(r) /\ ~Done(r)
  BY <1>4 DEF LoadBySecret, Proceed, Goto, HoldsRow, Creates
<1>5. CASE CreateToken(r) /\ ~Done(r)
  <2>1. call[r].op = "create_token"
    BY <1>5 DEF CreateToken, HandlerOK
  <2>2. pc'[r] = "load_new_device" /\ call'[r] = call[r]
    BY <1>5 DEF CreateToken, Proceed, Goto
  <2> QED
    BY <2>1, <2>2 DEF HoldsRow, Creates
<1>6. CASE ListDevices(r) \/ UnlinkListed(r)
  <2>1. pc'[r] \in {"delete_token", "unlink_listed"}
    BY <1>6 DEF ListDevices, UnlinkListed, Goto, AfterListed
  <2> QED
    BY <2>1 DEF HoldsRow, Creates
<1>7. CASE (CheckToken(r) \/ LoadDevice(r) \/ WriteDevice(r)) /\ ~Done(r)
  <2>1. pc'[r] \in {"set_device", "check_token", "delete_device", "load_old_token",
                    "load_new_token"}
    BY <1>7 DEF CheckToken, LoadDevice, WriteDevice, Proceed, Goto
  <2> QED
    BY <2>1 DEF HoldsRow, Creates
<1> QED
  BY <1>1, <1>2, <1>3, <1>4, <1>5, <1>6, <1>7
  DEF RecordUsage, RecordFailure, DeleteToken, DeleteDevice, StorageError

LEMMA LoadSteps ==
  ASSUME TypeInv, NEW r \in Requests, LoadToken(r) \/ LoadOldToken(r) \/ LoadNewToken(r)
  PROVE  (HoldsRow(r)' => Loaded(r)) /\ ~Creates(r)' /\ (~HoldsRow(r)' => UNCHANGED mint)
<1> USE DEF TypeInv, TypeOK
<1>1. CASE Done(r)
  <2>1. ~HoldsRow(r)' /\ ~Creates(r)'
    BY <1>1, DoneType
  <2>2. UNCHANGED mint \/ (LoadToken(r) /\ Goto(r, "set_token"))
    BY DEF LoadToken, LoadOldToken, LoadNewToken
  <2>3. ~Goto(r, "set_token")
    BY <1>1 DEF Done, Goto
  <2> QED
    BY <2>1, <2>2, <2>3
<1>2. CASE LoadToken(r) /\ ~Done(r)
  <2>1. /\ call[r].op \in {"update_token", "rotate_token"} /\ call[r].token \in Tokens
        /\ CallOK(call[r])
    BY <1>2 DEF LoadToken, HandlerOK, CallOK
  <2>2. tokens[call[r].token] \in TokenRow /\ tokens[call[r].token] # None
    BY <1>2, <2>1 DEF LoadToken
  <2>3. PICK row : /\ KeepRow(r, row)
                   /\ row = IF call[r].op = "rotate_token"
                            THEN RotatedRow(tokens[call[r].token], lastSecret + 1)
                            ELSE Edited(tokens[call[r].token], call[r])
    BY <1>2, <2>1 DEF LoadToken
  <2>4. loc'[r].row = row
    BY <2>3 DEF KeepRow, Locals
  <2>5. call'[r] = call[r] /\ pc'[r] \in {"set_token", "check_device", "load_old_device", "load_new_device"}
    BY <1>2 DEF LoadToken, Goto, RelinkStep
  <2>6. RowToken(r)' = call[r].token /\ ~Creates(r)'
    BY <2>1, <2>5 DEF RowToken, Creates
  <2>7. row.uses = tokens[call[r].token].uses /\ row.fails = tokens[call[r].token].fails
    BY <2>2, <2>3 DEF RotatedRow, Edited, TokenRow
  <2>8. CASE call[r].op = "rotate_token"
    <3>1. MintSecret(call[r].token) /\ HoldsRow(r)'
      BY <1>2, <2>8 DEF LoadToken, Goto, HoldsRow
    <3>2. row.hash = lastSecret + 1 /\ row.enabled = tokens[call[r].token].enabled
      BY <2>2, <2>3, <2>8 DEF RotatedRow, TokenRow
    <3> QED
      BY <2>1, <2>2, <2>4, <2>6, <2>7, <3>1, <3>2 DEF Loaded
  <2>9. CASE call[r].op = "update_token"
    <3>1. UNCHANGED mint
      BY <1>2, <2>9 DEF LoadToken
    <3>2. row.hash = tokens[call[r].token].hash
      BY <2>2, <2>3, <2>9 DEF Edited, TokenRow
    <3>3. row.enabled = tokens[call[r].token].enabled \/ call[r].enabled = row.enabled
      BY <2>2, <2>3, <2>9 DEF Edited, TokenRow
    <3> QED
      BY <2>1, <2>2, <2>4, <2>5, <2>6, <2>7, <2>9, <3>1, <3>2, <3>3 DEF Loaded
  <2> QED
    BY <2>1, <2>8, <2>9
<1>3. CASE LoadOldToken(r) /\ ~Done(r)
  <2>1. loc[r].old \in Tokens /\ UNCHANGED mint
    BY <1>3 DEF LoadOldToken, HandlerOK
  <2>2. CASE AfterOld(r)
    BY <1>3, <2>1, <2>2, AfterOldType DEF LoadOldToken
  <2>3. CASE tokens[loc[r].old] # None /\ ~AfterOld(r)
    <3>1. tokens[loc[r].old] \in TokenRow
      BY <2>1, <2>3
    <3>2. PICK row : row = [tokens[loc[r].old] EXCEPT !.device = None] /\ KeepRow(r, row)
      BY <1>3, <2>3 DEF LoadOldToken
    <3>3. loc'[r].row = row /\ loc'[r].old = loc[r].old
      BY <3>2 DEF KeepRow, Locals
    <3>4. pc'[r] = "unlink_token"
      BY <1>3, <2>3 DEF LoadOldToken, Goto
    <3>5. RowToken(r)' = loc[r].old /\ ~Creates(r)'
      BY <3>3, <3>4 DEF RowToken, Creates
    <3>6. /\ row.uses = tokens[loc[r].old].uses /\ row.fails = tokens[loc[r].old].fails
          /\ row.hash = tokens[loc[r].old].hash /\ row.enabled = tokens[loc[r].old].enabled
      BY <3>1, <3>2 DEF TokenRow
    <3> QED
      BY <2>1, <2>3, <3>3, <3>5, <3>6 DEF Loaded
  <2> QED
    BY <1>3, <2>2, <2>3 DEF LoadOldToken
<1>4. CASE LoadNewToken(r) /\ ~Done(r)
  <2>1. NewLink(r) \in Tokens /\ UNCHANGED mint
    BY <1>4 DEF LoadNewToken, HandlerOK
  <2>2. tokens[NewLink(r)] \in TokenRow /\ tokens[NewLink(r)] # None
    BY <1>4, <2>1 DEF LoadNewToken
  <2>3. PICK row : row = [tokens[NewLink(r)] EXCEPT !.device = call[r].device] /\ KeepRow(r, row)
    BY <1>4, <2>2 DEF LoadNewToken
  <2>4. loc'[r].row = row /\ loc'[r].old = loc[r].old
    BY <2>3 DEF KeepRow, Locals
  <2>5. pc'[r] = "link_token" /\ call'[r] = call[r]
    BY <1>4, <2>2 DEF LoadNewToken, Goto
  <2>6. NewLink(r)' = NewLink(r)
    BY <2>4, <2>5 DEF NewLink
  <2>7. RowToken(r)' = NewLink(r) /\ ~Creates(r)'
    BY <2>5, <2>6 DEF RowToken, Creates
  <2>8. /\ row.uses = tokens[NewLink(r)].uses /\ row.fails = tokens[NewLink(r)].fails
        /\ row.hash = tokens[NewLink(r)].hash /\ row.enabled = tokens[NewLink(r)].enabled
    BY <2>2, <2>3 DEF TokenRow
  <2> QED
    BY <2>1, <2>2, <2>4, <2>7, <2>8 DEF Loaded
<1> QED
  BY <1>1, <1>2, <1>3, <1>4
LEMMA KeepSteps ==
  ASSUME TypeInv, NEW r \in Requests,
         \/ CheckDevice(r) \/ LoadOldDevice(r) \/ UnlinkDevice(r)
         \/ LoadNewDevice(r) \/ LinkDevice(r)
  PROVE  /\ HoldsRow(r)' => Kept(r)
         /\ Creates(r)' => Creates(r) /\ call'[r] = call[r]
         /\ UNCHANGED <<mint, tokens, hashes, retired, observed>>
<1> USE DEF TypeInv, TypeOK
<1>1. UNCHANGED <<mint, tokens, hashes, retired, observed>>
  BY DEF CheckDevice, LoadOldDevice, UnlinkDevice, LoadNewDevice, LinkDevice, tables, history
<1>2. CASE Done(r)
  BY <1>1, <1>2, DoneType
<1>3. CASE CheckDevice(r) /\ ~Done(r)
  <2>1. call'[r] = call[r] /\ loc'[r] = loc[r] /\ call[r].op \in {"create_token", "update_token"}
    BY <1>3 DEF CheckDevice, Proceed, Goto, HandlerOK
  <2>2. CASE call[r].op = "create_token"
    <3>1. pc'[r] = "create_token" /\ Creates(r)
      BY <1>3, <2>2 DEF CheckDevice, Proceed, Goto, Creates
    <3> QED
      BY <1>1, <2>1, <3>1 DEF HoldsRow
  <2>3. CASE call[r].op = "update_token"
    <3>1. pc'[r] \in {"set_token", "load_new_device", "load_old_device"}
      BY <1>3, <2>3 DEF CheckDevice, Proceed, Goto, RelinkStep
    <3>2. HoldsRow(r) /\ RowToken(r) = call[r].token /\ RowToken(r)' = call[r].token
      BY <1>3, <2>1, <2>3, <3>1 DEF CheckDevice, HoldsRow, RowToken
    <3> QED
      BY <1>1, <2>1, <2>3, <3>1, <3>2 DEF Kept, Creates
  <2> QED
    BY <2>1, <2>2, <2>3
<1>4. CASE LoadOldDevice(r) \/ UnlinkDevice(r)
  <2>1. call'[r] = call[r] /\ loc'[r] = loc[r] /\ call[r].op = "update_token"
    BY <1>4 DEF LoadOldDevice, UnlinkDevice, Proceed, Goto, HandlerOK
  <2>2. pc'[r] \in {"unlink_device", "set_token", "load_new_device"}
    BY <1>4 DEF LoadOldDevice, UnlinkDevice, Proceed, Goto, AfterUnlink
  <2>3. HoldsRow(r) /\ RowToken(r) = call[r].token /\ RowToken(r)' = call[r].token
    BY <1>4, <2>1, <2>2 DEF LoadOldDevice, UnlinkDevice, HoldsRow, RowToken
  <2> QED
    BY <1>1, <2>1, <2>2, <2>3 DEF Kept, Creates
<1>5. CASE (LoadNewDevice(r) \/ LinkDevice(r)) /\ ~Done(r)
  <2>1. call'[r] = call[r] /\ loc'[r] = loc[r] /\ call[r].op \in {"create_token", "update_token"}
    BY <1>5 DEF LoadNewDevice, LinkDevice, AfterLink, Proceed, Goto, HandlerOK
  <2>2. pc'[r] = "link_device" \/ (pc'[r] = "set_token" /\ call[r].op = "update_token")
    BY <1>5, <2>1 DEF LoadNewDevice, LinkDevice, AfterLink, Proceed, Goto
  <2>3. CASE call[r].op = "update_token"
    <3>1. HoldsRow(r) /\ RowToken(r) = call[r].token /\ RowToken(r)' = call[r].token
      BY <1>5, <2>1, <2>2, <2>3 DEF LoadNewDevice, LinkDevice, HoldsRow, RowToken
    <3> QED
      BY <1>1, <2>1, <2>2, <3>1 DEF Kept, Creates
  <2>4. CASE call[r].op = "create_token"
    BY <1>1, <2>1, <2>2, <2>4 DEF HoldsRow, Creates
  <2> QED
    BY <2>1, <2>3, <2>4
<1> QED
  BY <1>2, <1>3, <1>4, <1>5

LEMMA WriteSteps ==
  ASSUME TypeInv, NEW r \in Requests, WriteToken(r) \/ UnlinkToken(r) \/ LinkToken(r)
  PROVE  RowToken(r) \in Tokens /\ \E row : Wrote(r, row)
<1> USE DEF TypeInv
<1>1. CASE WriteToken(r)
  <2>1. /\ call[r].token \in Tokens /\ loc[r].row \in TokenRow /\ HoldsRow(r)
        /\ call[r].op = "update_token" => call[r].device \in Devices \cup {None, Keep}
    BY <1>1 DEF WriteToken, HandlerOK, CallOK, HoldsRow
  <2>2. RowToken(r) = call[r].token
    BY <1>1 DEF WriteToken, RowToken
  <2>3. PICK row : row = IF call[r].op = "update_token" /\ call[r].device # Keep
                         THEN [loc[r].row EXCEPT !.device = call[r].device]
                         ELSE loc[r].row
    OBVIOUS
  <2>4. row \in TokenRow
    BY <2>1, <2>3, RowTypes
  <2>5. /\ row.hash = loc[r].row.hash /\ row.enabled = loc[r].row.enabled
        /\ row.uses = loc[r].row.uses /\ row.fails = loc[r].row.fails
    BY <2>1, <2>3 DEF TokenRow
  <2>6. SetToken(RowToken(r), row) /\ UNCHANGED <<mint, observed, devices>>
    BY <1>1, <2>2, <2>3 DEF WriteToken
  <2>7. ~HoldsRow(r)' /\ ~Creates(r)'
    BY <1>1, DoneType DEF WriteToken
  <2> QED
    BY <1>1, <2>1, <2>2, <2>4, <2>5, <2>6, <2>7 DEF Wrote, WriteToken
<1>2. CASE UnlinkToken(r)
  <2>1. loc[r].old \in Tokens /\ loc[r].row \in TokenRow /\ HoldsRow(r)
    BY <1>2 DEF UnlinkToken, HandlerOK, HoldsRow
  <2>2. RowToken(r) = loc[r].old
    BY <1>2 DEF UnlinkToken, RowToken
  <2>3. ~HoldsRow(r)' /\ ~Creates(r)'
    BY <1>2, AfterOldType DEF UnlinkToken
  <2>4. Wrote(r, loc[r].row)
    BY <1>2, <2>1, <2>2, <2>3 DEF UnlinkToken, Wrote
  <2> QED
    BY <2>1, <2>2, <2>4
<1>3. CASE LinkToken(r)
  <2>1. NewLink(r) \in Tokens /\ loc[r].row \in TokenRow /\ HoldsRow(r)
    BY <1>3 DEF LinkToken, HandlerOK, HoldsRow
  <2>2. RowToken(r) = NewLink(r)
    BY <1>3 DEF LinkToken, RowToken
  <2>3. ~HoldsRow(r)' /\ ~Creates(r)'
    BY <1>3, DoneType DEF LinkToken
  <2>4. Wrote(r, loc[r].row)
    BY <1>3, <2>1, <2>2, <2>3 DEF LinkToken, Wrote
  <2> QED
    BY <2>1, <2>2, <2>4
<1> QED
  BY <1>1, <1>2, <1>3

\* A step of a handler that leaves the token table alone: its copy is one it
\* had, or one it has just read.
Reads(r) ==
  /\ UNCHANGED <<tokens, hashes, retired, observed>>
  /\ HoldsRow(r)' => Kept(r) \/ Loaded(r)
  /\ ~HoldsRow(r)' => UNCHANGED <<minted, lastSecret>>
  /\ Creates(r)' => Start(r) \/ (Creates(r) /\ call'[r] = call[r])
  /\ UNCHANGED ids \/ Start(r)

\* A use or a refusal is counted in the row.
Counts(r) ==
  /\ loc[r].token \in Tokens
  /\ \A t \in Tokens :
       /\ tokens'[t] = None <=> tokens[t] = None
       /\ tokens[t] # None => /\ tokens'[t].hash = tokens[t].hash
                              /\ tokens'[t].enabled = tokens[t].enabled
  /\ UNCHANGED <<hashes, retired, mint>> /\ ~HoldsRow(r)' /\ ~Creates(r)'

LEMMA CountSteps ==
  ASSUME TypeInv, NEW r \in Requests, RecordUsage(r) \/ RecordFailure(r)
  PROVE  Counts(r)
<1> USE TokenRowsAssumption DEF TypeInv, TypeOK
<1>1. loc[r].token \in Tokens
  BY DEF RecordUsage, RecordFailure, HandlerOK
<1>2. ~HoldsRow(r)' /\ ~Creates(r)'
  BY DoneType DEF RecordUsage, RecordFailure
<1>3. CASE tokens[loc[r].token] = None
  <2>1. tokens' = tokens
    BY <1>3 DEF RecordUsage, RecordFailure
  <2> QED
    BY <1>1, <1>2, <2>1 DEF RecordUsage, RecordFailure, Counts
<1>4. CASE tokens[loc[r].token] # None
  <2>1. tokens[loc[r].token] \in TokenRow
    BY <1>1, <1>4
  <2>2. PICK row : /\ tokens' = [tokens EXCEPT ![loc[r].token] = row]
                   /\ row \in {CountUse(tokens[loc[r].token]),
                               [tokens[loc[r].token] EXCEPT !.fails = @ + 1]}
    BY <1>4 DEF RecordUsage, RecordFailure
  <2>3. row \in TokenRow
    BY <2>1, <2>2, RowTypes
  <2>4. /\ row.hash = tokens[loc[r].token].hash
        /\ row.enabled = tokens[loc[r].token].enabled
    BY <2>1, <2>2 DEF CountUse, TokenRow
  <2>5. tokens'[loc[r].token] = row /\ row # None
        /\ \A t \in Tokens \ {loc[r].token} : tokens'[t] = tokens[t]
    BY <1>1, <2>2, <2>3
  <2> QED
    BY <1>1, <1>2, <1>4, <2>4, <2>5 DEF RecordUsage, RecordFailure, Counts
<1> QED
  BY <1>3, <1>4

\* All that a step of a handler may do to token rows.
LEMMA StepKinds ==
  ASSUME TypeInv, NEW r \in Requests, Step(r)
  PROVE  \/ Reads(r)
         \/ (RecordUsage(r) \/ RecordFailure(r)) /\ Counts(r)
         \/ RowToken(r) \in Tokens /\ \E row : Wrote(r, row)
         \/ CreateToken(r) \/ DeleteToken(r)
<1>1. CASE \/ Start(r) \/ LookupSecret(r) \/ LoadBySecret(r) \/ ListDevices(r)
           \/ UnlinkListed(r) \/ CheckToken(r) \/ LoadDevice(r) \/ WriteDevice(r)
           \/ DeleteDevice(r) \/ StorageError(r)
  <2>1. ~HoldsRow(r)' /\ (Creates(r)' => Start(r))
    BY <1>1, NoCopySteps
  <2>2. /\ UNCHANGED <<tokens, hashes, retired, observed>> /\ UNCHANGED <<minted, lastSecret>>
        /\ UNCHANGED ids \/ Start(r)
    BY <1>1 DEF Start, LookupSecret, LoadBySecret, ListDevices, UnlinkListed, CheckToken,
       LoadDevice, WriteDevice, DeleteDevice, StorageError, tables, history, mint
  <2> QED
    BY <2>1, <2>2 DEF Reads
<1>2. CASE LoadToken(r) \/ LoadOldToken(r) \/ LoadNewToken(r)
  <2>1. UNCHANGED <<tokens, hashes, retired, observed>> /\ UNCHANGED ids
    BY <1>2 DEF LoadToken, LoadOldToken, LoadNewToken, tables, history, mint, MintSecret
  <2>2. ~HoldsRow(r)' => UNCHANGED <<minted, lastSecret>>
    BY <1>2, LoadSteps DEF mint
  <2> QED
    BY <1>2, <2>1, <2>2, LoadSteps DEF Reads
<1>3. CASE \/ CheckDevice(r) \/ LoadOldDevice(r) \/ UnlinkDevice(r)
           \/ LoadNewDevice(r) \/ LinkDevice(r)
  BY <1>3, KeepSteps DEF Reads, mint
<1> QED
  BY <1>1, <1>2, <1>3, CountSteps, WriteSteps DEF Step
-----------------------------------------------------------------------------
(* The hash index *)

LEMMA MintKeepsOnce ==
  ASSUME TypeOK, MintedOnce, NEW t \in Tokens, MintSecret(t)
  PROVE  MintedOnce' /\ minted \subseteq minted' /\ <<lastSecret + 1, t>> \in minted'
<1>1. minted' = minted \cup {<<lastSecret + 1, t>>} /\ lastSecret' = lastSecret + 1
      /\ lastSecret \in Nat
  BY DEF MintSecret, TypeOK
<1>2. \A e \in minted : e[1] \in 1..lastSecret
  BY DEF MintedOnce
<1>3. \A e \in minted' : e[1] \in 1..lastSecret'
  BY <1>1, <1>2
<1>4. \A e \in minted : e[1] # lastSecret + 1
  BY <1>1, <1>2
<1>5. \A e, f \in minted' : e[1] = f[1] => e[2] = f[2]
  BY <1>1, <1>4 DEF MintedOnce
<1> QED
  BY <1>1, <1>3, <1>5 DEF MintedOnce

\* A row written with a hash that no other row has leaves the index exact.
LEMMA SetTokenIndexes ==
  ASSUME TypeOK, HashIndexExact, NEW t \in Tokens, NEW row \in TokenRow, SetToken(t, row),
         \A u \in Tokens \ {t} : tokens[u] # None =>
           tokens[u].hash # row.hash /\ (tokens[t] # None => tokens[u].hash # tokens[t].hash)
  PROVE  HashIndexExact'
<1>1. tokens'[t] = row /\ row # None /\ \A u \in Tokens \ {t} : tokens'[u] = tokens[u]
  BY TokenRowsAssumption DEF SetToken, TypeOK
<1>2. ASSUME NEW e \in hashes'
      PROVE  e \in {<<tokens'[u].hash, u>> : u \in {v \in Tokens : tokens'[v] # None}}
  <2>1. CASE e = <<row.hash, t>>
    BY <1>1, <2>1
  <2>2. CASE e # <<row.hash, t>>
    <3>1. e \in hashes /\ e[1] # row.hash /\ (tokens[t] # None => e[1] # tokens[t].hash)
      BY <1>2, <2>2 DEF SetToken, Unindexed
    <3>2. PICK u \in Tokens : tokens[u] # None /\ e = <<tokens[u].hash, u>>
      BY <3>1 DEF HashIndexExact
    <3>3. u # t
      BY <3>1, <3>2
    <3> QED
      BY <1>1, <3>2, <3>3
  <2> QED
    BY <2>1, <2>2
<1>3. ASSUME NEW u \in Tokens, tokens'[u] # None
      PROVE  <<tokens'[u].hash, u>> \in hashes'
  <2>1. CASE u = t
    BY <1>1, <2>1 DEF SetToken
  <2>2. CASE u # t
    <3>1. tokens[u] # None /\ tokens'[u] = tokens[u]
      BY <1>1, <1>3, <2>2
    <3>2. <<tokens[u].hash, u>> \in hashes
      BY <3>1 DEF HashIndexExact
    <3>3. <<tokens[u].hash, u>> \in Unindexed(t)
      BY <2>2, <3>1, <3>2 DEF Unindexed
    <3> QED
      BY <2>2, <3>1, <3>3 DEF SetToken
  <2> QED
    BY <2>1, <2>2
<1> QED
  BY <1>2, <1>3 DEF HashIndexExact

\* The secrets of two stored rows differ.
LEMMA HashesDiffer ==
  ASSUME MintedOnce, RowsOwn
  PROVE  \A t, u \in Tokens : t # u /\ tokens[t] # None /\ tokens[u] # None
           => tokens[t].hash # tokens[u].hash
<1> SUFFICES ASSUME NEW t \in Tokens, NEW u \in Tokens, tokens[t] # None, tokens[u] # None,
                    tokens[t].hash = tokens[u].hash
             PROVE  t = u
  OBVIOUS
<1>1. <<tokens[t].hash, t>> \in minted /\ <<tokens[u].hash, u>> \in minted
  BY DEF RowsOwn
<1> QED
  BY <1>1 DEF MintedOnce

LEMMA IndexInit == Init => IndexInv
<1> SUFFICES ASSUME Init PROVE IndexInv
  OBVIOUS
<1>1. TypeInv /\ \A r \in Requests : ~HoldsRow(r)
  BY TypeInit DEF Init, HoldsRow
<1>2. MintedOnce /\ RowsOwn
  BY <1>1 DEF Init, MintedOnce, RowsOwn
<1>3. HashIndexExact
  BY DEF Init, HashIndexExact
<1> QED
  BY <1>1, <1>2, <1>3 DEF IndexInv

\* The other handlers' copies stay copies of their tokens' rows.
LEMMA OthersOwn ==
  ASSUME RowsOwn, NEW r \in Requests, OthersKept(r), minted \subseteq minted'
  PROVE  \A q \in Requests \ {r} :
           HoldsRow(q)' => <<loc'[q].row.hash, RowToken(q)'>> \in minted'
<1> SUFFICES ASSUME NEW q \in Requests \ {r}, HoldsRow(q)'
             PROVE  <<loc'[q].row.hash, RowToken(q)'>> \in minted'
  OBVIOUS
<1>1. HoldsRow(q) /\ RowToken(q)' = RowToken(q) /\ loc'[q] = loc[q]
  BY OtherHandlers DEF OthersKept
<1> QED
  BY <1>1 DEF RowsOwn

LEMMA IndexStep ==
  ASSUME IndexInv, NEW r \in Requests, Step(r)
  PROVE  IndexInv'
<1> USE DEF IndexInv
<1>1. TypeInv' /\ OthersKept(r) /\ TypeOK
  BY StepType DEF TypeInv
<1>2. CASE Reads(r)
  <2>1. HashIndexExact'
    BY <1>2 DEF Reads, HashIndexExact
  <2>2. /\ MintedOnce' /\ minted \subseteq minted'
        /\ HoldsRow(r)' => <<loc'[r].row.hash, RowToken(r)'>> \in minted'
    <3>1. CASE UNCHANGED <<minted, lastSecret>> /\ ~HoldsRow(r)'
      BY <3>1 DEF MintedOnce
    <3>2. CASE HoldsRow(r)' /\ Kept(r)
      BY <3>2 DEF Kept, RowsOwn, MintedOnce, mint
    <3>3. CASE HoldsRow(r)' /\ Loaded(r)
      <4>1. CASE loc'[r].row.hash = tokens[RowToken(r)'].hash /\ UNCHANGED mint
        BY <3>3, <4>1 DEF Loaded, RowsOwn, MintedOnce, mint
      <4>2. CASE loc'[r].row.hash = lastSecret + 1 /\ MintSecret(RowToken(r)')
        BY <1>1, <3>3, <4>2, MintKeepsOnce DEF Loaded
      <4> QED
        BY <3>3, <4>1, <4>2 DEF Loaded
    <3> QED
      BY <1>2, <3>1, <3>2, <3>3 DEF Reads
  <2>3. RowsOwn'
    BY <1>1, <1>2, <2>2, OthersOwn DEF RowsOwn, Reads
  <2> QED
    BY <1>1, <2>1, <2>2, <2>3
<1>3. CASE Counts(r)
  <2>1. MintedOnce'
    BY <1>3 DEF Counts, MintedOnce, mint
  <2>2. HashIndexExact'
    BY <1>3 DEF Counts, HashIndexExact
  <2>3. minted' = minted /\ ~HoldsRow(r)'
    BY <1>3 DEF Counts, mint
  <2>4. RowsOwn'
    BY <1>1, <1>3, <2>3, OthersOwn DEF RowsOwn, Counts
  <2> QED
    BY <1>1, <2>1, <2>2, <2>4
<1>4. CASE RowToken(r) \in Tokens /\ \E row : Wrote(r, row)
  <2>1. PICK row : Wrote(r, row)
    BY <1>4
  <2>2. PICK t \in Tokens : t = RowToken(r)
    BY <1>4
  <2>3. /\ row \in TokenRow /\ SetToken(t, row) /\ minted' = minted /\ lastSecret' = lastSecret
        /\ ~HoldsRow(r)' /\ <<row.hash, t>> \in minted
    BY <2>1, <2>2 DEF Wrote, mint, RowsOwn
  <2>4. MintedOnce'
    BY <2>3 DEF MintedOnce
  <2>5. ASSUME NEW u \in Tokens \ {t}, tokens[u] # None PROVE tokens[u].hash # row.hash
    <3>1. <<tokens[u].hash, u>> \in minted
      BY <2>5 DEF RowsOwn
    <3>2. \A e, f \in minted : e[1] = f[1] => e[2] = f[2]
      BY DEF MintedOnce
    <3> QED
      BY <2>3, <3>1, <3>2
  <2>6. HashIndexExact'
    BY <1>1, <2>3, <2>5, SetTokenIndexes, HashesDiffer
  <2>7. tokens'[t] = row /\ \A u \in Tokens \ {t} : tokens'[u] = tokens[u]
    BY <1>1, <2>3 DEF SetToken, TypeOK
  <2>8. RowsOwn'
    BY <1>1, <2>3, <2>7, OthersOwn DEF RowsOwn
  <2> QED
    BY <1>1, <2>4, <2>6, <2>8
<1>5. CASE CreateToken(r)
  <2>1. PICK t \in Tokens : t = call[r].token
    BY <1>5 DEF CreateToken, TypeInv, HandlerOK, CallOK
  <2>2. PICK row : row = [hash |-> lastSecret + 1, enabled |-> TRUE,
                          expires |-> call[r].expires, device |-> call[r].device,
                          uses |-> 0, fails |-> 0]
    OBVIOUS
  <2>3. SetToken(t, row) /\ MintSecret(t) /\ row.hash = lastSecret + 1
    BY <1>5, <2>1, <2>2 DEF CreateToken
  <2>4. row \in TokenRow
    <3>1. call[r].device \in Devices \cup {None} /\ call[r].expires \in Nat
      BY <1>5 DEF CreateToken, TypeInv, HandlerOK, CallOK
    <3> QED
      BY <1>1, <2>2, <3>1 DEF TokenRow, TypeOK
  <2>5. MintedOnce' /\ minted \subseteq minted' /\ <<row.hash, t>> \in minted'
    BY <1>1, <2>3, MintKeepsOnce
  <2>6. ASSUME NEW u \in Tokens \ {t}, tokens[u] # None PROVE tokens[u].hash # row.hash
    <3>1. <<tokens[u].hash, u>> \in minted'
      BY <2>5, <2>6 DEF RowsOwn
    <3>2. \A e, f \in minted' : e[1] = f[1] => e[2] = f[2]
      BY <2>5 DEF MintedOnce
    <3> QED
      BY <2>5, <3>1, <3>2
  <2>7. HashIndexExact'
    BY <1>1, <2>3, <2>4, <2>6, SetTokenIndexes, HashesDiffer
  <2>8. tokens'[t] = row /\ \A u \in Tokens \ {t} : tokens'[u] = tokens[u]
    BY <1>1, <2>3 DEF SetToken, TypeOK
  <2>9. ~HoldsRow(r)'
    BY <1>5, NoCopySteps
  <2>10. RowsOwn'
    BY <1>1, <2>5, <2>8, <2>9, OthersOwn DEF RowsOwn
  <2> QED
    BY <1>1, <2>5, <2>7, <2>10
<1>6. CASE DeleteToken(r)
  <2>1. PICK t \in Tokens : t = call[r].token
    BY <1>6 DEF DeleteToken, TypeInv, HandlerOK, CallOK
  <2>2. /\ tokens'[t] = None /\ \A u \in Tokens \ {t} : tokens'[u] = tokens[u]
        /\ hashes' = Unindexed(t) /\ minted' = minted /\ lastSecret' = lastSecret
    BY <1>1, <1>6, <2>1 DEF DeleteToken, TypeOK, mint
  <2>3. ASSUME NEW e \in hashes'
        PROVE  e \in {<<tokens'[u].hash, u>> : u \in {v \in Tokens : tokens'[v] # None}}
    <3>1. e \in hashes /\ (tokens[t] # None => e[1] # tokens[t].hash)
      BY <2>2, <2>3 DEF Unindexed
    <3>2. PICK u \in Tokens : tokens[u] # None /\ e = <<tokens[u].hash, u>>
      BY <3>1 DEF HashIndexExact
    <3> QED
      BY <2>2, <3>1, <3>2
  <2>4. ASSUME NEW u \in Tokens, tokens'[u] # None
        PROVE  <<tokens'[u].hash, u>> \in hashes'
    <3>1. u # t /\ tokens[u] # None /\ tokens'[u] = tokens[u]
      BY <2>2, <2>4
    <3>2. <<tokens[u].hash, u>> \in hashes
      BY <3>1 DEF HashIndexExact
    <3>3. tokens[t] # None => tokens[u].hash # tokens[t].hash
      BY <3>1, HashesDiffer
    <3> QED
      BY <2>2, <3>1, <3>2, <3>3 DEF Unindexed
  <2>5. HashIndexExact'
    BY <2>3, <2>4 DEF HashIndexExact
  <2>6. MintedOnce'
    BY <2>2 DEF MintedOnce
  <2>7. ~HoldsRow(r)'
    BY <1>6, NoCopySteps
  <2>8. RowsOwn'
    BY <1>1, <2>2, <2>7, OthersOwn DEF RowsOwn
  <2> QED
    BY <1>1, <2>5, <2>6, <2>8
<1> QED
  BY <1>2, <1>3, <1>4, <1>5, <1>6, StepKinds

LEMMA IndexNext == ASSUME IndexInv, [Next]_vars PROVE IndexInv'
<1> USE DEF IndexInv
<1>1. CASE \E r \in Requests : Step(r)
  BY <1>1, IndexStep
<1>2. TypeInv'
  BY TypeNext
<1>3. CASE Tick
  BY <1>2, <1>3 DEF Tick, tables, mint, MintedOnce, RowsOwn, HashIndexExact, HoldsRow,
     RowToken, NewLink
<1>4. CASE Crash
  <2>1. \A r \in Requests : ~HoldsRow(r)'
    BY <1>4, CrashFrames
  <2> QED
    BY <1>2, <1>4, <2>1 DEF Crash, tables, mint, MintedOnce, RowsOwn, HashIndexExact
<1>5. CASE UNCHANGED vars
  BY <1>2, <1>5 DEF vars, tables, mint, MintedOnce, RowsOwn, HashIndexExact, HoldsRow,
     RowToken, NewLink
<1> QED
  BY <1>1, <1>3, <1>4, <1>5 DEF Next, Quiet

\* HashIndexExact always holds: however set_token and delete_token interleave
\* with handlers that write back rows read earlier, a hash in the index leads
\* to the token whose row has it, and every row is in the index.
THEOREM IndexIsExact == Spec => []HashIndexExact
<1>1. IndexInv => HashIndexExact
  BY DEF IndexInv
<1> QED
  BY <1>1, IndexInit, IndexNext, PTL DEF Spec
-----------------------------------------------------------------------------
(* While no two admin requests overlap *)

\* A handler serves the same request from its start to its answer.
LEMMA StepServes ==
  ASSUME TypeInv, NEW r \in Requests, Step(r)
  PROVE  /\ overlap' = overlap
         /\ Start(r) \/ (pc[r] # "idle" /\ (pc'[r] = "idle" \/ call'[r] = call[r]))
<1> USE DEF TypeInv, TypeOK
<1>1. overlap' = overlap
  BY DEF Step, Start, LookupSecret, LoadBySecret, RecordUsage, RecordFailure, LoadToken,
     CheckDevice, CreateToken, LoadOldDevice, UnlinkDevice, LoadNewDevice, LinkDevice,
     WriteToken, ListDevices, UnlinkListed, DeleteToken, CheckToken, LoadDevice,
     WriteDevice, LoadOldToken, UnlinkToken, LoadNewToken, LinkToken, DeleteDevice,
     StorageError, load
<1>2. ~Start(r) => pc[r] # "idle"
  BY DEF Step, LookupSecret, LoadBySecret, RecordUsage, RecordFailure, LoadToken,
     CheckDevice, CreateToken, LoadOldDevice, UnlinkDevice, LoadNewDevice, LinkDevice,
     WriteToken, ListDevices, UnlinkListed, DeleteToken, CheckToken, LoadDevice,
     WriteDevice, LoadOldToken, UnlinkToken, LoadNewToken, LinkToken, DeleteDevice,
     StorageError
<1>3. ~Start(r) => Done(r) \/ call' = call
  <2>1. CASE \/ LookupSecret(r) \/ LoadBySecret(r) \/ RecordUsage(r) \/ RecordFailure(r)
             \/ LoadToken(r) \/ CheckDevice(r) \/ CreateToken(r) \/ LoadOldDevice(r)
             \/ UnlinkDevice(r) \/ LoadNewDevice(r) \/ LinkDevice(r) \/ WriteToken(r)
    BY <2>1 DEF LookupSecret, LoadBySecret, RecordUsage, RecordFailure, LoadToken,
       CheckDevice, CreateToken, LoadOldDevice, UnlinkDevice, LoadNewDevice, LinkDevice,
       WriteToken, AfterLink, Proceed, Goto
  <2>2. CASE \/ ListDevices(r) \/ UnlinkListed(r) \/ DeleteToken(r) \/ CheckToken(r)
             \/ LoadDevice(r) \/ WriteDevice(r) \/ LoadOldToken(r) \/ UnlinkToken(r)
             \/ LoadNewToken(r) \/ LinkToken(r) \/ DeleteDevice(r) \/ StorageError(r)
    BY <2>2 DEF ListDevices, UnlinkListed, DeleteToken, CheckToken, LoadDevice,
       WriteDevice, LoadOldToken, UnlinkToken, LoadNewToken, LinkToken, DeleteDevice,
       StorageError, AfterOld, Proceed, Goto
  <2> QED
    BY <2>1, <2>2 DEF Step
<1>4. Done(r) => pc'[r] = "idle"
  BY DEF Done
<1> QED
  BY <1>1, <1>2, <1>3, <1>4

\* Who holds a row, or is about to create one, serves an admin request.
LEMMA HoldersAdmin ==
  ASSUME TypeInv, NEW r \in Requests, HoldsRow(r) \/ Creates(r)
  PROVE  /\ pc[r] # "idle" /\ call[r].op # "sync"
         /\ HoldsRow(r) => RowToken(r) \in Tokens
<1>1. pc[r] # "idle"
  BY DEF HoldsRow, Creates
<1>2. call[r].op # "sync"
  BY DEF TypeInv, HandlerOK, HoldsRow, Creates
<1>3. HoldsRow(r) => RowToken(r) \in Tokens
  BY DEF TypeInv, HandlerOK, HoldsRow, RowToken, CallOK
<1> QED
  BY <1>1, <1>2, <1>3

\* Beside an admin request that has begun, no other handler holds a row.
LEMMA OnlyHolder ==
  ASSUME TypeInv, SerialAdmins, overlap # "any", NEW r \in Requests,
         pc[r] # "idle", call[r].op # "sync"
  PROVE  \A q \in Requests \ {r} : ~HoldsRow(q) /\ ~Creates(q)
  BY HoldersAdmin DEF SerialAdmins

\* A step begins a request only beside those it may overlap with.
LEMMA SerialStep ==
  ASSUME TypeInv, NEW r \in Requests, Step(r)
  PROVE  (SerialAdmins => SerialAdmins') /\ (LoneAdmin => LoneAdmin')
<1>1. OthersKept(r) /\ overlap' = overlap /\ overlap \in Overlaps
  BY StepType, StepServes DEF TypeInv, TypeOK
<1>2. CASE Start(r)
  <2>1. PICK c \in Calls :
          /\ call' = [call EXCEPT ![r] = c]
          /\ \A q \in Requests : pc[q] # "idle" => MayOverlap(c, call[q])
    BY <1>2 DEF Start
  <2>2. call'[r] = c
    BY <2>1 DEF TypeInv
  <2>3. \A q \in Requests : pc[q] # "idle" =>
          /\ overlap # "any" => c.op = "sync" \/ call[q].op = "sync"
          /\ overlap = "admin_alone" => c.op = "sync" /\ call[q].op = "sync"
    BY <1>1, <2>1 DEF MayOverlap, Overlaps
  <2> QED
    BY <1>1, <2>2, <2>3 DEF SerialAdmins, LoneAdmin, OthersKept
<1>3. CASE ~Start(r)
  <2>1. pc[r] # "idle" /\ (pc'[r] # "idle" => call'[r] = call[r])
    BY <1>3, StepServes
  <2> QED
    BY <1>1, <2>1 DEF SerialAdmins, LoneAdmin, OthersKept
<1> QED
  BY <1>2, <1>3

\* The request of a handler that creates a token is new.
LEMMA StartCreates ==
  ASSUME TypeInv, NEW r \in Requests, Start(r)
  PROVE  /\ ids \subseteq ids'
         /\ Creates(r)' => call'[r].token \in Tokens \ ids /\ call'[r].token \in ids'
         /\ pc'[r] = "lookup" => (call'[r].late <=> call'[r].secret \in retired)
         /\ pc'[r] \notin {"load_by_id", "record_usage", "record_failure",
                           "load_new_device", "link_device", "unlink_listed", "delete_token"}
<1>1. PICK c \in Calls :
        /\ c.op \in Ops
        /\ call' = [call EXCEPT ![r] = c]
        /\ pc' = [pc EXCEPT ![r] = FirstStep(c)]
        /\ ids' = CASE c.op = "create_token"  -> ids \cup {c.token}
                    [] c.op = "create_device" -> ids \cup {c.device}
                    [] OTHER -> ids
  BY DEF Start
<1>2. call'[r] = c /\ pc'[r] = FirstStep(c) /\ c.op \in AllOps
  BY <1>1, TokenOpsAssumption DEF TypeInv, TypeOK
<1>3. ids \subseteq ids'
  BY <1>1
<1>4. ASSUME Creates(r)' PROVE c.token \in Tokens \ ids /\ c.token \in ids'
  <2>1. c.op = "create_token"
    BY <1>2, <1>4 DEF Creates
  <2>2. c \in CreateTokenCall
    BY <2>1 DEF Calls, SyncCall, CreateTokenCall, UpdateTokenCall, TokenCall,
       CreateDeviceCall, UpdateDeviceCall, DeviceCall
  <2>3. c.token \in Tokens \ ids
    BY <2>2 DEF CreateTokenCall
  <2> QED
    BY <1>1, <2>1, <2>3
<1>5. ASSUME pc'[r] = "lookup" PROVE c.late <=> c.secret \in retired
  <2>1. c.op = "sync"
    BY <1>2, <1>5 DEF FirstStep, AllOps
  <2>2. c \in SyncCall
    BY <2>1 DEF Calls, SyncCall, CreateTokenCall, UpdateTokenCall, TokenCall,
       CreateDeviceCall, UpdateDeviceCall, DeviceCall
  <2>3. PICK s, b : c = [op |-> "sync", secret |-> s, scoped |-> b, late |-> s \in retired]
    BY <2>2 DEF SyncCall
  <2>4. c.secret = s
    BY <2>3
  <2>5. c.late = (s \in retired)
    BY <2>3
  <2> QED
    BY <2>4, <2>5, Zenon
<1>6. FirstStep(c) \notin {"load_by_id", "record_usage", "record_failure",
                           "load_new_device", "link_device", "unlink_listed", "delete_token"}
  BY <1>2 DEF FirstStep, AllOps
<1> QED
  BY <1>2, <1>3, <1>4, <1>5, <1>6
\* What every case of the next lemmas uses.
LEMMA StepBasics ==
  ASSUME SerialInv, NEW r \in Requests, Step(r)
  PROVE  /\ TypeInv /\ TypeOK /\ OthersKept(r) /\ IndexInv' /\ SerialAdmins' /\ overlap' = overlap
         /\ \A q \in Requests \ {r} :
              /\ HoldsRow(q)' = HoldsRow(q) /\ RowToken(q)' = RowToken(q)
              /\ Creates(q)' = Creates(q)
              /\ pc'[q] = pc[q] /\ call'[q] = call[q] /\ loc'[q] = loc[q]
<1>1. TypeInv /\ TypeOK /\ IndexInv
  BY DEF SerialInv, IndexInv, TypeInv
<1>2. OthersKept(r) /\ IndexInv' /\ SerialAdmins' /\ overlap' = overlap
  BY <1>1, StepType, IndexStep, SerialStep, StepServes DEF SerialInv
<1> QED
  BY <1>1, <1>2, OtherHandlers DEF OthersKept

\* The handler whose step writes or deletes a row is the only one with a copy.
LEMMA WriterAlone ==
  ASSUME SerialInv, overlap # "any", NEW r \in Requests,
         (\E row : Wrote(r, row)) \/ CreateToken(r) \/ DeleteToken(r)
  PROVE  \A q \in Requests \ {r} : ~HoldsRow(q) /\ ~Creates(q)
<1>1. TypeInv /\ SerialAdmins
  BY DEF SerialInv, IndexInv
<1>2. pc[r] # "idle" /\ call[r].op # "sync"
  <2>1. CASE \E row : Wrote(r, row)
    BY <1>1, <2>1, HoldersAdmin DEF Wrote
  <2>2. CASE CreateToken(r) \/ DeleteToken(r)
    BY <1>1, <2>2 DEF CreateToken, DeleteToken, TypeInv, HandlerOK
  <2> QED
    BY <2>1, <2>2
<1> QED
  BY <1>1, <1>2, OnlyHolder

\* The three ways to change a token's row other than its counters.
LEMMA RowWrites ==
  ASSUME TypeInv, NEW r \in Requests
  PROVE  /\ \A row : Wrote(r, row) =>
              /\ tokens'[RowToken(r)] = row /\ row # None
              /\ \A u \in Tokens \ {RowToken(r)} : tokens'[u] = tokens[u]
              /\ Retire(RowToken(r), {row.hash})
         /\ CreateToken(r) =>
              /\ call[r].token \in Tokens /\ tokens'[call[r].token] # None
              /\ tokens'[call[r].token].hash = lastSecret + 1
              /\ tokens'[call[r].token].uses = 0 /\ tokens'[call[r].token].fails = 0
              /\ \A u \in Tokens \ {call[r].token} : tokens'[u] = tokens[u]
              /\ Retire(call[r].token, {lastSecret + 1}) /\ MintSecret(call[r].token)
              /\ Creates(r) /\ ~HoldsRow(r)' /\ ~Creates(r)' /\ UNCHANGED <<ids, observed>>
         /\ DeleteToken(r) =>
              /\ call[r].token \in Tokens /\ tokens'[call[r].token] = None
              /\ \A u \in Tokens \ {call[r].token} : tokens'[u] = tokens[u]
              /\ Retire(call[r].token, {}) /\ UNCHANGED <<mint, observed>>
              /\ ~HoldsRow(r)' /\ ~Creates(r)'
<1> USE TokenRowsAssumption DEF TypeInv
<1>1. ASSUME NEW row, Wrote(r, row)
      PROVE  /\ tokens'[RowToken(r)] = row /\ row # None
             /\ \A u \in Tokens \ {RowToken(r)} : tokens'[u] = tokens[u]
             /\ Retire(RowToken(r), {row.hash})
  <2>1. RowToken(r) \in Tokens
    BY <1>1, HoldersAdmin DEF Wrote
  <2> QED
    BY <1>1, <2>1 DEF Wrote, SetToken, TypeOK
<1>2. ASSUME CreateToken(r)
      PROVE  /\ call[r].token \in Tokens /\ tokens'[call[r].token] # None
             /\ tokens'[call[r].token].hash = lastSecret + 1
             /\ tokens'[call[r].token].uses = 0 /\ tokens'[call[r].token].fails = 0
             /\ \A u \in Tokens \ {call[r].token} : tokens'[u] = tokens[u]
             /\ Retire(call[r].token, {lastSecret + 1}) /\ MintSecret(call[r].token)
             /\ Creates(r) /\ ~HoldsRow(r)' /\ ~Creates(r)' /\ UNCHANGED <<ids, observed>>
  <2>1. /\ call[r].op = "create_token" /\ call[r].token \in Tokens
        /\ call[r].device \in Devices \cup {None} /\ call[r].expires \in Nat
    BY <1>2 DEF CreateToken, HandlerOK, CallOK
  <2>2. PICK row : row = [hash |-> lastSecret + 1, enabled |-> TRUE,
                          expires |-> call[r].expires, device |-> call[r].device,
                          uses |-> 0, fails |-> 0]
    OBVIOUS
  <2>3. row \in TokenRow /\ row.hash = lastSecret + 1 /\ row.uses = 0 /\ row.fails = 0
    BY <2>1, <2>2 DEF TokenRow, TypeOK
  <2>4. SetToken(call[r].token, row) /\ MintSecret(call[r].token) /\ UNCHANGED <<ids, observed>>
    BY <1>2, <2>2 DEF CreateToken, MintSecret
  <2>5. Creates(r)
    BY <1>2, <2>1 DEF CreateToken, Creates
  <2>6. ~HoldsRow(r)' /\ ~Creates(r)'
    <3>1. ~Start(r)
      BY <1>2 DEF CreateToken, Start
    <3> QED
      BY <1>2, <3>1, NoCopySteps
  <2>7. tokens'[call[r].token] = row /\ \A u \in Tokens \ {call[r].token} : tokens'[u] = tokens[u]
    BY <2>1, <2>4 DEF SetToken, TypeOK
  <2>8. Retire(call[r].token, {lastSecret + 1})
    BY <2>3, <2>4 DEF SetToken
  <2> QED
    BY <2>1, <2>3, <2>4, <2>5, <2>6, <2>7, <2>8
<1>3. ASSUME DeleteToken(r)
      PROVE  /\ call[r].token \in Tokens /\ tokens'[call[r].token] = None
             /\ \A u \in Tokens \ {call[r].token} : tokens'[u] = tokens[u]
             /\ Retire(call[r].token, {}) /\ UNCHANGED <<mint, observed>>
             /\ ~HoldsRow(r)' /\ ~Creates(r)'
  <2>1. call[r].token \in Tokens
    BY <1>3 DEF DeleteToken, HandlerOK, CallOK
  <2> QED
    BY <1>3, <2>1, DoneType DEF DeleteToken, TypeOK
<1> QED
  BY <1>1, <1>2, <1>3

LEMMA HeldStep ==
  ASSUME SerialInv, NEW r \in Requests, Step(r)
  PROVE  HeldRowsStay'
<1> SUFFICES ASSUME overlap # "any"
             PROVE  /\ \A t \in Tokens : tokens'[t] # None => t \in ids'
                    /\ \A q \in Requests : HoldsRow(q)' => tokens'[RowToken(q)'] # None
                    /\ \A q \in Requests : Creates(q)' =>
                         tokens'[call'[q].token] = None /\ call'[q].token \in ids'
  BY StepBasics DEF HeldRowsStay
<1>1. /\ \A t \in Tokens : tokens[t] # None => t \in ids
      /\ \A q \in Requests : HoldsRow(q) => tokens[RowToken(q)] # None
      /\ \A q \in Requests : Creates(q) => tokens[call[q].token] = None /\ call[q].token \in ids
  BY DEF SerialInv, HeldRowsStay
<1>2. /\ TypeInv /\ \A q \in Requests \ {r} :
           /\ HoldsRow(q)' = HoldsRow(q) /\ RowToken(q)' = RowToken(q)
           /\ Creates(q)' = Creates(q) /\ call'[q] = call[q]
           /\ HoldsRow(q) => RowToken(q) \in Tokens
           /\ Creates(q) => call[q].token \in Tokens
  BY StepBasics, HoldersAdmin DEF TypeInv, HandlerOK, CallOK, Creates
<1>3. CASE Reads(r)
  <2>1. tokens' = tokens /\ ids \subseteq ids'
    BY <1>2, <1>3, StartCreates DEF Reads
  <2>2. HoldsRow(r)' => tokens[RowToken(r)'] # None
    BY <1>1, <1>3 DEF Reads, Kept, Loaded
  <2>3. Creates(r)' => tokens[call'[r].token] = None /\ call'[r].token \in ids'
    BY <1>1, <1>2, <1>3, <2>1, StartCreates DEF Reads
  <2> QED
    BY <1>1, <1>2, <2>1, <2>2, <2>3
<1>4. CASE Counts(r)
  BY <1>1, <1>2, <1>4 DEF Counts, mint
<1>5. CASE RowToken(r) \in Tokens /\ \E row : Wrote(r, row)
  <2>1. PICK row : Wrote(r, row)
    BY <1>5
  <2>2. /\ tokens'[RowToken(r)] = row /\ row # None /\ tokens[RowToken(r)] # None
        /\ \A u \in Tokens \ {RowToken(r)} : tokens'[u] = tokens[u]
        /\ ids' = ids /\ ~HoldsRow(r)' /\ ~Creates(r)'
    BY <1>1, <1>2, <2>1, RowWrites DEF Wrote, mint
  <2> QED
    BY <1>1, <1>2, <1>5, <2>2, WriterAlone
<1>6. CASE CreateToken(r)
  BY <1>1, <1>2, <1>6, RowWrites, WriterAlone
<1>7. CASE DeleteToken(r)
  BY <1>1, <1>2, <1>7, RowWrites, WriterAlone DEF mint
<1> QED
  BY <1>2, <1>3, <1>4, <1>5, <1>6, <1>7, StepKinds

LEMMA InUseStep ==
  ASSUME SerialInv, NEW r \in Requests, Step(r)
  PROVE  InUse' /\ retired \subseteq retired'
<1>1. /\ TypeInv /\ TypeOK /\ MintedOnce /\ RowsOwn /\ lastSecret \in Nat
      /\ retired \subseteq 1..lastSecret
  BY StepBasics DEF SerialInv, IndexInv, InUse, TypeOK
<1>2. \A t \in Tokens : tokens[t] # None => tokens[t].hash \in 1..lastSecret
  BY <1>1 DEF MintedOnce, RowsOwn
<1>3. /\ lastSecret' \in Nat /\ lastSecret <= lastSecret'
      /\ retired \subseteq retired' /\ retired' \subseteq 1..lastSecret'
  <2>1. lastSecret' = lastSecret \/ lastSecret' = lastSecret + 1
    <3>1. CASE Reads(r)
      BY <3>1 DEF Reads, Kept, Loaded, MintSecret, mint
    <3>2. CASE Counts(r) \/ (\E row : Wrote(r, row))
      BY <3>2 DEF Counts, Wrote, mint
    <3>3. CASE CreateToken(r) \/ DeleteToken(r)
      BY <3>3 DEF CreateToken, DeleteToken, MintSecret, mint
    <3> QED
      BY <1>1, <3>1, <3>2, <3>3, StepKinds
  <2>2. \/ retired' = retired
        \/ \E t \in Tokens : \E S : tokens[t] # None /\ retired' = retired \cup ({tokens[t].hash} \ S)
    <3>1. CASE Reads(r) \/ Counts(r)
      BY <3>1 DEF Reads, Counts
    <3>2. ASSUME NEW t \in Tokens, NEW S, Retire(t, S)
          PROVE  retired' = retired \/ (tokens[t] # None /\ retired' = retired \cup ({tokens[t].hash} \ S))
      BY <3>2 DEF Retire
    <3>3. CASE RowToken(r) \in Tokens /\ \E row : Wrote(r, row)
      <4>1. PICK row : Wrote(r, row)
        BY <3>3
      <4>2. Retire(RowToken(r), {row.hash})
        BY <1>1, <4>1, RowWrites
      <4> QED
        BY <3>2, <3>3, <4>2
    <3>4. CASE CreateToken(r)
      <4>1. call[r].token \in Tokens /\ Retire(call[r].token, {lastSecret + 1})
        BY <1>1, <3>4, RowWrites
      <4> QED
        BY <3>2, <4>1
    <3>5. CASE DeleteToken(r)
      <4>1. call[r].token \in Tokens /\ Retire(call[r].token, {})
        BY <1>1, <3>5, RowWrites
      <4> QED
        BY <3>2, <4>1
    <3> QED
      BY <1>1, <3>1, <3>3, <3>4, <3>5, StepKinds
  <2>3. lastSecret' \in Nat /\ lastSecret <= lastSecret'
    BY <1>1, <2>1
  <2>4. 1..lastSecret \subseteq 1..lastSecret'
    BY <1>1, <2>3
  <2>5. retired \subseteq retired' /\ retired' \subseteq 1..lastSecret
    BY <1>1, <1>2, <2>2
  <2> QED
    BY <2>3, <2>4, <2>5
<1>4. ASSUME overlap # "any"
      PROVE  /\ \A t \in Tokens : tokens'[t] # None => tokens'[t].hash \notin retired'
             /\ \A q \in Requests : HoldsRow(q)' => loc'[q].row.hash \notin retired'
  <2>1. /\ \A t \in Tokens : tokens[t] # None => tokens[t].hash \notin retired
        /\ \A q \in Requests : HoldsRow(q) => loc[q].row.hash \notin retired
    BY <1>4 DEF SerialInv, InUse
  <2>2. \A q \in Requests \ {r} : HoldsRow(q)' = HoldsRow(q) /\ loc'[q] = loc[q]
    BY StepBasics
  <2>3. CASE Reads(r)
    <3>1. lastSecret + 1 \notin retired
      BY <1>1
    <3>2. HoldsRow(r)' => loc'[r].row.hash \notin retired
      BY <2>1, <2>3, <3>1 DEF Reads, Kept, Loaded
    <3> QED
      BY <2>1, <2>2, <2>3, <3>2 DEF Reads
  <2>4. CASE Counts(r)
    BY <2>1, <2>2, <2>4 DEF Counts
  <2>5. CASE RowToken(r) \in Tokens /\ \E row : Wrote(r, row)
    <3>1. PICK row : Wrote(r, row)
      BY <2>5
    <3>2. /\ tokens'[RowToken(r)] = row /\ Retire(RowToken(r), {row.hash})
          /\ \A u \in Tokens \ {RowToken(r)} : tokens'[u] = tokens[u]
      BY <1>1, <3>1, RowWrites
    <3>3. row.hash \notin retired /\ ~HoldsRow(r)'
      BY <2>1, <3>1 DEF Wrote
    <3>4. row.hash \notin retired'
      BY <3>2, <3>3 DEF Retire
    <3>5. \A u \in Tokens \ {RowToken(r)} : tokens[u] # None => tokens[u].hash \notin retired'
      BY <1>1, <2>1, <2>5, <3>2, HashesDiffer DEF Retire
    <3> QED
      BY <1>4, <2>2, <2>5, <3>2, <3>3, <3>4, <3>5, WriterAlone
  <2>6. CASE CreateToken(r)
    <3>1. /\ Creates(r) /\ call[r].token \in Tokens /\ Retire(call[r].token, {lastSecret + 1})
          /\ tokens'[call[r].token].hash = lastSecret + 1 /\ ~HoldsRow(r)'
          /\ \A u \in Tokens \ {call[r].token} : tokens'[u] = tokens[u]
      BY <1>1, <2>6, RowWrites
    <3>2. retired' = retired
      BY <1>4, <3>1 DEF SerialInv, HeldRowsStay, Retire
    <3>3. lastSecret + 1 \notin retired
      BY <1>1
    <3> QED
      BY <1>4, <2>1, <2>2, <2>6, <3>1, <3>2, <3>3, WriterAlone
  <2>7. CASE DeleteToken(r)
    <3>1. /\ call[r].token \in Tokens /\ tokens'[call[r].token] = None
          /\ Retire(call[r].token, {}) /\ ~HoldsRow(r)'
          /\ \A u \in Tokens \ {call[r].token} : tokens'[u] = tokens[u]
      BY <1>1, <2>7, RowWrites
    <3>2. \A u \in Tokens \ {call[r].token} : tokens[u] # None => tokens[u].hash \notin retired'
      BY <1>1, <2>1, <3>1, HashesDiffer DEF Retire
    <3> QED
      BY <1>4, <2>2, <2>7, <3>1, <3>2, WriterAlone
  <2> QED
    BY <1>1, <2>3, <2>4, <2>5, <2>6, <2>7, StepKinds
<1> QED
  BY <1>3, <1>4, StepBasics DEF InUse
\* Which steps lead to the labels of a sync request.
LEMMA SyncLabels ==
  ASSUME TypeInv, NEW r \in Requests, Step(r)
  PROVE  /\ pc'[r] = "lookup" => Start(r)
         /\ pc'[r] \in {"load_by_id", "record_usage", "record_failure"} =>
              /\ LookupSecret(r) \/ LoadBySecret(r)
              /\ pc'[r] # "load_by_id" => LoadBySecret(r) /\ loc'[r] = loc[r]
<1> USE DEF TypeInv, TypeOK
<1>1. CASE Start(r)
  BY <1>1, StartCreates
<1>2. CASE Done(r)
  BY <1>2, DoneLocal
<1>3. CASE LookupSecret(r) /\ ~Done(r)
  BY <1>3 DEF LookupSecret, Goto
<1>4. CASE LoadBySecret(r) /\ ~Done(r)
  BY <1>4 DEF LoadBySecret, Proceed, Goto
<1>5. CASE \/ LoadToken(r) \/ CheckDevice(r) \/ CreateToken(r) \/ LoadOldDevice(r)
           \/ UnlinkDevice(r) \/ LoadNewDevice(r) \/ LinkDevice(r)
  <2>1. Done(r) \/ pc'[r] \in {"set_token", "load_old_device", "load_new_device", "check_device",
                               "create_token", "unlink_device", "link_device"}
    BY <1>5 DEF LoadToken, CheckDevice, CreateToken, LoadOldDevice, UnlinkDevice,
       LoadNewDevice, LinkDevice, AfterLink, AfterUnlink, RelinkStep, Proceed, Goto
  <2> QED
    BY <1>2, <2>1
<1>6. CASE \/ ListDevices(r) \/ UnlinkListed(r) \/ CheckToken(r) \/ LoadDevice(r)
           \/ WriteDevice(r) \/ LoadOldToken(r) \/ UnlinkToken(r) \/ LoadNewToken(r)
  <2>1. Done(r) \/ pc'[r] \in {"delete_token", "unlink_listed", "set_device", "check_token",
                               "delete_device", "load_old_token", "load_new_token",
                               "unlink_token", "link_token"}
    BY <1>6 DEF ListDevices, UnlinkListed, CheckToken, LoadDevice, WriteDevice,
       LoadOldToken, UnlinkToken, LoadNewToken, AfterListed, AfterOld, Proceed, Goto
  <2> QED
    BY <1>2, <2>1
<1> QED
  BY <1>1, <1>2, <1>3, <1>4, <1>5, <1>6
  DEF Step, RecordUsage, RecordFailure, WriteToken, DeleteToken, LinkToken, DeleteDevice,
      StorageError
LEMMA LateStep ==
  ASSUME SerialInv, NEW r \in Requests, Step(r)
  PROVE  LateRefused'
<1>1. /\ TypeInv /\ TypeOK /\ HashIndexExact /\ InUse /\ LateRefused
      /\ retired \subseteq retired' /\ overlap' = overlap
      /\ \A q \in Requests \ {r} : pc'[q] = pc[q] /\ call'[q] = call[q]
  BY StepBasics, InUseStep DEF SerialInv, IndexInv
<1>2. pc'[r] = "lookup" /\ call'[r].late => call'[r].secret \in retired
  <2>1. CASE Start(r)
    BY <1>1, <2>1, StartCreates
  <2>2. CASE ~Start(r)
    BY <1>1, <2>2, SyncLabels
  <2> QED
    BY <2>1, <2>2
<1>3. ASSUME overlap # "any", pc'[r] \in {"load_by_id", "record_usage"}
      PROVE  ~call'[r].late
  <2>1. LookupSecret(r) \/ LoadBySecret(r)
    BY <1>1, <1>3, SyncLabels
  <2>2. pc[r] # "idle" /\ call'[r] = call[r]
    <3>1. ~Start(r)
      BY <2>1 DEF LookupSecret, LoadBySecret, Start
    <3> QED
      BY <1>1, <1>3, <3>1, StepServes
  <2>3. CASE LookupSecret(r)
    <3>1. pc'[r] # "idle"
      BY <1>3
    <3>2. ~Done(r)
      BY <1>1, <3>1, DoneLocal
    <3>3. PICK t \in Tokens : <<call[r].secret, t>> \in hashes
      BY <2>3, <3>2 DEF LookupSecret
    <3>4. tokens[t] # None /\ tokens[t].hash = call[r].secret
      BY <1>1, <3>3 DEF HashIndexExact
    <3>5. call[r].secret \notin retired
      BY <1>1, <1>3, <3>4 DEF InUse
    <3>6. ~call[r].late
      BY <1>1, <2>3, <3>5 DEF LateRefused, LookupSecret
    <3> QED
      BY <2>2, <3>6
  <2>4. CASE LoadBySecret(r)
    BY <1>1, <1>3, <2>2, <2>4 DEF LoadBySecret, LateRefused
  <2> QED
    BY <2>1, <2>3, <2>4
<1> QED
  BY <1>1, <1>2, <1>3 DEF LateRefused

LEMMA EnabledStep ==
  ASSUME SerialInv, NEW r \in Requests, Step(r)
  PROVE  EnabledAsked'
<1> SUFFICES ASSUME overlap # "any", NEW q \in Requests, HoldsRow(q)', loc'[q].row.enabled,
                    ~tokens'[RowToken(q)'].enabled
             PROVE  call'[q].op = "update_token" /\ call'[q].enabled = TRUE
  BY StepBasics DEF EnabledAsked
<1>1. /\ TypeInv /\ TypeOK /\ IndexInv'
      /\ \A p \in Requests \ {r} :
           /\ HoldsRow(p)' = HoldsRow(p) /\ RowToken(p)' = RowToken(p)
           /\ call'[p] = call[p] /\ loc'[p] = loc[p]
  BY StepBasics
<1>2. \A p \in Requests : HoldsRow(p) /\ loc[p].row.enabled /\ ~tokens[RowToken(p)].enabled
        => call[p].op = "update_token" /\ call[p].enabled = TRUE
  BY DEF SerialInv, EnabledAsked
<1>3. CASE q = r
  <2>1. Reads(r)
    BY <1>1, <1>3, StepKinds, RowWrites DEF Counts, Wrote
  <2>2. CASE Kept(r)
    BY <1>2, <1>3, <2>1, <2>2 DEF Kept, Reads
  <2>3. CASE Loaded(r)
    <3>1. tokens' = tokens
      BY <2>1 DEF Reads
    <3>2. call'[r].op = "update_token" /\ call'[r].enabled = loc'[r].row.enabled
      BY <1>3, <2>3, <3>1 DEF Loaded
    <3>3. loc'[r].row \in TokenRow
      BY <1>1, <1>3 DEF IndexInv, TypeInv, HandlerOK
    <3>4. loc'[r].row.enabled \in BOOLEAN
      BY <3>3 DEF TokenRow
    <3>5. loc'[r].row.enabled = TRUE
      BY <1>3, <3>4
    <3> QED
      BY <1>3, <3>2, <3>5
  <2> QED
    BY <1>3, <2>1, <2>2, <2>3 DEF Reads
<1>4. CASE q # r
  <2>1. HoldsRow(q) /\ RowToken(q) \in Tokens /\ tokens[RowToken(q)] # None
    BY <1>1, <1>4, HoldersAdmin DEF SerialInv, HeldRowsStay
  <2>2. CASE Reads(r)
    BY <1>1, <1>2, <1>4, <2>1, <2>2 DEF Reads
  <2>3. CASE Counts(r)
    BY <1>1, <1>2, <1>4, <2>1, <2>3 DEF Counts
  <2> QED
    BY <1>1, <1>4, <2>1, <2>2, <2>3, StepKinds, WriterAlone
<1> QED
  BY <1>3, <1>4

LEMMA SerialInit == Init => SerialInv
<1> SUFFICES ASSUME Init PROVE SerialInv
  OBVIOUS
<1>1. IndexInv /\ \A r \in Requests : pc[r] = "idle" /\ ~HoldsRow(r) /\ ~Creates(r)
  BY IndexInit DEF Init, HoldsRow, Creates
<1>2. /\ \A t \in Tokens : tokens[t] = None
      /\ retired = {}
  BY DEF Init
<1> QED
  BY <1>1, <1>2 DEF SerialInv, SerialAdmins, HeldRowsStay, InUse, LateRefused, EnabledAsked

LEMMA SerialNext == ASSUME SerialInv, [Next]_vars PROVE SerialInv'
<1>1. CASE \E r \in Requests : Step(r)
  BY <1>1, StepBasics, HeldStep, InUseStep, LateStep, EnabledStep DEF SerialInv
<1>2. IndexInv'
  BY IndexNext DEF SerialInv
<1>3. CASE Crash
  <2>1. \A r \in Requests : pc'[r] = "idle" /\ ~HoldsRow(r)' /\ ~Creates(r)'
    BY <1>3, CrashFrames
  <2>2. UNCHANGED <<tables, mint, load, history>>
    BY <1>3 DEF Crash
  <2> QED
    BY <1>2, <2>1, <2>2 DEF tables, mint, load, history, SerialInv, SerialAdmins,
       HeldRowsStay, InUse, LateRefused, EnabledAsked
<1>4. CASE Tick \/ UNCHANGED vars
  <2>1. UNCHANGED <<tables, mint, load, pc, call, loc, history>>
    BY <1>4 DEF Tick, vars
  <2>2. \A r \in Requests : /\ HoldsRow(r)' = HoldsRow(r) /\ RowToken(r)' = RowToken(r)
                            /\ Creates(r)' = Creates(r)
    BY <2>1 DEF HoldsRow, RowToken, Creates, NewLink
  <2> QED
    BY <1>2, <2>1, <2>2 DEF tables, mint, load, history, SerialInv, SerialAdmins,
       HeldRowsStay, InUse, LateRefused, EnabledAsked
<1> QED
  BY <1>1, <1>3, <1>4 DEF Next, Quiet

LEMMA SerialAlways == Spec => []SerialInv
  BY SerialInit, SerialNext, PTL DEF Spec

\* SerialAdminsRetire always holds: while no two admin requests overlap, a
\* secret that was rotated away or deleted before a sync request came does not
\* admit it, whatever else is in flight.
THEOREM RetiredSecretsRefused == Spec => []SerialAdminsRetire
<1>1. SerialInv => SerialAdminsRetire
  BY DEF SerialInv, LateRefused, SerialAdminsRetire, RetiredStaysRetired
<1> QED
  BY <1>1, SerialAlways, PTL

\* OnlyEnableEnables holds of every step: while no two admin requests overlap,
\* only admin_update_token with `enabled: true' enables a disabled token.
THEOREM DisabledStaysDisabled == Spec => OnlyEnableEnables
<1>1. ASSUME SerialInv, [Next]_vars
      PROVE  [overlap # "any" => \A t \in Tokens :
                tokens[t] # None /\ ~tokens[t].enabled
                  /\ tokens'[t] # None /\ tokens'[t].enabled
                  => \E r \in Requests : pc[r] = "set_token" /\ call[r].token = t
                       /\ call[r].op = "update_token" /\ call[r].enabled = TRUE]_vars
  <2> SUFFICES ASSUME overlap # "any", NEW t \in Tokens, tokens[t] # None, ~tokens[t].enabled,
                      tokens'[t] # None, tokens'[t].enabled
               PROVE  \E r \in Requests : pc[r] = "set_token" /\ call[r].token = t
                        /\ call[r].op = "update_token" /\ call[r].enabled = TRUE
    OBVIOUS
  <2>1. tokens' # tokens
    OBVIOUS
  <2>2. PICK r \in Requests : Step(r)
    BY <1>1, <2>1 DEF Next, Tick, Crash, Quiet, vars, tables
  <2>3. TypeInv
    BY <1>1 DEF SerialInv, IndexInv
  <2>4. ~Reads(r) /\ ~Counts(r)
    BY <2>1 DEF Reads, Counts
  <2>5. ~CreateToken(r)
    <3> SUFFICES ASSUME CreateToken(r) PROVE FALSE
      OBVIOUS
    <3>1. Creates(r) /\ \A u \in Tokens \ {call[r].token} : tokens'[u] = tokens[u]
      BY <2>3, RowWrites
    <3>2. tokens[call[r].token] = None
      BY <1>1, <3>1 DEF SerialInv, HeldRowsStay
    <3>3. t # call[r].token
      BY <3>2
    <3> QED
      BY <3>1, <3>3
  <2>6. ~DeleteToken(r)
    BY <2>3, RowWrites
  <2>7. PICK row : Wrote(r, row)
    BY <2>2, <2>3, <2>4, <2>5, <2>6, StepKinds
  <2>8. t = RowToken(r) /\ row.enabled /\ loc[r].row.enabled /\ HoldsRow(r)
    <3>1. /\ tokens'[RowToken(r)] = row
          /\ \A u \in Tokens \ {RowToken(r)} : tokens'[u] = tokens[u]
      BY <2>3, <2>7, RowWrites
    <3>2. t = RowToken(r)
      BY <3>1
    <3>3. row.enabled
      BY <3>1, <3>2
    <3>4. row.enabled = loc[r].row.enabled /\ HoldsRow(r)
      BY <2>7 DEF Wrote
    <3> QED
      BY <3>2, <3>3, <3>4
  <2>9. call[r].op = "update_token" /\ call[r].enabled = TRUE
    BY <1>1, <2>8 DEF SerialInv, EnabledAsked
  <2>10. pc[r] = "set_token"
    BY <2>3, <2>7, <2>9 DEF Wrote, TypeInv, HandlerOK
  <2>11. call[r].token = t
    BY <2>8, <2>10 DEF RowToken
  <2> QED
    BY <2>9, <2>10, <2>11
<1> QED
  BY <1>1, SerialAlways, PTL DEF Spec, OnlyEnableEnables
-----------------------------------------------------------------------------
(* While the admin works alone *)

\* Beside a request of another kind, every other handler is idle; beside a
\* sync request none holds or creates a token row.
LEMMA AloneOthers ==
  ASSUME TypeInv, LoneAdmin, overlap = "admin_alone", NEW r \in Requests, pc[r] # "idle"
  PROVE  \A q \in Requests \ {r} :
           /\ ~HoldsRow(q) /\ ~Creates(q)
           /\ pc[q] # "idle" => call[q].op = "sync" /\ call[r].op = "sync"
  BY HoldersAdmin DEF LoneAdmin

\* Both counters of a recorded request, in the row and in the history.
LEMMA CountedTwice ==
  ASSUME TypeInv, NEW r \in Requests, RecordUsage(r) \/ RecordFailure(r),
         NEW t \in Tokens, tokens[t] # None,
         tokens[t].uses = observed[t].uses, tokens[t].fails = observed[t].fails
  PROVE  tokens'[t].uses = observed'[t].uses /\ tokens'[t].fails = observed'[t].fails
<1> USE DEF TypeInv, TypeOK
<1>1. loc[r].token \in Tokens
  BY DEF RecordUsage, RecordFailure, HandlerOK
<1>2. tokens[t] \in TokenRow /\ observed[t] \in [uses : Nat, fails : Nat]
  OBVIOUS
<1>3. CASE t # loc[r].token
  BY <1>1, <1>3 DEF RecordUsage, RecordFailure
<1>4. CASE t = loc[r].token /\ RecordUsage(r)
  <2>1. tokens'[t] = CountUse(tokens[t])
    BY <1>4 DEF RecordUsage
  <2>2. tokens'[t].uses = tokens[t].uses + 1 /\ tokens'[t].fails = tokens[t].fails
    BY <1>2, <2>1 DEF CountUse, TokenRow
  <2>3. observed'[t].uses = observed[t].uses + 1 /\ observed'[t].fails = observed[t].fails
    BY <1>2, <1>4 DEF RecordUsage
  <2> QED
    BY <2>2, <2>3
<1>5. CASE t = loc[r].token /\ RecordFailure(r)
  <2>1. tokens'[t] = [tokens[t] EXCEPT !.fails = @ + 1]
    BY <1>5 DEF RecordFailure
  <2>2. tokens'[t].uses = tokens[t].uses /\ tokens'[t].fails = tokens[t].fails + 1
    BY <1>2, <2>1 DEF TokenRow
  <2>3. observed'[t].uses = observed[t].uses /\ observed'[t].fails = observed[t].fails + 1
    BY <1>2, <1>5 DEF RecordFailure
  <2> QED
    BY <2>2, <2>3
<1> QED
  BY <1>3, <1>4, <1>5

\* The token a sync request was led to has been handed out.
LEMMA FoundHandedOut ==
  ASSUME UsageInv, overlap = "admin_alone", NEW r \in Requests, Step(r),
         pc'[r] \in {"load_by_id", "record_usage", "record_failure"}
  PROVE  loc'[r].token \in ids
<1>1. TypeInv /\ TypeOK /\ HashIndexExact
  BY StepBasics DEF UsageInv, SerialInv, IndexInv
<1>2. CASE LookupSecret(r)
  <2>1. ~Done(r)
    BY <1>1, DoneLocal
  <2>2. PICK t \in Tokens : <<call[r].secret, t>> \in hashes /\ KeepToken(r, t)
    BY <1>2, <2>1 DEF LookupSecret
  <2>3. loc'[r].token = t
    BY <1>1, <2>2 DEF KeepToken, TypeOK, Locals
  <2>4. tokens[t] # None
    BY <1>1, <2>2 DEF HashIndexExact
  <2> QED
    BY <2>3, <2>4 DEF UsageInv, SerialInv, HeldRowsStay
<1>3. CASE LoadBySecret(r)
  <2>1. pc'[r] # "load_by_id"
    BY <1>1, <1>3, DoneLocal DEF LoadBySecret, Proceed, Goto, TypeOK
  <2>2. loc'[r] = loc[r] /\ pc[r] = "load_by_id"
    BY <1>1, <1>3, <2>1, SyncLabels DEF LoadBySecret
  <2> QED
    BY <2>2 DEF UsageInv, CountsAgree
<1> QED
  BY <1>1, <1>2, <1>3, SyncLabels

LEMMA IdsGrow ==
  ASSUME TypeInv, NEW r \in Requests, Step(r)
  PROVE  ids \subseteq ids'
<1>1. CASE Reads(r)
  BY <1>1, StartCreates DEF Reads
<1>2. CASE ~Reads(r)
  BY <1>2, StepKinds, RowWrites DEF Counts, Wrote, mint
<1> QED
  BY <1>1, <1>2

LEMMA UsageStep ==
  ASSUME UsageInv, NEW r \in Requests, Step(r)
  PROVE  CountsAgree' /\ UsageRecorded'
<1> SUFFICES ASSUME overlap = "admin_alone"
             PROVE  /\ \A t \in Tokens \ ids' : NotObserved(t)'
                    /\ \A q \in Requests : Creates(q)' => NotObserved(call[q].token)'
                    /\ \A q \in Requests :
                         pc'[q] \in {"load_by_id", "record_usage", "record_failure"}
                           => loc'[q].token \in ids'
                    /\ \A q \in Requests : HoldsRow(q)' =>
                         /\ loc'[q].row.uses = observed'[RowToken(q)'].uses
                         /\ loc'[q].row.fails = observed'[RowToken(q)'].fails
                    /\ \A t \in Tokens : tokens'[t] # None =>
                         /\ tokens'[t].uses = observed'[t].uses
                         /\ tokens'[t].fails = observed'[t].fails
  BY StepBasics DEF CountsAgree, UsageRecorded, UsageInv
<1>1. /\ TypeInv /\ SerialInv /\ LoneAdmin /\ overlap # "any"
      /\ \A q \in Requests \ {r} :
           /\ HoldsRow(q)' = HoldsRow(q) /\ RowToken(q)' = RowToken(q)
           /\ Creates(q)' = Creates(q)
           /\ pc'[q] = pc[q] /\ call'[q] = call[q] /\ loc'[q] = loc[q]
  BY StepBasics DEF UsageInv
<1>2. /\ \A t \in Tokens \ ids : NotObserved(t)
      /\ \A q \in Requests : Creates(q) => NotObserved(call[q].token)
      /\ \A q \in Requests : pc[q] \in {"load_by_id", "record_usage", "record_failure"}
           => loc[q].token \in ids
      /\ \A q \in Requests : HoldsRow(q) =>
           /\ loc[q].row.uses = observed[RowToken(q)].uses
           /\ loc[q].row.fails = observed[RowToken(q)].fails
      /\ \A t \in Tokens : tokens[t] # None =>
           tokens[t].uses = observed[t].uses /\ tokens[t].fails = observed[t].fails
  BY DEF UsageInv, CountsAgree, UsageRecorded
<1>3. ids \subseteq ids' /\ \A q \in Requests :
        pc'[q] \in {"load_by_id", "record_usage", "record_failure"} => loc'[q].token \in ids'
  BY <1>1, <1>2, IdsGrow, FoundHandedOut
<1>4. CASE Reads(r)
  <2>1. tokens' = tokens /\ observed' = observed
    BY <1>4 DEF Reads
  <2>2. Creates(r)' => NotObserved(call'[r].token)
    BY <1>1, <1>2, <1>4, StartCreates DEF Reads
  <2>3. HoldsRow(r)' => /\ loc'[r].row.uses = observed[RowToken(r)'].uses
                        /\ loc'[r].row.fails = observed[RowToken(r)'].fails
    <3>1. CASE Kept(r)
      BY <1>2, <3>1 DEF Kept
    <3>2. CASE Loaded(r)
      BY <1>2, <3>2 DEF Loaded
    <3> QED
      BY <1>4, <3>1, <3>2 DEF Reads
  <2> QED
    BY <1>1, <1>2, <1>3, <2>1, <2>2, <2>3 DEF NotObserved
<1>5. CASE RecordUsage(r) \/ RecordFailure(r)
  <2>1. pc[r] \in {"record_usage", "record_failure"}
    BY <1>5 DEF RecordUsage, RecordFailure
  <2>2. Counts(r) /\ loc[r].token \in ids
    BY <1>1, <1>2, <1>5, <2>1, CountSteps
  <2>3. \A q \in Requests : ~HoldsRow(q)' /\ ~Creates(q)'
    BY <1>1, <2>1, <2>2, AloneOthers DEF Counts
  <2>4. ids' = ids
    BY <2>2 DEF Counts, mint
  <2>5. \A t \in Tokens \ ids : observed'[t] = observed[t]
    BY <1>1, <1>5, <2>2 DEF RecordUsage, RecordFailure, TypeInv, TypeOK
  <2>6. \A t \in Tokens : tokens'[t] # None =>
          tokens'[t].uses = observed'[t].uses /\ tokens'[t].fails = observed'[t].fails
    BY <1>1, <1>2, <1>5, <2>2, CountedTwice DEF Counts
  <2> QED
    BY <1>2, <1>3, <2>3, <2>4, <2>5, <2>6 DEF NotObserved
<1>6. CASE RowToken(r) \in Tokens /\ \E row : Wrote(r, row)
  <2>1. PICK row : Wrote(r, row)
    BY <1>6
  <2>2. /\ tokens'[RowToken(r)] = row
        /\ \A u \in Tokens \ {RowToken(r)} : tokens'[u] = tokens[u]
        /\ observed' = observed /\ ~HoldsRow(r)' /\ ~Creates(r)'
        /\ row.uses = observed[RowToken(r)].uses /\ row.fails = observed[RowToken(r)].fails
    BY <1>1, <1>2, <2>1, RowWrites DEF Wrote
  <2>3. \A q \in Requests : ~HoldsRow(q)' /\ ~Creates(q)'
    BY <1>1, <1>6, <2>2, WriterAlone
  <2> QED
    BY <1>2, <1>3, <2>2, <2>3 DEF NotObserved
<1>7. CASE CreateToken(r)
  <2>1. \A q \in Requests : ~HoldsRow(q)' /\ ~Creates(q)'
    BY <1>1, <1>7, WriterAlone, RowWrites
  <2>2. /\ tokens'[call[r].token].uses = 0 /\ tokens'[call[r].token].fails = 0
        /\ \A u \in Tokens \ {call[r].token} : tokens'[u] = tokens[u]
        /\ observed' = observed /\ NotObserved(call[r].token)
    BY <1>1, <1>2, <1>7, RowWrites
  <2> QED
    BY <1>2, <1>3, <2>1, <2>2 DEF NotObserved
<1>8. CASE DeleteToken(r)
  <2>1. \A q \in Requests : ~HoldsRow(q)' /\ ~Creates(q)'
    BY <1>1, <1>8, WriterAlone, RowWrites
  <2>2. /\ tokens'[call[r].token] = None /\ observed' = observed
        /\ \A u \in Tokens \ {call[r].token} : tokens'[u] = tokens[u]
    BY <1>1, <1>8, RowWrites
  <2> QED
    BY <1>2, <1>3, <2>1, <2>2 DEF NotObserved
<1>9. Reads(r) \/ RecordUsage(r) \/ RecordFailure(r) \/ CreateToken(r) \/ DeleteToken(r)
      \/ (RowToken(r) \in Tokens /\ \E row : Wrote(r, row))
  BY <1>1, StepKinds
<1> QED
  BY <1>4, <1>5, <1>6, <1>7, <1>8, <1>9
\* What a handler at one of these labels relies on.
LinkOK(r) ==
  /\ pc[r] \in {"load_new_device", "link_device"} => tokens[call[r].token] # None
  /\ pc[r] \in {"check_token", "set_device"} /\ loc[r].old # None
       => tokens[loc[r].old] # None
  /\ pc[r] = "set_device" /\ call[r].token \in Tokens => tokens[call[r].token] # None
  /\ pc[r] = "unlink_listed" => LinkedTo(call[r].token) \subseteq loc[r].listed
  /\ pc[r] = "delete_token" => LinkedTo(call[r].token) = {}

\* Which steps lead to the labels at which links are made and removed.
LEMMA LinkLabels ==
  ASSUME TypeInv, NEW r \in Requests, Step(r)
  PROVE  /\ pc'[r] \in {"load_new_device", "link_device"}
              => HoldsRow(r)' \/ CreateToken(r) \/ LoadNewDevice(r)
         /\ pc'[r] \in {"check_token", "set_device"}
              => Start(r) \/ LoadDevice(r) \/ CheckToken(r)
         /\ pc'[r] \in {"unlink_listed", "delete_token"}
              => ListDevices(r) \/ UnlinkListed(r)
<1> USE DEF TypeInv, TypeOK
<1>1. CASE Start(r)
  BY <1>1, StartCreates
<1>2. CASE Done(r)
  BY <1>2, DoneLocal
<1>3. CASE LookupSecret(r) /\ ~Done(r)
  BY <1>3 DEF LookupSecret, Goto
<1>4. CASE LoadBySecret(r) /\ ~Done(r)
  BY <1>4 DEF LoadBySecret, Proceed, Goto
<1>5. CASE LoadToken(r) \/ LoadOldDevice(r) \/ UnlinkDevice(r) \/ LinkDevice(r) \/ CheckDevice(r)
  <2>1. CASE ~Done(r) /\ LoadToken(r)
    <3>1. call[r].op = "update_token" \/ pc'[r] = "set_token"
      BY <2>1 DEF LoadToken, Goto
    <3>2. call'[r] = call[r]
      BY <2>1 DEF LoadToken, Goto
    <3>3. pc'[r] \in {"set_token", "load_old_device", "load_new_device", "check_device"}
      BY <2>1 DEF LoadToken, Goto, RelinkStep
    <3> QED
      BY <3>1, <3>2, <3>3 DEF HoldsRow
  <2>2. CASE ~Done(r) /\ ~LoadToken(r)
    <3>1. Proceed(r, "create_token") \/ call[r].op = "update_token"
      BY <1>5, <2>2 DEF LoadOldDevice, UnlinkDevice, LinkDevice, CheckDevice, AfterLink, HandlerOK
    <3>2. call'[r] = call[r] /\ pc'[r] \in {"create_token", "set_token", "load_old_device",
                                            "load_new_device", "unlink_device"}
      BY <1>5, <2>2 DEF CheckDevice, LoadOldDevice, UnlinkDevice, LinkDevice, AfterLink,
         AfterUnlink, RelinkStep, Proceed, Goto
    <3>3. Proceed(r, "create_token") => pc'[r] = "create_token"
      BY DEF Proceed, Goto
    <3> QED
      BY <3>1, <3>2, <3>3 DEF HoldsRow
  <2> QED
    BY <1>2, <2>1, <2>2
<1>6. CASE CreateToken(r) \/ LoadNewDevice(r)
  <2>1. Done(r) \/ pc'[r] \in {"load_new_device", "link_device", "set_token"}
    BY <1>6 DEF CreateToken, LoadNewDevice, AfterLink, Proceed, Goto
  <2> QED
    BY <1>2, <1>6, <2>1
<1>7. CASE ListDevices(r) \/ UnlinkListed(r)
  <2>1. pc'[r] \in {"delete_token", "unlink_listed"}
    BY <1>7 DEF ListDevices, UnlinkListed, AfterListed, Goto
  <2> QED
    BY <1>7, <2>1
<1>8. CASE CheckToken(r) \/ LoadDevice(r)
  <2>1. Done(r) \/ pc'[r] \in {"set_device", "check_token", "delete_device", "load_old_token"}
    BY <1>8 DEF CheckToken, LoadDevice, Proceed, Goto
  <2> QED
    BY <1>2, <1>8, <2>1
<1>9. CASE WriteDevice(r) \/ LoadOldToken(r) \/ UnlinkToken(r) \/ LoadNewToken(r)
  <2>1. Done(r) \/ pc'[r] \in {"delete_device", "load_old_token", "load_new_token",
                               "unlink_token", "link_token"}
    BY <1>9 DEF WriteDevice, LoadOldToken, UnlinkToken, LoadNewToken, AfterOld, Proceed, Goto
  <2> QED
    BY <1>2, <2>1
<1> QED
  BY <1>1, <1>2, <1>3, <1>4, <1>5, <1>6, <1>7, <1>8, <1>9
  DEF Step, RecordUsage, RecordFailure, WriteToken, DeleteToken, LinkToken, DeleteDevice,
      StorageError

\* A request that starts at set_device asks for no link.
LEMMA StartLabels ==
  ASSUME TypeInv, NEW r \in Requests, Start(r)
  PROVE  pc'[r] = "set_device" => call'[r].token = None
<1>1. PICK c \in Calls : /\ c.op \in Ops /\ call' = [call EXCEPT ![r] = c]
                         /\ pc' = [pc EXCEPT ![r] = FirstStep(c)]
  BY DEF Start
<1>2. call'[r] = c /\ pc'[r] = FirstStep(c) /\ c.op \in AllOps
  BY <1>1, TokenOpsAssumption DEF TypeInv, TypeOK
<1>3. FirstStep(c) = "set_device" => c.token = None
  BY <1>2 DEF FirstStep, AllOps
<1> QED
  BY <1>2, <1>3

\* What a step that leaves the token table alone does to the devices.
LEMMA DeviceSteps ==
  ASSUME TypeInv, NEW r \in Requests, Step(r), UNCHANGED <<tokens, observed>>, LinkOK(r)
  PROVE  \/ devices' = devices \/ DeleteDevice(r)
         \/ \E e \in Devices, t \in Tokens \cup {None} :
              SetDeviceLink(e, t) /\ (t # None => tokens[t] # None)
<1> USE DEF TypeInv
<1>1. CASE UnlinkDevice(r)
  <2>1. loc[r].row.device \in Devices /\ SetDeviceLink(loc[r].row.device, None)
    BY <1>1 DEF UnlinkDevice, HandlerOK
  <2> QED
    BY <2>1
<1>2. CASE LinkDevice(r)
  <2>1. /\ call[r].device \in Devices /\ call[r].token \in Tokens
        /\ SetDeviceLink(call[r].device, call[r].token) /\ tokens[call[r].token] # None
    BY <1>2 DEF LinkDevice, HandlerOK, CallOK, LinkOK
  <2> QED
    BY <2>1
<1>3. CASE UnlinkListed(r)
  <2>1. PICK d \in loc[r].listed : SetDeviceLink(d, None)
    BY <1>3 DEF UnlinkListed
  <2>2. d \in Devices
    BY DEF TypeOK, Locals
  <2> QED
    BY <2>1, <2>2
<1>4. CASE WriteDevice(r)
  <2>1. /\ call[r].device \in Devices /\ NewLink(r) \in Tokens \cup {None}
        /\ SetDeviceLink(call[r].device, NewLink(r))
        /\ call[r].op \in {"create_device", "update_device"} /\ pc[r] = "set_device"
    BY <1>4, NewLinkType DEF WriteDevice, HandlerOK, CallOK
  <2>2. NewLink(r) # None => tokens[NewLink(r)] # None
    <3>1. CASE call[r].token = Keep
      <4>1. NewLink(r) = loc[r].old
        BY <2>1, <3>1 DEF NewLink
      <4> QED
        BY <2>1, <4>1 DEF LinkOK
    <3>2. CASE call[r].token # Keep
      <4>1. NewLink(r) = call[r].token
        BY <2>1, <3>2 DEF NewLink
      <4> QED
        BY <2>1, <4>1 DEF LinkOK
    <3> QED
      BY <3>1, <3>2
  <2> QED
    BY <2>1, <2>2
<1>5. CASE RecordUsage(r)
  <2>1. loc[r].token \in Tokens /\ observed[loc[r].token].uses \in Nat
    BY <1>5 DEF RecordUsage, HandlerOK, TypeOK
  <2>2. observed'[loc[r].token].uses = observed[loc[r].token].uses + 1
    BY <1>5, <2>1 DEF RecordUsage, TypeOK
  <2> QED
    BY <2>1, <2>2
<1>6. CASE \/ Start(r) \/ LookupSecret(r) \/ LoadBySecret(r) \/ RecordFailure(r)
           \/ LoadToken(r) \/ CheckDevice(r) \/ CreateToken(r) \/ LoadOldDevice(r)
           \/ LoadNewDevice(r) \/ WriteToken(r) \/ ListDevices(r) \/ DeleteToken(r)
  BY <1>6 DEF Start, LookupSecret, LoadBySecret, RecordFailure, LoadToken, CheckDevice,
     CreateToken, LoadOldDevice, LoadNewDevice, WriteToken, ListDevices, DeleteToken, tables
<1>7. CASE \/ CheckToken(r) \/ LoadDevice(r) \/ LoadOldToken(r) \/ UnlinkToken(r)
           \/ LoadNewToken(r) \/ LinkToken(r) \/ StorageError(r)
  BY <1>7 DEF CheckToken, LoadDevice, LoadOldToken, UnlinkToken, LoadNewToken, LinkToken,
     StorageError, tables
<1> QED
  BY <1>1, <1>2, <1>3, <1>4, <1>5, <1>6, <1>7 DEF Step

LEMMA LinkOthers ==
  ASSUME LinkInv, overlap = "admin_alone", NEW r \in Requests, Step(r)
  PROVE  \A q \in Requests \ {r} : LinkOK(q)'
<1> SUFFICES ASSUME NEW q \in Requests \ {r} PROVE LinkOK(q)'
  OBVIOUS
<1>1. /\ TypeInv /\ SerialInv /\ LoneAdmin /\ LinkOK(q)
      /\ pc'[q] = pc[q] /\ call'[q] = call[q] /\ loc'[q] = loc[q]
  BY StepBasics DEF LinkInv, LinksSound, LinkOK
<1>2. CASE pc[q] = "idle" \/ call[q].op = "sync"
  <2>1. pc[q] \notin {"load_new_device", "link_device", "check_token", "set_device",
                      "unlink_listed", "delete_token"}
    BY <1>1, <1>2 DEF TypeInv, HandlerOK
  <2> QED
    BY <1>1, <2>1 DEF LinkOK
<1>3. CASE pc[q] # "idle" /\ call[q].op # "sync"
  <2>1. Start(r)
    BY <1>1, <1>3, StepServes, AloneOthers
  <2>2. tokens' = tokens /\ devices' = devices
    BY <2>1 DEF Start, tables
  <2> QED
    BY <1>1, <2>2 DEF LinkOK, LinkedTo
<1> QED
  BY <1>2, <1>3

\* The steps that lead to a label of LinkOK.
LEMMA LinkSelf ==
  ASSUME LinkInv, overlap = "admin_alone", NEW r \in Requests, Step(r)
  PROVE  LinkOK(r)'
<1>1. /\ TypeInv /\ TypeOK /\ SerialInv /\ LinkOK(r) /\ DeviceTokenExists
      /\ HeldRowsStay' /\ TypeInv' /\ overlap' = overlap /\ overlap # "any"
  BY StepBasics, HeldStep DEF LinkInv, LinksSound, LinkOK, IndexInv
<1>2. CASE pc'[r] \in {"load_new_device", "link_device"}
  <2>1. CASE HoldsRow(r)'
    <3>1. RowToken(r)' = call'[r].token
      BY <1>2 DEF RowToken
    <3> QED
      BY <1>1, <1>2, <2>1, <3>1 DEF HeldRowsStay, LinkOK
  <2>2. CASE CreateToken(r)
    <3>1. call'[r] = call[r]
      BY <1>1, <1>2, <2>2, StepServes DEF CreateToken, Start
    <3> QED
      BY <1>1, <1>2, <2>2, <3>1, RowWrites DEF LinkOK
  <2>3. CASE LoadNewDevice(r)
    <3>1. call'[r] = call[r] /\ tokens' = tokens /\ pc[r] = "load_new_device"
      BY <1>1, <1>2, <2>3, StepServes DEF LoadNewDevice, Start, tables
    <3> QED
      BY <1>1, <1>2, <3>1 DEF LinkOK
  <2> QED
    BY <1>1, <1>2, <2>1, <2>2, <2>3, LinkLabels
<1>3. CASE pc'[r] \in {"check_token", "set_device"}
  <2>1. CASE Start(r)
    <3>1. loc' = loc /\ tokens' = tokens /\ pc[r] = "idle"
      BY <2>1 DEF Start, tables
    <3>2. loc'[r].old = None
      BY <1>1, <3>1 DEF TypeInv, HandlerOK, NoLocals
    <3>3. pc'[r] = "set_device" => call'[r].token = None
      BY <1>1, <2>1, StartLabels
    <3> QED
      BY <1>3, <3>2, <3>3, TokenNoneAssumption DEF LinkOK
  <2>2. CASE LoadDevice(r)
    <3>1. tokens' = tokens /\ ~Done(r)
      BY <1>1, <1>3, <2>2, DoneLocal DEF LoadDevice, tables
    <3>2. call[r].device \in Devices /\ devices[call[r].device] # None
      BY <1>1, <2>2, <3>1 DEF LoadDevice, TypeInv, HandlerOK, CallOK
    <3>3. loc'[r].old = devices[call[r].device].token
      <4>1. KeepOld(r, devices[call[r].device].token)
        BY <2>2, <3>1 DEF LoadDevice
      <4> QED
        BY <1>1, <4>1 DEF KeepOld, TypeOK, Locals
    <3>4. call'[r] = call[r] /\ (pc'[r] = "set_device" => call[r].token \in {None, Keep})
      BY <1>1, <1>3, <2>2, <3>1 DEF LoadDevice, Goto, TypeOK
    <3>5. loc'[r].old # None => tokens'[loc'[r].old] # None
      BY <1>1, <3>1, <3>2, <3>3 DEF DeviceTokenExists
    <3> QED
      BY <1>3, <3>4, <3>5, TokenNoneAssumption DEF LinkOK
  <2>3. CASE CheckToken(r)
    <3>1. tokens' = tokens /\ ~Done(r) /\ pc[r] = "check_token"
      BY <1>1, <1>3, <2>3, DoneLocal DEF CheckToken, tables
    <3>2. call'[r] = call[r] /\ loc'[r] = loc[r] /\ tokens[call[r].token] # None
      BY <2>3, <3>1 DEF CheckToken, Proceed, Goto
    <3> QED
      BY <1>1, <1>3, <3>1, <3>2 DEF LinkOK
  <2> QED
    BY <1>1, <1>3, <2>1, <2>2, <2>3, LinkLabels
<1>4. CASE pc'[r] \in {"unlink_listed", "delete_token"}
  <2>1. CASE ListDevices(r)
    <3>1. PICK S : /\ S = LinkedTo(call[r].token) /\ KeepListed(r, S) /\ Goto(r, AfterListed(S))
                   /\ devices' = devices
      BY <2>1 DEF ListDevices, tables
    <3>2. /\ loc'[r].listed = S /\ call'[r] = call[r] /\ pc'[r] = AfterListed(S)
      BY <1>1, <3>1 DEF KeepListed, Goto, TypeOK, Locals
    <3> QED
      BY <1>4, <3>1, <3>2 DEF AfterListed, LinkOK, LinkedTo
  <2>2. CASE UnlinkListed(r)
    <3>1. PICK d \in loc[r].listed :
            /\ SetDeviceLink(d, None)
            /\ KeepListed(r, loc[r].listed \ {d})
            /\ Goto(r, AfterListed(loc[r].listed \ {d}))
      BY <2>2 DEF UnlinkListed
    <3>2. /\ loc'[r].listed = loc[r].listed \ {d} /\ call'[r] = call[r]
          /\ pc'[r] = AfterListed(loc[r].listed \ {d})
      BY <1>1, <3>1 DEF KeepListed, Goto, TypeOK, Locals
    <3>3. d \in Devices /\ call[r].token \in Tokens
      BY <1>1, <2>2 DEF TypeInv, TypeOK, Locals, UnlinkListed, HandlerOK, CallOK
    <3>4. /\ devices'[d] = [token |-> None]
          /\ \A e \in Devices \ {d} : devices'[e] = devices[e]
      BY <1>1, <3>1, <3>3 DEF SetDeviceLink, TypeOK
    <3>5. devices'[d].token # call[r].token
      BY <3>3, <3>4, TokenNoneAssumption
    <3>6. LinkedTo(call[r].token) \subseteq loc[r].listed
      BY <1>1, <2>2 DEF LinkOK, UnlinkListed
    <3>7. {e \in Devices : devices'[e] # None /\ devices'[e].token = call[r].token}
            \subseteq loc[r].listed \ {d}
      BY <3>4, <3>5, <3>6 DEF LinkedTo
    <3> QED
      BY <1>4, <3>2, <3>7 DEF AfterListed, LinkOK, LinkedTo
  <2> QED
    BY <1>1, <1>4, <2>1, <2>2, LinkLabels
<1> QED
  BY <1>2, <1>3, <1>4 DEF LinkOK

LEMMA DeviceLinkStep ==
  ASSUME LinkInv, overlap = "admin_alone", NEW r \in Requests, Step(r)
  PROVE  DeviceTokenExists'
<1> SUFFICES ASSUME NEW d \in Devices, devices'[d] # None, devices'[d].token # None
             PROVE  tokens'[devices'[d].token] # None
  BY DEF DeviceTokenExists
<1>1. /\ TypeInv /\ TypeOK /\ SerialInv /\ LinkOK(r)
      /\ \A e \in Devices : devices[e] # None /\ devices[e].token # None
           => tokens[devices[e].token] # None
  BY StepBasics DEF LinkInv, LinksSound, LinkOK, DeviceTokenExists
<1>2. \A e \in Devices : devices[e] # None /\ devices[e].token # None
        => devices[e].token \in Tokens
  BY <1>1 DEF TypeOK, DeviceRow
<1>3. CASE Reads(r)
  <2>1. tokens' = tokens
    BY <1>3 DEF Reads
  <2>2. CASE devices' = devices
    BY <1>1, <2>1, <2>2
  <2>3. CASE \E e \in Devices, t \in Tokens \cup {None} :
               SetDeviceLink(e, t) /\ (t # None => tokens[t] # None)
    BY <1>1, <2>1, <2>3 DEF SetDeviceLink, TypeOK
  <2>4. CASE DeleteDevice(r)
    BY <1>1, <2>1, <2>4 DEF DeleteDevice, TypeInv, TypeOK, HandlerOK, CallOK
  <2> QED
    BY <1>1, <1>3, <2>2, <2>3, <2>4, DeviceSteps DEF Reads
<1>4. CASE (RecordUsage(r) \/ RecordFailure(r)) /\ Counts(r)
  <2>1. \A t \in Tokens : tokens'[t] = None <=> tokens[t] = None
    BY <1>4 DEF Counts
  <2>2. CASE devices' = devices
    BY <1>1, <1>2, <2>1, <2>2
  <2>3. CASE devices' # devices
    <3>1. RecordUsage(r) /\ tokens[loc[r].token] # None /\ loc[r].token \in Tokens
      BY <1>4, <2>3 DEF RecordUsage, RecordFailure, Counts
    <3>2. PICK e \in Devices : /\ devices[e] # None
                               /\ devices' = [devices EXCEPT ![e].token = loc[r].token]
      <4>1. tokens[loc[r].token].device \in Devices \cup {None}
        BY <1>1, <3>1, RowTypes DEF TypeOK
      <4>2. TakeDevice(loc[r].token, tokens[loc[r].token].device)
        BY <3>1 DEF RecordUsage
      <4> QED
        BY <2>3, <4>1, <4>2 DEF TakeDevice
    <3>3. CASE d = e
      <4>1. devices[d] # None
        BY <3>2, <3>3
      <4>2. devices[d] \in DeviceRow
        BY <1>1, <4>1 DEF TypeOK
      <4>3. devices'[d].token = loc[r].token
        BY <1>1, <3>2, <3>3, <4>2 DEF TypeOK, DeviceRow
      <4> QED
        BY <2>1, <3>1, <4>3
    <3>4. CASE d # e
      BY <1>1, <1>2, <2>1, <3>2, <3>4 DEF TypeOK
    <3> QED
      BY <3>3, <3>4
  <2> QED
    BY <2>2, <2>3
<1>5. CASE RowToken(r) \in Tokens /\ \E row : Wrote(r, row)
  <2>1. PICK row : Wrote(r, row)
    BY <1>5
  <2>2. /\ tokens'[RowToken(r)] # None /\ devices' = devices
        /\ \A u \in Tokens \ {RowToken(r)} : tokens'[u] = tokens[u]
    BY <1>1, <2>1, RowWrites DEF Wrote
  <2> QED
    BY <1>1, <1>2, <2>2
<1>6. CASE CreateToken(r)
  BY <1>1, <1>2, <1>6, RowWrites DEF CreateToken
<1>7. CASE DeleteToken(r)
  <2>1. /\ devices' = devices /\ LinkedTo(call[r].token) = {}
        /\ \A u \in Tokens \ {call[r].token} : tokens'[u] = tokens[u]
    BY <1>1, <1>7, RowWrites DEF DeleteToken, LinkOK
  <2>2. devices[d].token # call[r].token
    BY <2>1 DEF LinkedTo
  <2> QED
    BY <1>1, <1>2, <2>1, <2>2
<1> QED
  BY <1>1, <1>3, <1>4, <1>5, <1>6, <1>7, StepKinds

\* What holds initially and stays when no handler takes a step.
LEMMA AloneInit == Init => UsageInv /\ LinkInv
<1> SUFFICES ASSUME Init PROVE UsageInv /\ LinkInv
  OBVIOUS
<1>1. SerialInv /\ \A r \in Requests : pc[r] = "idle" /\ ~HoldsRow(r) /\ ~Creates(r)
  BY SerialInit DEF Init, HoldsRow, Creates
<1>2. /\ \A t \in Tokens : tokens[t] = None /\ NotObserved(t)
      /\ \A d \in Devices : devices[d] = None
  BY DEF Init, NotObserved
<1> QED
  BY <1>1, <1>2 DEF UsageInv, LinkInv, LoneAdmin, CountsAgree, UsageRecorded, LinksSound,
     DeviceTokenExists

LEMMA UsageNext == ASSUME UsageInv, [Next]_vars PROVE UsageInv'
<1>1. SerialInv' /\ SerialInv /\ LoneAdmin
  BY SerialNext DEF UsageInv
<1>2. CASE \E r \in Requests : Step(r)
  BY <1>1, <1>2, UsageStep, SerialStep DEF UsageInv, SerialInv, IndexInv
<1>3. CASE Crash
  <2>1. \A r \in Requests : pc'[r] = "idle" /\ ~HoldsRow(r)' /\ ~Creates(r)'
    BY <1>3, CrashFrames
  <2>2. UNCHANGED <<tables, mint, load, history>>
    BY <1>3 DEF Crash
  <2> QED
    BY <1>1, <2>1, <2>2 DEF tables, mint, load, history, UsageInv, LoneAdmin, CountsAgree,
       UsageRecorded, NotObserved
<1>4. CASE Tick \/ UNCHANGED vars
  <2>1. UNCHANGED <<tables, mint, load, pc, call, loc, history>>
    BY <1>4 DEF Tick, vars
  <2>2. \A r \in Requests : /\ HoldsRow(r)' = HoldsRow(r) /\ RowToken(r)' = RowToken(r)
                            /\ Creates(r)' = Creates(r)
    BY <2>1 DEF HoldsRow, RowToken, Creates, NewLink
  <2> QED
    BY <1>1, <2>1, <2>2 DEF tables, mint, load, history, UsageInv, LoneAdmin, CountsAgree,
       UsageRecorded, NotObserved
<1> QED
  BY <1>2, <1>3, <1>4 DEF Next, Quiet

LEMMA LinkNext == ASSUME LinkInv, [Next]_vars PROVE LinkInv'
<1>1. SerialInv' /\ SerialInv /\ LoneAdmin
  BY SerialNext DEF LinkInv
<1>2. CASE \E r \in Requests : Step(r)
  <2>1. PICK r \in Requests : Step(r)
    BY <1>2
  <2>2. LoneAdmin' /\ overlap' = overlap
    BY <1>1, <2>1, SerialStep, StepServes DEF SerialInv, IndexInv
  <2>3. overlap = "admin_alone" => DeviceTokenExists' /\ \A q \in Requests : LinkOK(q)'
    BY <2>1, LinkOthers, LinkSelf, DeviceLinkStep
  <2>4. LinksSound' /\ DeviceTokenExists'
    BY <2>2, <2>3 DEF LinksSound, LinkOK, DeviceTokenExists
  <2> QED
    BY <1>1, <2>2, <2>4 DEF LinkInv
<1>3. CASE Crash
  <2>1. \A r \in Requests : pc'[r] = "idle"
    BY <1>3, CrashFrames
  <2>2. UNCHANGED <<tables, mint, load, history>>
    BY <1>3 DEF Crash
  <2> QED
    BY <1>1, <2>1, <2>2 DEF tables, mint, load, history, LinkInv, LoneAdmin, LinksSound,
       DeviceTokenExists
<1>4. CASE Tick \/ UNCHANGED vars
  BY <1>1, <1>4 DEF Tick, vars, tables, mint, load, history, LinkInv, LoneAdmin, LinksSound,
     DeviceTokenExists, LinkedTo
<1> QED
  BY <1>2, <1>3, <1>4 DEF Next, Quiet

\* UsageRecorded always holds: while the admin works alone, rows written back
\* by admin handlers never lose a use or a refusal that was counted.
THEOREM UsageIsRecorded == Spec => []UsageRecorded
<1>1. UsageInv => UsageRecorded
  BY DEF UsageInv
<1> QED
  BY <1>1, AloneInit, UsageNext, PTL DEF Spec

\* DeviceTokenExists always holds: while the admin works alone, no device row
\* is left with a token that is gone, also across failures and crashes between
\* the transactions of admin_delete_token.
THEOREM DeviceLinksExist == Spec => []DeviceTokenExists
<1>1. LinkInv => DeviceTokenExists
  BY DEF LinkInv
<1> QED
  BY <1>1, AloneInit, LinkNext, PTL DEF Spec
=============================================================================
