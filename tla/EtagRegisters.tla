---------------------------- MODULE EtagRegisters ----------------------------
(***************************************************************************)
(* What the sync API promises its clients about concurrency, without       *)
(* tables, handlers or transactions: every item (a namespace's snapshot or *)
(* one object) is a register that holds the ETag of its current version.   *)
(* An upload is one atomic step; it takes effect only if its precondition  *)
(* holds of the register at that very moment, and it mints an ETag that    *)
(* was never used before.                                                  *)
(***************************************************************************)
EXTENDS Naturals, TLAPS

CONSTANT Items

VARIABLES
  current,   \* the ETag of each item's current version, 0 if it has none
  last,      \* the ETags minted so far
  accepted   \* the conditional uploads accepted so far

vars == <<current, last, accepted>>

Upload == [item : Items, cond : {"match", "absent"}, base : Nat, ver : Nat]

Init ==
  /\ current = [i \in Items |-> 0]
  /\ last = 0
  /\ accepted = {}

\* An upload with a precondition: If-Match: base, or If-None-Match: *.
Put(i, cond, base) ==
  /\ cond = "match" => current[i] = base
  /\ cond = "absent" => current[i] = 0
  /\ last' = last + 1
  /\ current' = [current EXCEPT ![i] = last + 1]
  /\ accepted' = accepted \cup {[item |-> i, cond |-> cond, base |-> base,
                                 ver |-> last + 1]}

\* An upload without a precondition.
Overwrite(i) ==
  /\ last' = last + 1
  /\ current' = [current EXCEPT ![i] = last + 1]
  /\ UNCHANGED accepted

\* Deletion of an object, purge or (re)creation of a namespace.
Clear(K) ==
  /\ current' = [i \in Items |-> IF i \in K THEN 0 ELSE current[i]]
  /\ UNCHANGED <<last, accepted>>

Next ==
  \/ \E i \in Items, cond \in {"match", "absent"}, base \in 0..last :
       Put(i, cond, base)
  \/ \E i \in Items : Overwrite(i)
  \/ \E K \in SUBSET Items : Clear(K)

Spec == Init /\ [][Next]_vars

-----------------------------------------------------------------------------

TypeOK ==
  /\ current \in [Items -> Nat]
  /\ last \in Nat
  /\ accepted \in SUBSET Upload

\* Of all uploads that name the same ETag in If-Match at most one is
\* accepted, over all items.
AtMostOneSuccessor ==
  \A a, b \in accepted :
    a.cond = "match" /\ b.cond = "match" /\ a.base # 0 /\ a.base = b.base
      => a = b

\* Why: an ETag is current for one item at most, and one that served as the
\* base of an accepted upload is not current any more and never will be.
EtagsAreFresh ==
  /\ \A i \in Items : current[i] <= last
  /\ \A i, j \in Items : current[i] = current[j] /\ current[i] # 0 => i = j
  /\ \A a \in accepted : a.base <= last
  /\ \A a \in accepted, i \in Items :
       a.cond = "match" /\ a.base # 0 => current[i] # a.base

-----------------------------------------------------------------------------
(* Proof, for every set of items *)

Inv == TypeOK /\ EtagsAreFresh /\ AtMostOneSuccessor

LEMMA InvInit == Init => Inv
  BY DEF Init, Inv, TypeOK, EtagsAreFresh, AtMostOneSuccessor

\* A fresh ETag is above every ETag in use.
LEMMA PutInv ==
  ASSUME Inv, NEW i \in Items, NEW cond \in {"match", "absent"},
         NEW base \in 0..last, Put(i, cond, base)
  PROVE  Inv'
<1> DEFINE new == [item |-> i, cond |-> cond, base |-> base, ver |-> last + 1]
<1>1. new \in Upload /\ accepted' = accepted \cup {new} /\ last' = last + 1
  BY DEF Inv, TypeOK, Put, Upload
<1>2. TypeOK'
  BY <1>1 DEF Inv, TypeOK, Put
<1>3. cond = "match" => \A a \in accepted :
        a.cond = "match" /\ a.base # 0 => a.base # base
  BY DEF Inv, EtagsAreFresh, Put
<1>4. AtMostOneSuccessor'
  BY <1>1, <1>3 DEF Inv, AtMostOneSuccessor
<1>5. \A j \in Items : current'[j] <= last'
  BY <1>1 DEF Inv, EtagsAreFresh, TypeOK, Put
<1>6. \A j, k \in Items : current'[j] = current'[k] /\ current'[j] # 0 => j = k
  BY DEF Inv, EtagsAreFresh, TypeOK, Put
<1>7. \A a \in accepted' : a.base <= last'
  BY <1>1 DEF Inv, EtagsAreFresh, TypeOK, Upload
<1>8. \A a \in accepted', j \in Items :
        a.cond = "match" /\ a.base # 0 => current'[j] # a.base
  <2>1. TAKE a \in accepted', j \in Items
  <2>2. HAVE a.cond = "match" /\ a.base # 0
  <2>3. current[i] # 0 /\ a = new => current[i] = base
    BY <2>2 DEF Put
  <2>4. a.base <= last /\ last \in Nat /\ a.base \in Nat
    BY <1>1 DEF Inv, EtagsAreFresh, TypeOK, Upload
  <2>5. CASE j = i
    BY <2>4, <2>5 DEF Put, Inv, TypeOK
  <2>6. CASE j # i /\ a \in accepted
    BY <2>2, <2>6 DEF Put, Inv, TypeOK, EtagsAreFresh
  <2>7. CASE j # i /\ a = new
    BY <2>2, <2>7 DEF Put, Inv, TypeOK, EtagsAreFresh
  <2> QED
    BY <1>1, <2>5, <2>6, <2>7
<1> QED
  BY <1>2, <1>4, <1>5, <1>6, <1>7, <1>8 DEF Inv, EtagsAreFresh

LEMMA OverwriteInv ==
  ASSUME Inv, NEW i \in Items, Overwrite(i) PROVE Inv'
<1>1. TypeOK' /\ AtMostOneSuccessor'
  BY DEF Inv, TypeOK, AtMostOneSuccessor, Overwrite
<1>2. \A a \in accepted : a.base \in Nat /\ a.base <= last
  BY DEF Inv, TypeOK, EtagsAreFresh, Upload
<1>3. EtagsAreFresh'
  BY <1>2 DEF Inv, TypeOK, EtagsAreFresh, Overwrite
<1> QED
  BY <1>1, <1>3 DEF Inv

LEMMA ClearInv ==
  ASSUME Inv, NEW K \in SUBSET Items, Clear(K) PROVE Inv'
  BY DEF Inv, TypeOK, EtagsAreFresh, AtMostOneSuccessor, Clear

LEMMA InvStep == Inv /\ [Next]_vars => Inv'
<1> SUFFICES ASSUME Inv, [Next]_vars PROVE Inv'
  OBVIOUS
<1>1. CASE UNCHANGED vars
  BY <1>1 DEF Inv, TypeOK, EtagsAreFresh, AtMostOneSuccessor, vars
<1> QED
  BY <1>1, PutInv, OverwriteInv, ClearInv DEF Next

\* Registers with atomic conditional uploads never accept two successors of
\* the same version: the optimistic locking the server advertises.
THEOREM RegistersLockOptimistically == Spec => []AtMostOneSuccessor
<1>1. Inv => AtMostOneSuccessor
  BY DEF Inv
<1> QED
  BY <1>1, InvInit, InvStep, PTL DEF Spec

=============================================================================
