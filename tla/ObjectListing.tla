---------------------------- MODULE ObjectListing ----------------------------
(***************************************************************************)
(* What readers of the whole store see while it changes: the paginated     *)
(* object listing of the sync API (api.rs, db.rs) with the namespace       *)
(* pattern and the permissions of the token that asks (auth.rs), and the   *)
(* admin's overview of live and soft-deleted namespaces (panel.rs).        *)
(*                                                                         *)
(* Keys are strings, that is sequences of character codes: whether a scan  *)
(* of the ordered object table stays inside its namespace depends on their *)
(* order.  "ns:" is left out and "/obj:" is the one character Slash, which *)
(* no namespace name contains.                                             *)
(*                                                                         *)
(* A reader changes no table, so one reader stands for any number of them. *)
(* Writers are the transactions of the handlers modelled in SyncStore.     *)
(***************************************************************************)
EXTENDS Naturals, Sequences, FiniteSets, SequencesExt

CONSTANTS
  NameChars,   \* codes of the characters a namespace name may contain
  Slash,       \* the code of the separator between namespace and path
  Star,        \* the code of the wildcard
  Namespaces,  \* names of namespaces
  Objects,     \* pairs <<namespace, path>> that may be stored
  Queries,     \* listing requests: what a client may ask for
  MaxLimit,    \* the largest page
  None         \* no cursor, no request

VARIABLES
  keys,        \* OBJECT_TABLE: the keys stored
  described,   \* METADATA_TABLE: the namespaces with a row
  deleted,     \* DELETED_NAMESPACE_TABLE
  step,        \* the reader's next transaction
  query,       \* the listing request in progress
  cursor,      \* where its next page starts
  page,        \* the paths of its latest page
  seen,        \* the paths of its earlier pages
  live, gone,  \* the two lists of the overview
  throughout,  \* history: paths stored ever since the listing began
  touched      \* history: namespaces that changed status during the overview

tables == <<keys, described, deleted>>
listing == <<query, cursor, page, seen>>
overview == <<live, gone>>
vars == <<tables, step, listing, overview, throughout, touched>>

-----------------------------------------------------------------------------
(* Names, patterns, permissions *)

ValidNamespace(n) == n # <<>> /\ Range(n) \subseteq NameChars

\* A pattern without its trailing wildcard.
Candidate(p) == IF p # <<>> /\ Last(p) = Star THEN Front(p) ELSE p

ValidPattern(p) == p = <<Star>> \/ ValidNamespace(Candidate(p))

\* Mutant: an exact name also stands for the names it begins.
NamespaceMatchesPrefix(n, p) == IsPrefix(Candidate(p), n)

NamespaceMatches(n, p) ==
  \/ p = <<Star>>
  \/ p # <<>> /\ Last(p) = Star /\ IsPrefix(Front(p), n)
  \/ n = p

\* Trimmed and in lower case; sorting and removing duplicates make a set.
NormalPermission(x) == CASE x = " READ " -> "read" [] x = "Write" -> "write" [] OTHER -> x
NormalPermissions(xs) ==
  IF xs = None THEN {"read", "write"} ELSE {NormalPermission(x) : x \in Range(xs)}

ValidPermissions(ps) == ps # {} /\ ps \subseteq {"read", "write"}

\* What admin_create_token accepts, and the scope the token then has.
Grantable(g) == ValidPattern(g.pattern) /\ ValidPermissions(NormalPermissions(g.permissions))
Allows(g, n) == NamespaceMatches(n, g.pattern) /\ "read" \in NormalPermissions(g.permissions)

ASSUME ListingNamesAssumption ==
  /\ NameChars \subseteq Nat /\ Slash \in Nat \ NameChars /\ Star \in Nat \ NameChars
  /\ \A n \in Namespaces : n \in Seq(Nat) /\ ValidNamespace(n)
ASSUME ListingObjectsAssumption == Objects \subseteq Namespaces \X (Seq(Nat) \ {<<>>})
ASSUME ListingQueriesAssumption ==
  /\ MaxLimit \in Nat /\ None \notin Queries \cup Seq(Nat)
  /\ \A q \in Queries : /\ q.ns \in Namespaces /\ q.prefix \in Seq(Nat)
                        /\ q.limit \in Nat /\ q.cursor \in Seq(Nat) \cup {None}
                        /\ q.grant.pattern \in Seq(Nat) /\ Grantable(q.grant)

-----------------------------------------------------------------------------
(* Keys and their order *)

ObjectKey(n, p) == n \o <<Slash>> \o p

\* Mutant: keeps the separator.
NamespaceOfWithSlash(k) ==
  LET i == CHOOSE i \in DOMAIN k : k[i] = Slash /\ \A j \in 1..(i - 1) : k[j] # Slash
  IN SubSeq(k, 1, i)

\* The namespace of a key: what comes before the first separator.
NamespaceOf(k) ==
  LET i == CHOOSE i \in DOMAIN k : k[i] = Slash /\ \A j \in 1..(i - 1) : k[j] # Slash
  IN SubSeq(k, 1, i - 1)

\* The order of strings, byte by byte.
Less(a, b) ==
  \E i \in 1..Len(b) :
    /\ i <= Len(a) + 1
    /\ \A j \in 1..(i - 1) : a[j] = b[j]
    /\ i = Len(a) + 1 \/ a[i] < b[i]

\* The first n strings of S.
FirstOf(S, n) == {k \in S : Cardinality({j \in S : Less(j, k)}) < n}

LastOf(S) == CHOOSE k \in S : \A j \in S : ~Less(k, j)

\* The paths stored in a namespace, and what the admin calls its status.
Stored(n) == {o[2] : o \in {x \in Objects : x[1] = n /\ ObjectKey(x[1], x[2]) \in keys}}
Status(n) == CASE n \in deleted -> "deleted"
               [] n \notin deleted /\ (n \in described \/ Stored(n) # {}) -> "live"
               [] OTHER -> "none"

-----------------------------------------------------------------------------

Init ==
  /\ keys = {} /\ described = {} /\ deleted = {}
  /\ step = "idle" /\ query = None /\ cursor = None /\ page = {} /\ seen = {}
  /\ live = {} /\ gone = {} /\ throughout = {} /\ touched = {}

\* The reader has its answer, or its refusal, and forgets about it.
Rest ==
  /\ step' = "idle" /\ query' = None /\ cursor' = None /\ page' = {} /\ seen' = {}
  /\ live' = {} /\ gone' = {} /\ throughout' = {} /\ touched' = {}
  /\ UNCHANGED tables

Forget == step \in {"complete", "surveyed"} /\ Rest

-----------------------------------------------------------------------------
(* GET /v1/namespaces/:ns/objects, page by page *)

Ask(q) ==
  /\ step = "idle"
  /\ query' = q /\ cursor' = q.cursor /\ step' = "admit"
  /\ throughout' = Stored(q.ns)
  /\ UNCHANGED <<tables, page, seen, overview, touched>>

ValidQuery(q, c) ==
  /\ q.limit \in 1..MaxLimit
  /\ c # None => c # <<>> /\ IsPrefix(q.prefix, c)

\* ensure_namespace_active, the token's scope, and the query parameters.
Admissible == /\ query.ns \notin deleted
              /\ Allows(query.grant, query.ns)
              /\ ValidQuery(query, cursor)

AdmitPage ==
  /\ step = "admit" /\ Admissible
  /\ step' = "scan"
  /\ UNCHANGED <<tables, listing, overview, throughout, touched>>

RefusePage == step = "admit" /\ ~Admissible /\ Rest

\* Mutant: the page starts with the object the cursor names.
KeysFromInclusive(n, prefix, after) ==
  {k \in keys : ~Less(k, ObjectKey(n, IF after = None THEN prefix ELSE after))}

\* The scan starts at the prefix, or behind the cursor.
KeysFrom(n, prefix, after) ==
  {k \in keys : IF after = None THEN ~Less(k, ObjectKey(n, prefix))
                ELSE Less(ObjectKey(n, after), k)}

\* Mutant: does not stop at the first key without the prefix.
InPrefixUnchecked(S, kp) == S

\* The scan stops at the first key that does not begin with the prefix.
InPrefix(S, kp) == {k \in S : \A j \in S : ~Less(k, j) => IsPrefix(kp, j)}

ListObjectPaths(n, prefix, after, limit) ==
  {SubSeq(k, Len(ObjectKey(n, <<>>)) + 1, Len(k)) :
     k \in InPrefix(FirstOf(KeysFrom(n, prefix, after), limit), ObjectKey(n, prefix))}

\* Mutant: asks for no more paths than fit the page.
FoundNoLookahead == ListObjectPaths(query.ns, query.prefix, cursor, query.limit)

\* One path more than fits the page tells whether another page follows.
Found == ListObjectPaths(query.ns, query.prefix, cursor, query.limit + 1)

ScanPage ==
  /\ step = "scan"
  /\ seen' = seen \cup page
  /\ \/ /\ Cardinality(Found) > query.limit
        /\ page' = FirstOf(Found, query.limit)
        /\ cursor' = LastOf(FirstOf(Found, query.limit))
        /\ step' = "admit"
     \/ /\ Cardinality(Found) <= query.limit
        /\ page' = Found /\ cursor' = None
        /\ step' = "complete"
  /\ UNCHANGED <<tables, query, overview, throughout, touched>>

-----------------------------------------------------------------------------
(* GET /admin/api/namespaces and /admin/api/stats *)

\* Mutant: lists soft-deleted namespaces that still have objects.
ListNamespacesAll == (described \ deleted) \cup {NamespaceOf(k) : k \in keys}

ListNamespaces == (described \cup {NamespaceOf(k) : k \in keys}) \ deleted

ListLive ==
  /\ step = "idle"
  /\ live' = ListNamespaces
  /\ step' = "survey"
  /\ UNCHANGED <<tables, listing, gone, throughout, touched>>

ListDeleted ==
  /\ step = "survey"
  /\ gone' = deleted
  /\ step' = "surveyed"
  /\ UNCHANGED <<tables, listing, live, throughout, touched>>

-----------------------------------------------------------------------------
(* Writers: the commits of other handlers *)

\* What the histories make of the tables' new values.
Observe ==
  /\ UNCHANGED <<step, listing, overview>>
  /\ throughout' = IF query = None THEN throughout ELSE throughout \cap Stored(query.ns)'
  /\ touched' = IF step # "survey" THEN touched
                ELSE touched \cup {n \in Namespaces : Status(n)' # Status(n)}

PutObject(n, p) ==
  /\ keys' = keys \cup {ObjectKey(n, p)}
  /\ UNCHANGED <<described, deleted>> /\ Observe

DeleteObject(n, p) ==
  /\ keys' = keys \ {ObjectKey(n, p)}
  /\ UNCHANGED <<described, deleted>> /\ Observe

PutMetadata(n) ==
  /\ described' = described \cup {n}
  /\ UNCHANGED <<keys, deleted>> /\ Observe

SoftDelete(n) ==
  /\ deleted' = deleted \cup {n}
  /\ UNCHANGED <<keys, described>> /\ Observe

Restore(n) ==
  /\ deleted' = deleted \ {n}
  /\ UNCHANGED <<keys, described>> /\ Observe

Purge(n) ==
  /\ keys' = {k \in keys : ~IsPrefix(ObjectKey(n, <<>>), k)}
  /\ described' = described \ {n} /\ deleted' = deleted \ {n}
  /\ Observe

Write ==
  \/ \E o \in Objects : PutObject(o[1], o[2]) \/ DeleteObject(o[1], o[2])
  \/ \E n \in Namespaces : PutMetadata(n) \/ SoftDelete(n) \/ Restore(n) \/ Purge(n)

-----------------------------------------------------------------------------

Read == AdmitPage \/ RefusePage \/ ScanPage

Next == (\E q \in Queries : Ask(q)) \/ Read \/ ListLive \/ ListDeleted \/ Forget \/ Write

Spec == Init /\ [][Next]_vars

\* The server answers and the client goes on asking for the next page.
\* Nothing is assumed of the writers, who may write all the time.
FairSpec == Spec /\ WF_vars(Read)

-----------------------------------------------------------------------------
(* Properties *)

\* Every variable has the shape the handlers give it; the pages handed out
\* belong to a request, and a page in progress has been admitted.
TypeOK ==
  /\ keys \subseteq {ObjectKey(o[1], o[2]) : o \in Objects}
  /\ described \subseteq Namespaces /\ deleted \subseteq Namespaces
  /\ step \in {"idle", "admit", "scan", "complete", "survey", "surveyed"}
  /\ query \in Queries \cup {None}
  /\ (step \in {"admit", "scan", "complete"}) = (query # None)
  /\ cursor \in Seq(Nat) \cup {None}
  /\ step = "scan" => ValidQuery(query, cursor)
  /\ live \subseteq Namespaces /\ gone \subseteq Namespaces

\* list_objects hands its paths out in ascending order over all pages, so
\* that no path is listed twice, whatever is written between two pages.
PagesAscend == \A p \in seen : \A r \in page : Less(p, r)

\* A listing that ends with a null nextCursor has shown every object with the
\* prefix, behind the client's first cursor, that was stored all the time,
\* although each page is a transaction of its own.
ListingComplete ==
  step = "complete" =>
    {p \in throughout : /\ IsPrefix(query.prefix, p)
                        /\ query.cursor # None => Less(query.cursor, p)}
      \subseteq seen \cup page

\* Every path of a page is stored, in the namespace that was asked for and
\* with the prefix, at the moment the page is read: the scan of the shared
\* table never runs into the keys of a neighbouring namespace.
PagesAreStored ==
  [][step = "scan" /\ step' # "scan" =>
       page' \subseteq {p \in Stored(query.ns) : IsPrefix(query.prefix, p)}]_vars

\* The namespaces a pattern stands for, by the words of README.md:188
\* ("`*`, `exact`, or `prefix*`").
Covered(p) ==
  {n \in Namespaces : p = <<Star>> \/ p = n
                        \/ \E i \in 1..Len(n) : p = Append(SubSeq(n, 1, i), Star)}

\* A client is shown paths of a namespace only with a token whose pattern
\* stands for that namespace and which may read.
ScopeRespected ==
  page \cup seen # {} =>
    /\ query.ns \in Covered(query.grant.pattern)
    /\ "read" \in NormalPermissions(query.grant.permissions)

\* The admin's overview and statistics read the live and the deleted
\* namespaces in two transactions: a namespace that nobody deletes, restores,
\* creates or empties meanwhile is reported once, under its status.
OverviewExact ==
  [][step = "survey" /\ step' = "surveyed" =>
       \A n \in Namespaces \ touched :
         /\ (n \in live') = (Status(n) = "live")
         /\ (n \in gone') = (Status(n) = "deleted")]_vars

\* A client that follows nextCursor comes to an end, also while others keep
\* writing.
ListingEnds == step \in {"admit", "scan"} ~> step \notin {"admit", "scan"}
=============================================================================
