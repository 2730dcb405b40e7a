---------------------------- MODULE SharedProofs ----------------------------
(* Proofs that the leases of Shared keep their connection, for any number   *)
(* of users and of connections.                                             *)
EXTENDS Shared, FiniteSetTheorems, TLAPS

\* A connection exists from its first user on; closing it
\* settles its initial promise, and it is open exactly as long as it is the entry.
Lives ==
    /\ \A k \in Connection : closed[k] => initial[k] \in {"ready", "failed"}
    /\ \A k \in Connection : (initial[k] # "none" /\ ~closed[k]) <=> k = entry
    /\ disposed => entry = none

\* The users of a connection: it exists, a lease has seen it ready, and one
\* that is ready is closed under its users only by dispose().
Held ==
    \A u \in User : pc[u] \in {"awaiting", "leased"} =>
        /\ current[u] \in Connection /\ initial[current[u]] # "none"
        /\ pc[u] = "leased" => initial[current[u]] = "ready"
        /\ initial[current[u]] = "ready" => ~closed[current[u]] \/ disposed

\* The entry is in use.
Used == entry # none => Users(entry) # {}

IInv == TypeOK /\ Lives /\ Held /\ Used /\ ReferencesAccounted

\* The users of a connection are finitely many.
LEMMA UsersFinite == \A k : IsFiniteSet(Users(k))
<1>1. TAKE k
<1>2. Users(k) \subseteq User
  BY DEF Users
<1> QED BY <1>2, SharedAssumption, FS_Subset

\* A user that joins k adds one to the count of k, and leaves the others.
LEMMA Joining ==
    ASSUME TypeOK, ReferencesAccounted, NEW u \in User, NEW k \in Connection,
           pc[u] = "idle", Join(u, k)
    PROVE  ReferencesAccounted' /\ u \in Users(k)'
           /\ \A j \in Connection : Users(j) \subseteq Users(j)'
<1>1. Users(k)' = Users(k) \union {u} /\ u \notin Users(k)
  BY DEF TypeOK, Users, Join, Goto
<1>2. \A j \in Connection : j # k => Users(j)' = Users(j)
  BY DEF TypeOK, Users, Join, Goto
<1>3. Cardinality(Users(k)') = Cardinality(Users(k)) + 1
  BY <1>1, UsersFinite, FS_AddElement
<1>4. references' = [references EXCEPT ![k] = @ + 1]
  BY DEF Join
<1>5. ReferencesAccounted'
  <2> SUFFICES ASSUME NEW j \in Connection
               PROVE  references'[j] = Cardinality(Users(j)')
    BY DEF ReferencesAccounted
  <2>1. CASE j = k
    <3>1. references[k] = Cardinality(Users(k))
      BY DEF ReferencesAccounted
    <3> QED BY <2>1, <3>1, <1>3, <1>4 DEF TypeOK
  <2>2. CASE j # k
    BY <2>2, <1>2, <1>4 DEF TypeOK, ReferencesAccounted
  <2> QED BY <2>1, <2>2
<1> QED BY <1>1, <1>2, <1>5

\* A user that leaves takes one from the count of its connection.
LEMMA Leaving ==
    ASSUME TypeOK, ReferencesAccounted, NEW u \in User, NEW place,
           current[u] \in Connection, pc[u] \in {"awaiting", "leased"},
           place \in {"released", "failed"}, Goto(u, place), Drop(current[u]),
           UNCHANGED current
    PROVE  /\ ReferencesAccounted' /\ references[current[u]] \in Nat \ {0}
           /\ references' \in [Connection -> Nat]
           /\ Users(current[u])' = Users(current[u]) \ {u} /\ u \in Users(current[u])
           /\ \A j \in Connection : j # current[u] => Users(j)' = Users(j)
           /\ references[current[u]] = 1 <=> Users(current[u])' = {}
<1> DEFINE k == current[u]
<1>1. Users(k)' = Users(k) \ {u} /\ u \in Users(k)
  BY DEF TypeOK, Users, Goto
<1>2. \A j \in Connection : j # k => Users(j)' = Users(j)
  BY DEF TypeOK, Users, Goto
<1>3. Cardinality(Users(k)') = Cardinality(Users(k)) - 1
  BY <1>1, UsersFinite, FS_RemoveElement
<1>4. references' = [references EXCEPT ![k] = @ - 1]
  BY DEF Drop
<1>5. references[k] = Cardinality(Users(k)) /\ references[k] \in Nat
  BY DEF ReferencesAccounted, TypeOK
<1>6. IsFiniteSet(Users(k)') /\ Cardinality(Users(k)') \in Nat
  <2>1. IsFiniteSet(Users(k)')
    BY <1>1, UsersFinite, FS_Subset
  <2> QED BY <2>1, FS_CardinalityType
<1>7. Cardinality(Users(k)') = 0 <=> Users(k)' = {}
  BY <1>6, FS_EmptySet
<1>8. references[k] \in Nat \ {0}
  BY <1>3, <1>5, <1>6
<1>9. references' \in [Connection -> Nat]
  BY <1>4, <1>8 DEF TypeOK
<1>10. ReferencesAccounted'
  <2> SUFFICES ASSUME NEW j \in Connection
               PROVE  references'[j] = Cardinality(Users(j)')
    BY DEF ReferencesAccounted
  <2>1. CASE j = k
    BY <2>1, <1>3, <1>4, <1>5 DEF TypeOK
  <2>2. CASE j # k
    BY <2>2, <1>2, <1>4 DEF TypeOK, ReferencesAccounted
  <2> QED BY <2>1, <2>2
<1>11. references[k] = 1 <=> Users(k)' = {}
  BY <1>3, <1>5, <1>6, <1>7
<1> QED BY <1>1, <1>2, <1>8, <1>9, <1>10, <1>11

\* Nothing that leaves pc, current and references alone moves the counts.
LEMMA Untouched ==
    ASSUME UNCHANGED <<pc, current, references>>, ReferencesAccounted
    PROVE  ReferencesAccounted' /\ \A k : Users(k)' = Users(k)
BY DEF ReferencesAccounted, Users

LEMMA Initially == Init => IInv
<1> SUFFICES ASSUME Init PROVE IInv
  OBVIOUS
<1>1. TypeOK /\ Lives /\ Held /\ Used
  BY SharedAssumption DEF Init, TypeOK, Lives, Held, Used
<1>2. \A k \in Connection : Users(k) = {}
  BY DEF Init, Users
<1>3. ReferencesAccounted
  BY <1>2, FS_EmptySet DEF ReferencesAccounted, Init
<1> QED BY <1>1, <1>3 DEF IInv

\* The inductive step, action by action.
LEMMA Step == IInv /\ [Next]_vars => IInv'
<1> SUFFICES ASSUME IInv, [Next]_vars PROVE IInv'
  OBVIOUS
<1> USE DEF IInv
<1>1. CASE UNCHANGED vars
  <2>1. ReferencesAccounted' /\ \A k : Users(k)' = Users(k)
    BY <1>1, Untouched DEF vars
  <2>2. TypeOK' /\ Lives' /\ Held'
    BY <1>1 DEF vars, TypeOK, Lives, Held
  <2> QED BY <2>1, <2>2, <1>1 DEF Used, vars
<1>2. CASE Dispose
  <2>1. ReferencesAccounted'
    BY <1>2, Untouched DEF Dispose
  <2>2. TypeOK'
    BY <1>2 DEF Dispose, CloseEntry, TypeOK
  <2>3. Lives'
    BY <1>2, SharedAssumption DEF Dispose, CloseEntry, TypeOK, Lives
  <2>4. Held'
    BY <1>2, SharedAssumption DEF Dispose, CloseEntry, TypeOK, Held, Lives
  <2>5. Used'
    BY <1>2 DEF Dispose, Used
  <2> QED BY <2>1, <2>2, <2>3, <2>4, <2>5
<1>3. ASSUME NEW k \in Connection, Opens(k) PROVE IInv'
  <2>1. ReferencesAccounted' /\ \A j : Users(j)' = Users(j)
    BY <1>3, Untouched DEF Opens
  <2>2. TypeOK'
    BY <1>3 DEF Opens, TypeOK
  <2>3. Lives'
    BY <1>3 DEF Opens, TypeOK, Lives
  <2>4. Held'
    BY <1>3 DEF Opens, TypeOK, Held, Lives
  <2> QED BY <2>1, <2>2, <2>3, <2>4, <1>3 DEF Used, Opens
<1>4. ASSUME NEW u \in User, AcquireDisposed(u) PROVE IInv'
  <2>1. \A k : Users(k)' = Users(k)
    BY <1>4 DEF AcquireDisposed, Goto, Users, TypeOK
  <2>2. TypeOK' /\ Lives'
    BY <1>4 DEF AcquireDisposed, Goto, TypeOK, Lives
  <2>3. Held'
    BY <1>4 DEF AcquireDisposed, Goto, TypeOK, Held
  <2> QED BY <2>1, <2>2, <2>3, <1>4 DEF AcquireDisposed, Used, ReferencesAccounted
<1>5. ASSUME NEW u \in User, NEW k \in Connection, AcquireFirst(u, k) PROVE IInv'
  <2>1. ReferencesAccounted' /\ u \in Users(k)'
    BY <1>5, Joining DEF AcquireFirst
  <2>2. TypeOK'
    BY <1>5 DEF AcquireFirst, Join, Goto, TypeOK
  <2>3. Lives'
    BY <1>5, SharedAssumption DEF AcquireFirst, Join, TypeOK, Lives
  <2>4. Held'
    BY <1>5 DEF AcquireFirst, Join, Goto, TypeOK, Held
  <2> QED BY <2>1, <2>2, <2>3, <2>4, <1>5 DEF AcquireFirst, Used
<1>6. ASSUME NEW u \in User, AcquireEntry(u) PROVE IInv'
  <2>1. PICK k \in Connection : k = entry
    BY <1>6 DEF AcquireEntry, TypeOK
  <2>2. pc[u] = "idle" /\ Join(u, k) /\ UNCHANGED <<entry, initial>>
    BY <1>6, <2>1 DEF AcquireEntry
  <2>3. ReferencesAccounted' /\ u \in Users(k)'
    BY <2>2, Joining
  <2>4. TypeOK'
    BY <2>2 DEF Join, Goto, TypeOK
  <2>5. Lives'
    BY <2>2 DEF Join, Lives
  <2>6. Held'
    BY <2>1, <2>2 DEF Join, Goto, TypeOK, Held, Lives
  <2>7. Used'
    BY <2>1, <2>2, <2>3 DEF Used
  <2> QED BY <2>3, <2>4, <2>5, <2>6, <2>7
<1>7. ASSUME NEW u \in User, Leased(u) PROVE IInv'
  <2>1. \A k : Users(k)' = Users(k)
    BY <1>7 DEF Leased, Goto, Users, TypeOK
  <2>2. TypeOK' /\ Lives'
    BY <1>7 DEF Leased, Goto, TypeOK, Lives
  <2>3. Held'
    BY <1>7 DEF Leased, Goto, TypeOK, Held
  <2> QED BY <2>1, <2>2, <2>3, <1>7 DEF Leased, Used, ReferencesAccounted
<1>8. ASSUME NEW u \in User, AcquireFails(u) PROVE IInv'
  <2>1. current[u] \in Connection
    BY <1>8 DEF AcquireFails, Held
  <2>2. /\ ReferencesAccounted' /\ references' \in [Connection -> Nat]
        /\ \A j \in Connection : j # current[u] => Users(j)' = Users(j)
    BY <1>8, <2>1, Leaving DEF AcquireFails
  <2>3. TypeOK'
    BY <1>8, <2>1, <2>2 DEF AcquireFails, Goto, Drop, Forget, CloseEntry, TypeOK
  <2>4. Lives'
    BY <1>8, <2>1, SharedAssumption DEF AcquireFails, Drop, Forget, CloseEntry, TypeOK, Lives, Held
  <2>5. Held'
    BY <1>8, <2>1 DEF AcquireFails, Goto, Drop, CloseEntry, TypeOK, Held
  <2>6. Used'
    BY <1>8, <2>2 DEF AcquireFails, Forget, Used, TypeOK
  <2> QED BY <2>2, <2>3, <2>4, <2>5, <2>6
<1>9. ASSUME NEW u \in User, Release(u) PROVE IInv'
  <2>1. current[u] \in Connection
    BY <1>9 DEF Release, Held
  <2>2. /\ ReferencesAccounted' /\ references' \in [Connection -> Nat]
        /\ Users(current[u])' = Users(current[u]) \ {u}
        /\ \A j \in Connection : j # current[u] => Users(j)' = Users(j)
        /\ references[current[u]] = 1 <=> Users(current[u])' = {}
    BY <1>9, <2>1, Leaving DEF Release
  <2>3. TypeOK'
    BY <1>9, <2>1, <2>2 DEF Release, Goto, Drop, Forget, CloseEntry, TypeOK
  <2>4. Lives'
    BY <1>9, <2>1, SharedAssumption DEF Release, Drop, Forget, CloseEntry, TypeOK, Lives, Held
  <2>5. Held'
    <3>1. \A v \in User : v # u /\ pc[v] \in {"awaiting", "leased"} /\ current[v] = current[u]
                          => references[current[u]] # 1
      BY <2>2 DEF Users
    <3> QED BY <1>9, <2>1, <3>1 DEF Release, Goto, Drop, CloseEntry, TypeOK, Held
  <2>6. Used'
    BY <1>9, <2>2 DEF Release, Forget, Used, TypeOK
  <2> QED BY <2>2, <2>3, <2>4, <2>5, <2>6
<1> QED BY <1>1, <1>2, <1>3, <1>4, <1>5, <1>6, <1>7, <1>8, <1>9 DEF Next

\* The inductive invariant holds throughout.
THEOREM Invariance == Spec => []IInv
BY Initially, Step, PTL DEF Spec

\* The type invariant: in particular, no count goes below zero.
THEOREM TypeCorrect == Spec => []TypeOK
<1>1. IInv => TypeOK
  BY DEF IInv
<1> QED BY <1>1, Invariance, PTL

\* Each count is the number of users of its connection: acquire() and
\* release() lose and double none, whatever fails in between.
THEOREM CountsAccurate == Spec => []ReferencesAccounted
<1>1. IInv => ReferencesAccounted
  BY DEF IInv
<1> QED BY <1>1, Invariance, PTL

\* At most one connection is open, it is the entry and it has a user: the last
\* release and dispose() leave none behind.
THEOREM OneOpenConnection == Spec => []OnlyEntryIsOpen
<1>1. IInv => OnlyEntryIsOpen
  BY SharedAssumption DEF IInv, Lives, Used, OnlyEntryIsOpen
<1> QED BY <1>1, Invariance, PTL

\* A leased connection is closed by dispose() only.
THEOREM LeasesStayOpen == Spec => []LeaseIsOpen
<1>1. IInv => LeaseIsOpen
  BY DEF IInv, Held, LeaseIsOpen
<1> QED BY <1>1, Invariance, PTL
=============================================================================
