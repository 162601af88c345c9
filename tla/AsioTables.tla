------------------------------ MODULE AsioTables ------------------------------
(***************************************************************************)
(* What asioFdSet, asioFdUnset and poll do to the two tables of asio.c,    *)
(* whatever the callbacks' arguments are: lemmas for the event loop's own  *)
(* proofs and for those of its clients.                                    *)
(***************************************************************************)
EXTENDS Asio, SequenceTheorems, FiniteSetTheorems, TLAPS

Fd          == FirstFd .. MaxFd - 1
Entries     == [fd : Fd, revents : BOOLEAN]
Contexts(A) == [fd : Fd, args : A, timed : BOOLEAN]

TablesTyped(A) == pfds \in Seq(Entries) /\ pfds_ctx \in Seq(Contexts(A))

SameSockets ==
  /\ Len(pfds_ctx) = Len(pfds)
  /\ \A k \in 1 .. Len(pfds) : pfds[k].fd = pfds_ctx[k].fd
  /\ \A k, n \in 1 .. Len(pfds) : pfds[k].fd = pfds[n].fd => k = n

(* socket(2) finds the least of the free descriptors: there is one.        *)
LEMMA LeastOfSet ==
  ASSUME NEW S \in SUBSET Int, IsFiniteSet(S), S # {}
  PROVE  Min(S) \in S /\ \A y \in S : Min(S) <= y
<1> DEFINE Below(x) == {y \in S : y <= x}
           T == {Below(x) : x \in S}
<1>1. IsWellFoundedOn(StrictSubsetOrdering(S), FiniteSubsetsOf(S))
  BY FS_StrictSubsetOrderingWellFounded
<1>2. \A x \in S : Below(x) \in FiniteSubsetsOf(S)
  BY FS_Subset DEF FiniteSubsetsOf
<1>3. T \subseteq FiniteSubsetsOf(S) /\ T # {}
  BY <1>2
<1> HIDE DEF T
<1>4. PICK D \in T : \A E \in T : <<E, D>> \notin StrictSubsetOrdering(S)
  BY <1>1, <1>3, WFMin
<1>5. PICK x \in S : D = Below(x)
  BY DEF T
<1>6. ASSUME NEW y \in S, ~ (x <= y)  PROVE FALSE
  <2>1. Below(y) \in T
    BY DEF T
  <2>2. x \in Int /\ y \in Int /\ y <= x /\ x <= x /\ ~ (x <= y)
    BY <1>6
  <2>3. \A z \in S : z <= y => z <= x
    <3> TAKE z \in S
    <3>1. z \in Int
      OBVIOUS
    <3> QED
      BY <2>2, <3>1
  <2>4. Below(y) \subseteq Below(x) /\ Below(y) # Below(x)
    <3>1. x \in Below(x) /\ x \notin Below(y)
      BY <2>2
    <3> QED
      BY <2>3, <3>1
  <2>5. <<Below(y), Below(x)>> \in StrictSubsetOrdering(S)
    BY <2>4 DEF StrictSubsetOrdering
  <2> QED
    BY <1>4, <1>5, <2>1, <2>5
<1> QED
  BY <1>6 DEF Min

(* So the descriptor it returns is a free one.                            *)
LEMMA NewFdIsFree ==
  ASSUME AsioAssumption, Free # {}
  PROVE  NewFd \in Free
<1>1. IsFiniteSet(FirstFd .. FdLimit - 1) /\ FirstFd .. FdLimit - 1 \in SUBSET Int
  BY FS_Interval DEF AsioAssumption
<1>2. IsFiniteSet(Free) /\ Free \in SUBSET Int
  BY <1>1, FS_Subset DEF Free
<1> QED
  BY <1>2, LeastOfSet DEF NewFd

(* A power of two is a number: it counts the subsets of a set.             *)
LEMMA PowerOfTwo ==
  ASSUME NEW k \in Nat
  PROVE  2 ^ k \in Nat \ {0}
<1>1. IsFiniteSet(1 .. k) /\ Cardinality(1 .. k) = k
  <2>1. IsFiniteSet(1 .. k) /\ Cardinality(1 .. k) = IF 1 > k THEN 0 ELSE k - 1 + 1
    BY FS_Interval
  <2> QED
    BY <2>1
<1>2. IsFiniteSet(SUBSET (1 .. k)) /\ Cardinality(SUBSET (1 .. k)) = 2 ^ k
  BY <1>1, FS_SUBSET
<1>3. /\ Cardinality(SUBSET (1 .. k)) \in Nat
      /\ Cardinality(SUBSET (1 .. k)) = 0 <=> SUBSET (1 .. k) = {}
  BY <1>2, FS_CardinalityType, FS_EmptySet
<1> QED
  BY <1>2, <1>3

(* Moving the last entry into the freed slot.                              *)
LEMMA DropKeeps ==
  ASSUME NEW E, NEW s \in Seq(E), NEW k \in 1 .. Len(s)
  PROVE  /\ Drop(s, k) \in Seq(E)
         /\ Len(Drop(s, k)) = Len(s) - 1
         /\ \A n \in 1 .. Len(s) - 1 :
              Drop(s, k)[n] = IF n = k THEN s[Len(s)] ELSE s[n]
<1>1. Len(s) - 1 \in Nat /\ \A n \in 1 .. Len(s) : s[n] \in E
  BY LenProperties, ElementOfSeq
<1>2. Drop(s, k) \in [1 .. Len(s) - 1 -> E]
  BY <1>1 DEF Drop
<1>3. Drop(s, k) \in Seq(E)
  BY <1>1, <1>2, SeqDef
<1>4. DOMAIN Drop(s, k) = 1 .. Len(s) - 1
  BY DEF Drop
<1>5. Len(Drop(s, k)) = Len(s) - 1
  BY <1>1, <1>3, <1>4, LenProperties
<1> QED
  BY <1>1, <1>3, <1>5 DEF Drop

(* What the sequence operators do to the tables.                           *)
LEMMA RegisteredIs ==
  ASSUME NEW CONSTANT A, TablesTyped(A)
  PROVE  /\ Len(pfds) \in Nat
         /\ DOMAIN pfds = 1 .. Len(pfds)
         /\ Registered = {pfds[k].fd : k \in 1 .. Len(pfds)}
         /\ \A k \in 1 .. Len(pfds) : pfds[k] \in Entries
  BY LenProperties, ElementOfSeq DEF TablesTyped, Registered

(* The same after a step.                                                  *)
LEMMA RegisteredNext ==
  ASSUME NEW CONSTANT A, TablesTyped(A)'
  PROVE  /\ Len(pfds') \in Nat
         /\ DOMAIN pfds' = 1 .. Len(pfds')
         /\ Registered' = {pfds'[k].fd : k \in 1 .. Len(pfds')}
         /\ \A k \in 1 .. Len(pfds') : pfds'[k] \in Entries
  BY LenProperties, ElementOfSeq DEF TablesTyped, Registered

(* And for the second table.                                               *)
LEMMA ContextsAre ==
  ASSUME NEW CONSTANT A, TablesTyped(A), SameSockets
  PROVE  /\ DOMAIN pfds_ctx = 1 .. Len(pfds)
         /\ \A k \in 1 .. Len(pfds) : pfds_ctx[k] \in Contexts(A)
  BY LenProperties, ElementOfSeq DEF TablesTyped, SameSockets

(* Different descriptors below MAX_FD are fewer than MAX_FD.               *)
LEMMA FewSockets ==
  ASSUME AsioAssumption, NEW s \in Seq(Entries),
         \A k, n \in 1 .. Len(s) : s[k].fd = s[n].fd => k = n,
         NEW S, S \subseteq {s[k].fd : k \in 1 .. Len(s)}
  PROVE  /\ Len(s) \in 0 .. MaxFd - FirstFd
         /\ IsFiniteSet(S)
         /\ Cardinality(S) \in 0 .. MaxFd - FirstFd
<1> DEFINE fds == [k \in 1 .. Len(s) |-> s[k].fd]
<1>1. Len(s) \in Nat /\ \A k \in 1 .. Len(s) : s[k].fd \in Fd
  <2>1. Len(s) \in Nat /\ \A k \in 1 .. Len(s) : s[k] \in Entries
    BY LenProperties, ElementOfSeq
  <2> QED
    BY <2>1 DEF Entries
<1>2. fds \in Injection(1 .. Len(s), Fd)
  BY <1>1 DEF Injection, IsInjective
<1>3. IsFiniteSet(Fd) /\ Cardinality(Fd) = MaxFd - FirstFd
  BY FS_Interval DEF Fd, AsioAssumption
<1> HIDE DEF fds
<1>4. Cardinality(1 .. Len(s)) <= MaxFd - FirstFd
  BY <1>2, <1>3, FS_Injection
<1>5. Cardinality(1 .. Len(s)) = Len(s)
  <2>1. Len(s) \in Int /\ 1 \in Int
    BY <1>1
  <2>2. Cardinality(1 .. Len(s)) = IF 1 > Len(s) THEN 0 ELSE Len(s) - 1 + 1
    BY <2>1, FS_Interval
  <2> QED
    BY <1>1, <2>2
<1>6. S \in SUBSET Fd
  BY <1>1
<1>7. IsFiniteSet(S) /\ Cardinality(S) <= MaxFd - FirstFd
  BY <1>3, <1>6, FS_Subset
<1>8. Cardinality(S) \in Nat
  BY <1>7, FS_CardinalityType
<1> QED
  BY <1>1, <1>4, <1>5, <1>7, <1>8 DEF AsioAssumption

(* So the arrays, whose length asioFdSet never checks, cannot overflow.    *)
LEMMA TablesBounded ==
  ASSUME AsioAssumption, NEW CONSTANT A, TablesTyped(A), SameSockets
  PROVE  TablesAgree
<1>1. Len(pfds) \in 0 .. MaxFd - FirstFd
  BY FewSockets DEF TablesTyped, SameSockets
<1>2. Len(pfds) < MaxFd
  BY <1>1 DEF AsioAssumption
<1> QED
  BY <1>2, RegisteredIs DEF SameSockets, TablesAgree

(* An entry more, and an entry less: entry p is gone, and the last one has *)
(* its place.                                                              *)
Appended(fd, args, timed) ==
  /\ Len(pfds') = Len(pfds) + 1
  /\ \A k \in 1 .. Len(pfds) : pfds'[k] = pfds[k] /\ pfds_ctx'[k] = pfds_ctx[k]
  /\ pfds'[Len(pfds) + 1] = [fd |-> fd, revents |-> FALSE]
  /\ pfds_ctx'[Len(pfds) + 1] = [fd |-> fd, args |-> args, timed |-> timed]
  /\ Registered' = Registered \cup {fd}

Removed(fd, p) ==
  /\ pfds[p].fd = fd
  /\ Len(pfds') = Len(pfds) - 1
  /\ \A n \in 1 .. Len(pfds) - 1 :
       /\ pfds'[n] = IF n = p THEN pfds[Len(pfds)] ELSE pfds[n]
       /\ pfds_ctx'[n] = IF n = p THEN pfds_ctx[Len(pfds)] ELSE pfds_ctx[n]
  /\ Registered' = Registered \ {fd}

(* asioFdSet appends to both tables.                                       *)
LEMMA SetShape ==
  ASSUME NEW CONSTANT A, TablesTyped(A), SameSockets, NEW fd \in Fd, NEW args \in A,
         NEW timed \in BOOLEAN, fd \notin Registered,
         asioFdSet(fd, args, timed)
  PROVE  TablesTyped(A)' /\ SameSockets' /\ Appended(fd, args, timed)
<1> DEFINE entry == [fd |-> fd, revents |-> FALSE]
           context == [fd |-> fd, args |-> args, timed |-> timed]
<1>1. entry \in Entries /\ context \in Contexts(A)
  BY DEF Entries, Contexts
<1>2. pfds' = Append(pfds, entry) /\ pfds_ctx' = Append(pfds_ctx, context)
  BY DEF asioFdSet
<1>3. entry.fd = fd /\ context.fd = fd
  OBVIOUS
<1> HIDE DEF entry, context
<1>4. /\ pfds' \in Seq(Entries)
      /\ Len(pfds') = Len(pfds) + 1
      /\ \A k \in 1 .. Len(pfds) : pfds'[k] = pfds[k]
      /\ pfds'[Len(pfds) + 1] = entry
  BY <1>1, <1>2, AppendProperties DEF TablesTyped
<1>5. /\ pfds_ctx' \in Seq(Contexts(A))
      /\ Len(pfds_ctx') = Len(pfds_ctx) + 1
      /\ \A k \in 1 .. Len(pfds_ctx) : pfds_ctx'[k] = pfds_ctx[k]
      /\ pfds_ctx'[Len(pfds_ctx) + 1] = context
  BY <1>1, <1>2, AppendProperties DEF TablesTyped
<1>6. TablesTyped(A)'
  BY <1>4, <1>5 DEF TablesTyped
<1>7. \A k \in 1 .. Len(pfds') : k = Len(pfds) + 1 \/ k \in 1 .. Len(pfds)
  BY <1>4, RegisteredIs
<1>8. \A k \in 1 .. Len(pfds) : pfds[k].fd # fd
  BY RegisteredIs
<1>9. SameSockets'
  <2>1. Len(pfds_ctx') = Len(pfds')
    BY <1>4, <1>5 DEF SameSockets
  <2>2. \A k \in 1 .. Len(pfds') : pfds'[k].fd = pfds_ctx'[k].fd
    BY <1>3, <1>4, <1>5, <1>7 DEF SameSockets
  <2>3. \A k, n \in 1 .. Len(pfds') : pfds'[k].fd = pfds'[n].fd => k = n
    BY <1>3, <1>4, <1>7, <1>8 DEF SameSockets
  <2> QED
    BY <2>1, <2>2, <2>3 DEF SameSockets
<1>10. Registered' = Registered \cup {fd}
  <2>1. Len(pfds) + 1 \in 1 .. Len(pfds') /\ 1 .. Len(pfds) \subseteq 1 .. Len(pfds')
    BY <1>4, RegisteredIs
  <2> QED
    BY <1>3, <1>4, <1>6, <1>7, <2>1, RegisteredIs, RegisteredNext
<1> QED
  BY <1>4, <1>5, <1>6, <1>9, <1>10 DEF entry, context, SameSockets, Appended

(* asioFdUnset of a registered socket removes its entry, and no other,     *)
(* from both tables.                                                       *)
LEMMA UnsetShape ==
  ASSUME NEW CONSTANT A, TablesTyped(A), SameSockets, NEW fd \in Registered, asioFdUnset(fd)
  PROVE  /\ TablesTyped(A)' /\ SameSockets'
         /\ \E p \in 1 .. Len(pfds) : Removed(fd, p)
<1> DEFINE p == Position(fd)
           last == Len(pfds)
<1>1. p \in 1 .. last /\ pfds[p].fd = fd
  BY RegisteredIs DEF Position, Registered
<1>2. pfds' = Drop(pfds, p) /\ pfds_ctx' = Drop(pfds_ctx, p)
  BY DEF asioFdUnset
<1> HIDE DEF p
<1>3. /\ pfds' \in Seq(Entries)
      /\ Len(pfds') = last - 1
      /\ \A n \in 1 .. last - 1 :
           pfds'[n] = IF n = p THEN pfds[last] ELSE pfds[n]
  BY <1>1, <1>2, DropKeeps DEF TablesTyped
<1>4. /\ pfds_ctx' \in Seq(Contexts(A))
      /\ Len(pfds_ctx') = last - 1
      /\ \A n \in 1 .. last - 1 :
           pfds_ctx'[n] = IF n = p THEN pfds_ctx[last] ELSE pfds_ctx[n]
  <2>1. Len(pfds_ctx) = last
    BY DEF SameSockets
  <2>2. p \in 1 .. Len(pfds_ctx) /\ pfds_ctx \in Seq(Contexts(A))
    BY <1>1, <2>1 DEF TablesTyped
  <2>3. /\ pfds_ctx' \in Seq(Contexts(A))
        /\ Len(pfds_ctx') = Len(pfds_ctx) - 1
        /\ \A n \in 1 .. Len(pfds_ctx) - 1 :
             pfds_ctx'[n] = IF n = p THEN pfds_ctx[Len(pfds_ctx)] ELSE pfds_ctx[n]
    BY <1>2, <2>2, DropKeeps
  <2> QED
    BY <2>1, <2>3
<1>5. TablesTyped(A)'
  BY <1>3, <1>4 DEF TablesTyped
<1>6. last \in Nat \ {0}
  <2>1. last \in Nat
    BY RegisteredIs
  <2> QED
    BY <1>1, <2>1
<1>7. last \in 1 .. last /\ \A n \in 1 .. last - 1 : n \in 1 .. last /\ n # last
  BY <1>6
<1>8. SameSockets'
  <2>1. Len(pfds_ctx') = Len(pfds')
    BY <1>3, <1>4
  <2>2. \A k \in 1 .. last - 1 : pfds'[k].fd = pfds_ctx'[k].fd
    BY <1>3, <1>4, <1>7 DEF SameSockets
  <2>3. \A k, n \in 1 .. last - 1 : pfds'[k].fd = pfds'[n].fd => k = n
    BY <1>1, <1>3, <1>6, <1>7 DEF SameSockets
  <2> QED
    BY <1>3, <2>1, <2>2, <2>3 DEF SameSockets
<1>9. Registered' = Registered \ {fd}
  <2>1. ASSUME NEW n \in 1 .. last - 1
        PROVE  pfds'[n].fd \in Registered \ {fd}
    <3>1. PICK m \in 1 .. last : m # p /\ pfds'[n] = pfds[m]
      BY <1>3, <1>7
    <3>2. pfds[m].fd # fd
      BY <1>1, <3>1 DEF SameSockets
    <3> QED
      BY <3>1, <3>2, RegisteredIs
  <2>2. ASSUME NEW k \in 1 .. last, pfds[k].fd # fd
        PROVE  \E n \in 1 .. last - 1 : pfds'[n].fd = pfds[k].fd
    <3>1. CASE k = last
      <4>1. p \in 1 .. last - 1
        BY <1>1, <1>6, <2>2, <3>1
      <4> QED
        BY <1>3, <3>1, <4>1
    <3>2. CASE k # last
      <4>1. k \in 1 .. last - 1 /\ k # p
        BY <1>1, <1>6, <2>2, <3>2
      <4> QED
        BY <1>3, <4>1
    <3> QED
      BY <3>1, <3>2
  <2>3. Registered' = {pfds'[n].fd : n \in 1 .. last - 1}
    BY <1>3, <1>5, RegisteredNext
  <2>4. Registered = {pfds[n].fd : n \in 1 .. last}
    BY RegisteredIs
  <2> HIDE DEF last
  <2> QED
    BY <2>1, <2>2, <2>3, <2>4
<1> QED
  BY <1>1, <1>3, <1>4, <1>5, <1>8, <1>9 DEF Removed

(* poll stores into revents, and nothing else.                             *)
LEMMA PollShape ==
  ASSUME NEW CONSTANT A, TablesTyped(A), SameSockets, NEW ready, Poll(ready)
  PROVE  /\ TablesTyped(A)'
         /\ SameSockets'
         /\ Registered' = Registered
         /\ Len(pfds') = Len(pfds)
         /\ \A k \in 1 .. Len(pfds) :
              /\ pfds'[k].fd = pfds[k].fd
              /\ pfds'[k].revents = (pfds[k].fd \in ready)
<1>1. pfds' = [k \in 1 .. Len(pfds) |->
                 [pfds[k] EXCEPT !.revents = pfds[k].fd \in ready]]
  BY RegisteredIs DEF Poll
<1>2. \A k \in 1 .. Len(pfds) : /\ pfds'[k] \in Entries
                                /\ pfds'[k].fd = pfds[k].fd
                                /\ pfds'[k].revents = (pfds[k].fd \in ready)
  <2> TAKE k \in 1 .. Len(pfds)
  <2>1. pfds'[k] = [pfds[k] EXCEPT !.revents = pfds[k].fd \in ready]
    BY <1>1
  <2>2. pfds[k] \in Entries /\ (pfds[k].fd \in ready) \in BOOLEAN
    BY RegisteredIs
  <2> QED
    BY <2>1, <2>2 DEF Entries
<1>3. pfds' \in [1 .. Len(pfds) -> Entries]
  BY <1>1, <1>2
<1>4. pfds' \in Seq(Entries)
  BY <1>3, RegisteredIs, SeqDef
<1>5. Len(pfds') = Len(pfds)
  BY <1>3, <1>4, RegisteredIs, LenProperties
<1>6. TablesTyped(A)' /\ UNCHANGED pfds_ctx
  BY <1>4 DEF TablesTyped, Poll
<1>7. SameSockets'
  BY <1>2, <1>5, <1>6 DEF SameSockets
<1>8. Registered' = Registered
  BY <1>2, <1>5, <1>6, RegisteredIs, RegisteredNext
<1> QED
  BY <1>2, <1>5, <1>6, <1>7, <1>8

(* A step that leaves the tables alone.                                    *)
LEMMA TablesQuiet ==
  ASSUME NEW CONSTANT A, TablesTyped(A), SameSockets, UNCHANGED tables
  PROVE  TablesTyped(A)' /\ SameSockets' /\ Registered' = Registered
  BY DEF tables, TablesTyped, SameSockets, Registered
===============================================================================
