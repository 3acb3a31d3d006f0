---------------------------- MODULE Placement_proofs ----------------------------
(***************************************************************************)
(* Proofs about Placement for every value of its constants.  Files are      *)
(* finitely many, so facts about sums are proved by the least of the sets   *)
(* for which they would fail.                                               *)
(***************************************************************************)
EXTENDS Placement, FiniteSetTheorems, SequenceTheorems, TLAPS

\* The recursive function behind MapThenSumSet.
First(s) == CHOOSE x \in s : TRUE
Sums(w, S, g) ==
  g = [s \in SUBSET S |-> IF s = {} THEN 0 ELSE w[First(s)] + g[s \ {First(s)}]]

\* Induction over finite sets: among subsets there is a smallest one.
LEMMA SmallestSubset ==
  ASSUME NEW S, IsFiniteSet(S), NEW Some \in SUBSET SUBSET S, Some # {}
  PROVE  \E x \in Some : \A y \in Some : y \subseteq x => y = x
<1>1. IsWellFoundedOn(StrictSubsetOrdering(S), SUBSET S)
  BY FS_StrictSubsetOrderingWellFounded, FS_FiniteSubsetsOfFinite
<1>2. PICK x \in Some : \A y \in Some : ~ (<<y, x>> \in StrictSubsetOrdering(S))
  BY <1>1, WFMin
<1>3. \A y \in Some : y \subseteq x => y = x
  BY <1>2 DEF StrictSubsetOrdering
<1> QED BY <1>3

LEMMA SumsUnique ==
  ASSUME NEW w, NEW S, NEW T, NEW g, NEW h, Sums(w, S, g), Sums(w, T, h),
         NEW U, U \subseteq S, U \subseteq T, IsFiniteSet(U)
  PROVE  g[U] = h[U]
<1> DEFINE Differ == {s \in SUBSET U : g[s] # h[s]}
<1> SUFFICES ASSUME Differ # {} PROVE FALSE
  OBVIOUS
<1>0. Differ \in SUBSET SUBSET U
  OBVIOUS
<1>1. PICK x \in Differ : \A y \in Differ : y \subseteq x => y = x
  <2> HIDE DEF Differ
  <2> QED BY <1>0, SmallestSubset
<1>2. /\ g[x] = IF x = {} THEN 0 ELSE w[First(x)] + g[x \ {First(x)}]
      /\ h[x] = IF x = {} THEN 0 ELSE w[First(x)] + h[x \ {First(x)}]
  BY DEF Sums
<1>3. x # {}
  BY <1>2
<1>4. First(x) \in x
  BY <1>3 DEF First
<1>5. x \ {First(x)} \notin Differ
  BY <1>1, <1>4
<1> QED BY <1>2, <1>3, <1>5

LEMMA SumsExist ==
  ASSUME NEW w, NEW S, IsFiniteSet(S)
  PROVE  \E g : Sums(w, S, g)
<1> DEFINE Without == {s \in SUBSET S : ~ \E g : Sums(w, s, g)}
<1> SUFFICES ASSUME Without # {} PROVE FALSE
  OBVIOUS
<1>0. Without \in SUBSET SUBSET S
  OBVIOUS
<1>1. PICK x \in Without : \A y \in Without : y \subseteq x => y = x
  <2> HIDE DEF Without
  <2> QED BY <1>0, SmallestSubset
<1> DEFINE Value(s) == (CHOOSE g : Sums(w, s, g))[s]
           Last == IF x = {} THEN 0 ELSE w[First(x)] + Value(x \ {First(x)})
           all == [s \in SUBSET x |-> IF s = x THEN Last ELSE Value(s)]
<1>2. \A s \in SUBSET x : s # x => Sums(w, s, CHOOSE g : Sums(w, s, g))
  <2> TAKE s \in SUBSET x
  <2> HAVE s # x
  <2>1. \E g : Sums(w, s, g)
    BY <1>1
  <2> QED BY <2>1
<1>3. \A s \in SUBSET x : s # {} => First(s) \in s
  BY DEF First
<1>4. \A s \in SUBSET x : s # x =>
        Value(s) = IF s = {} THEN 0 ELSE w[First(s)] + Value(s \ {First(s)})
  <2> TAKE s \in SUBSET x
  <2> HAVE s # x
  <2> DEFINE g == CHOOSE g : Sums(w, s, g)
             r == s \ {First(s)}
             h == CHOOSE h : Sums(w, r, h)
  <2> HIDE DEF g, h
  <2>1. Sums(w, s, g)
    BY <1>2 DEF g
  <2>2. g[s] = IF s = {} THEN 0 ELSE w[First(s)] + g[r]
    BY <2>1 DEF Sums
  <2>3. CASE s = {}
    BY <2>2, <2>3 DEF g
  <2>4. CASE s # {}
    <3>1. r \in SUBSET x /\ r # x
      BY <1>3, <2>4
    <3>2. Sums(w, r, h)
      BY <1>2, <3>1 DEF h
    <3>3. IsFiniteSet(r)
      BY FS_Subset, <3>1
    <3>4. g[r] = h[r]
      BY <2>1, <3>2, <3>3, SumsUnique
    <3> QED BY <2>2, <2>4, <3>4 DEF g, h
  <2> QED BY <2>3, <2>4
<1>5. Sums(w, x, all)
  <2> SUFFICES all = [s \in SUBSET x |->
                        IF s = {} THEN 0 ELSE w[First(s)] + all[s \ {First(s)}]]
    BY DEF Sums
  <2> HIDE DEF Value
  <2>1. \A s \in SUBSET x : s # {} => s \ {First(s)} \in SUBSET x /\ s \ {First(s)} # x
    BY <1>3
  <2>2. \A s \in SUBSET x : all[s] = IF s = {} THEN 0 ELSE w[First(s)] + all[s \ {First(s)}]
    BY <1>4, <2>1
  <2> HIDE DEF all
  <2> DEFINE rhs == [s \in SUBSET x |-> IF s = {} THEN 0 ELSE w[First(s)] + all[s \ {First(s)}]]
  <2>3. all = [s \in SUBSET x |-> all[s]]
    BY DEF all
  <2>4. \A s \in SUBSET x : all[s] = rhs[s]
    BY <2>2
  <2>5. rhs = [s \in SUBSET x |-> rhs[s]]
    OBVIOUS
  <2> QED BY <2>3, <2>4, <2>5
<1> QED BY <1>1, <1>5

LEMMA SumRec ==
  ASSUME NEW w, NEW S, IsFiniteSet(S)
  PROVE  SumOf(w, S) = IF S = {} THEN 0 ELSE w[First(S)] + SumOf(w, S \ {First(S)})
<1> DEFINE R == S \ {First(S)}
           g == CHOOSE g : Sums(w, S, g)
           h == CHOOSE h : Sums(w, R, h)
<1>1. SumOf(w, S) = g[S] /\ SumOf(w, R) = h[R]
  BY DEF SumOf, MapThenSumSet, MapThenFoldSet, Sums, First
<1>2. Sums(w, S, g)
  BY SumsExist
<1>3. IsFiniteSet(R)
  BY FS_RemoveElement
<1>4. Sums(w, R, h)
  BY <1>3, SumsExist
<1> HIDE DEF g, h
<1>5. g[R] = h[R]
  BY <1>2, <1>3, <1>4, SumsUnique
<1>6. g[S] = IF S = {} THEN 0 ELSE w[First(S)] + g[R]
  BY <1>2 DEF Sums
<1> QED BY <1>1, <1>5, <1>6

LEMMA SumEmpty == ASSUME NEW w PROVE SumOf(w, {}) = 0
BY SumRec, FS_EmptySet

LEMMA SumNat ==
  ASSUME NEW S, IsFiniteSet(S), NEW w, \A x \in S : w[x] \in Nat
  PROVE  SumOf(w, S) \in Nat
<1> DEFINE Wrong == {s \in SUBSET S : SumOf(w, s) \notin Nat}
<1> SUFFICES ASSUME Wrong # {} PROVE FALSE
  OBVIOUS
<1>0. Wrong \in SUBSET SUBSET S
  OBVIOUS
<1>1. PICK x \in Wrong : \A y \in Wrong : y \subseteq x => y = x
  <2> HIDE DEF Wrong
  <2> QED BY <1>0, SmallestSubset
<1>2. IsFiniteSet(x)
  BY FS_Subset
<1>3. SumOf(w, x) = IF x = {} THEN 0 ELSE w[First(x)] + SumOf(w, x \ {First(x)})
  BY <1>2, SumRec
<1>4. x # {} /\ First(x) \in x
  BY <1>3 DEF First
<1>5. SumOf(w, x \ {First(x)}) \in Nat
  BY <1>1, <1>4
<1> QED BY <1>3, <1>4, <1>5

\* The sum does not depend on the order of its terms.
LEMMA SumRemove ==
  ASSUME NEW S, IsFiniteSet(S), NEW w, \A x \in S : w[x] \in Nat, NEW x \in S
  PROVE  SumOf(w, S) = w[x] + SumOf(w, S \ {x})
<1> DEFINE Fine(s) == \A y \in s : SumOf(w, s) = w[y] + SumOf(w, s \ {y})
           Wrong == {s \in SUBSET S : ~Fine(s)}
<1> SUFFICES ASSUME Wrong # {} PROVE FALSE
  OBVIOUS
<1>0. Wrong \in SUBSET SUBSET S
  OBVIOUS
<1>1. PICK s \in Wrong : \A t \in Wrong : t \subseteq s => t = s
  <2> HIDE DEF Wrong
  <2> QED BY <1>0, SmallestSubset
<1>2. PICK y \in s : SumOf(w, s) # w[y] + SumOf(w, s \ {y})
  BY <1>1
<1>3. \A t \in SUBSET S : IsFiniteSet(t) /\ SumOf(w, t) \in Nat
  BY FS_Subset, SumNat
<1> DEFINE z == First(s)
<1>4. SumOf(w, s) = w[z] + SumOf(w, s \ {z}) /\ z \in s
  BY <1>3, <1>2, SumRec DEF First
<1> HIDE DEF z
<1>5. z # y
  BY <1>2, <1>4
<1>6. Fine(s \ {z}) /\ Fine(s \ {y})
  BY <1>1, <1>2, <1>4
<1>7. /\ SumOf(w, s \ {z}) = w[y] + SumOf(w, (s \ {z}) \ {y})
      /\ SumOf(w, s \ {y}) = w[z] + SumOf(w, (s \ {y}) \ {z})
  BY <1>2, <1>4, <1>5, <1>6
<1>8. (s \ {z}) \ {y} = (s \ {y}) \ {z}
  OBVIOUS
<1>9. /\ w[y] \in Nat /\ w[z] \in Nat
      /\ SumOf(w, (s \ {z}) \ {y}) \in Nat
  BY <1>2, <1>3, <1>4
<1> DEFINE a == w[y]
           b == w[z]
           c == SumOf(w, (s \ {z}) \ {y})
           all == SumOf(w, s)
           rest == SumOf(w, s \ {y})
<1>10. all # a + rest
  BY <1>2
<1>11. all = b + (a + c)
  BY <1>4, <1>7
<1>12. rest = b + c
  BY <1>7, <1>8
<1>13. a \in Nat /\ b \in Nat /\ c \in Nat
  BY <1>9
<1> HIDE DEF a, b, c, all, rest
<1> QED BY <1>10, <1>11, <1>12, <1>13

LEMMA SumSubset ==
  ASSUME NEW S, IsFiniteSet(S), NEW w, \A x \in S : w[x] \in Nat, NEW T \in SUBSET S
  PROVE  SumOf(w, T) <= SumOf(w, S)
<1> DEFINE Wrong == {s \in SUBSET S : T \subseteq s /\ ~(SumOf(w, T) <= SumOf(w, s))}
<1> SUFFICES ASSUME Wrong # {} PROVE FALSE
  OBVIOUS
<1>0. Wrong \in SUBSET SUBSET S
  OBVIOUS
<1>1. PICK s \in Wrong : \A t \in Wrong : t \subseteq s => t = s
  <2> HIDE DEF Wrong
  <2> QED BY <1>0, SmallestSubset
<1>2. \A t \in SUBSET S : IsFiniteSet(t) /\ SumOf(w, t) \in Nat
  BY FS_Subset, SumNat
<1>3. PICK y \in s : y \notin T
  <2>1. T # s
    BY <1>1, <1>2
  <2> QED BY <1>1, <2>1
<1>4. SumOf(w, s) = w[y] + SumOf(w, s \ {y})
  BY <1>2, SumRemove
<1>5. SumOf(w, T) <= SumOf(w, s \ {y})
  BY <1>1, <1>3
<1> QED BY <1>1, <1>2, <1>3, <1>4, <1>5

-----------------------------------------------------------------------------
(* Accounts *)

LEMMA FilesFinite == ASSUME NEW S \in SUBSET File PROVE IsFiniteSet(S)
BY FileAssumption, FS_Subset

LEMMA MegabytesNat == ASSUME NEW f \in File PROVE Megabytes(f) \in Nat
<1>1. Size[f] \in Nat \ {0} /\ MB \in Nat \ {0}
  BY FileAssumption
<1> DEFINE n == Size[f] + MB - 1
<1>2. n \in Nat
  BY <1>1
<1> HIDE DEF n
<1>3. n \div MB \in Nat
  BY <1>1, <1>2
<1> QED BY <1>1, <1>3 DEF Megabytes, n

\* Rounded up, an upload's megabytes hold its bytes.
LEMMA RoundedUp ==
  ASSUME NEW n \in Nat \ {0}, NEW m \in Nat \ {0}
  PROVE  n <= ((n + m - 1) \div m) * m
<1> DEFINE k == n + m - 1
           q == k \div m
<1>1. k \in Nat
  OBVIOUS
<1> HIDE DEF k
<1>2. k < m * (k \div m) + m
  BY <1>1
<1>3. q \in Nat /\ q * m = m * q /\ q * m \in Nat
  BY <1>1
<1> HIDE DEF q
<1> DEFINE p == q * m
<1>4. k < p + m /\ p \in Nat
  BY <1>2, <1>3 DEF q
<1> HIDE DEF p
<1>5. n <= p
  BY <1>4 DEF k
<1> QED BY <1>5 DEF p, q, k

LEMMA MegabytesHold ==
  ASSUME NEW f \in Upload
  PROVE  Size[f] <= Megabytes(f) * MB
<1>1. Size[f] \in Nat \ {0} /\ MB \in Nat \ {0} /\ f \notin Record
  BY FileAssumption DEF File
<1> QED BY <1>1, RoundedUp DEF Megabytes

LEMMA AccountsNat ==
  ASSUME NEW S \in SUBSET File
  PROVE  MbOf(S) \in Nat /\ BytesOf(S) \in Nat
<1>1. \A f \in S : [f1 \in File |-> Megabytes(f1)][f] \in Nat /\ Size[f] \in Nat
  BY MegabytesNat, FileAssumption
<1> QED BY <1>1, FilesFinite, SumNat DEF MbOf, BytesOf

LEMMA AccountsAdd ==
  ASSUME NEW S \in SUBSET File, NEW f \in File \ S
  PROVE  /\ MbOf(S \cup {f}) = Megabytes(f) + MbOf(S)
         /\ BytesOf(S \cup {f}) = Size[f] + BytesOf(S)
<1> DEFINE m == [f1 \in File |-> Megabytes(f1)]
           T == S \cup {f}
<1>1. \A g \in T : m[g] \in Nat /\ Size[g] \in Nat
  BY MegabytesNat, FileAssumption
<1>2. IsFiniteSet(T) /\ f \in T /\ T \ {f} = S
  BY FilesFinite
<1>3. m[f] = Megabytes(f)
  OBVIOUS
<1> HIDE DEF m, T
<1>4. SumOf(m, T) = m[f] + SumOf(m, S) /\ SumOf(Size, T) = Size[f] + SumOf(Size, S)
  BY <1>1, <1>2, SumRemove
<1> QED BY <1>3, <1>4 DEF MbOf, BytesOf, m, T

LEMMA AccountsGrow ==
  ASSUME NEW S \in SUBSET File, NEW T \in SUBSET S
  PROVE  MbOf(T) <= MbOf(S) /\ BytesOf(T) <= BytesOf(S)
<1> DEFINE m == [f1 \in File |-> Megabytes(f1)]
<1>1. \A g \in S : m[g] \in Nat /\ Size[g] \in Nat
  BY MegabytesNat, FileAssumption
<1>2. IsFiniteSet(S)
  BY FilesFinite
<1> HIDE DEF m
<1>3. SumOf(m, T) <= SumOf(m, S) /\ SumOf(Size, T) <= SumOf(Size, S)
  BY <1>1, <1>2, SumSubset
<1> QED BY <1>3 DEF MbOf, BytesOf, m

\* The account of the rows covers the bytes of uploads.
LEMMA RowsCoverBytes ==
  ASSUME NEW S \in SUBSET Upload
  PROVE  BytesOf(S) <= MbOf(S) * MB
<1> DEFINE Wrong == {s \in SUBSET S : ~(BytesOf(s) <= MbOf(s) * MB)}
<1> SUFFICES ASSUME Wrong # {} PROVE FALSE
  OBVIOUS
<1>0. Wrong \in SUBSET SUBSET S /\ IsFiniteSet(S)
  BY FilesFinite DEF File
<1>1. PICK s \in Wrong : \A t \in Wrong : t \subseteq s => t = s
  <2> HIDE DEF Wrong
  <2> QED BY <1>0, SmallestSubset
<1>2. MB \in Nat \ {0}
  BY FileAssumption
<1>3. CASE s = {}
  <2>1. MbOf(s) = 0 /\ BytesOf(s) = 0
    BY <1>3, SumEmpty DEF MbOf, BytesOf
  <2> QED BY <1>1, <1>2, <2>1
<1>4. CASE s # {}
  <2>1. PICK f \in s : TRUE
    BY <1>4
  <2> DEFINE t == s \ {f}
             a == BytesOf(t)
             b == MbOf(t)
             c == Megabytes(f)
  <2>2. t \in SUBSET File /\ f \in File \ t /\ s = t \cup {f} /\ f \in Upload
    BY <1>1, <2>1 DEF File
  <2>3. BytesOf(t) <= MbOf(t) * MB
    BY <1>1, <2>1
  <2>4. MbOf(s) = Megabytes(f) + MbOf(t) /\ BytesOf(s) = Size[f] + BytesOf(t)
    BY <2>2, AccountsAdd
  <2>5. Size[f] <= Megabytes(f) * MB /\ Size[f] \in Nat
    BY <2>2, MegabytesHold, FileAssumption
  <2>6. a \in Nat /\ b \in Nat /\ c \in Nat
    BY <2>2, AccountsNat, MegabytesNat
  <2>7. ~(BytesOf(s) <= MbOf(s) * MB)
    BY <1>1
  <2> HIDE DEF a, b, c, t
  <2>8. (c + b) * MB = c * MB + b * MB
    BY <1>2, <2>6
  <2>9. c * MB \in Nat /\ b * MB \in Nat
    BY <1>2, <2>6
  <2> QED BY <2>3, <2>4, <2>5, <2>6, <2>7, <2>8, <2>9 DEF a, b, c
<1> QED BY <1>3, <1>4

-----------------------------------------------------------------------------
(* The inductive invariant *)

IsJob(v, i, op, f) ==
  i \in 1..Len(Queued(v)) /\ Queued(v)[i] = [op |-> op, file |-> f, on |-> v]
HasJob(v, f) == \E i \in Nat, op \in {"store", "erase"} : IsJob(v, i, op, f)
JobsAtHome == \A n \in Node : \A i \in 1..Len(work[n]) : Home[work[n][i].on] = n

\* A handler that has inserted its row and not queued its job yet.
Waiting(f) == request[f].pc \in {"path", "blob", "queue"}

\* A file is, or will be, in one place.
Spot(f, v) == \/ f \in stored[v] \/ v \in place[f] \/ HasJob(v, f)
              \/ Waiting(f) /\ v \in request[f].among
OneSpot == \A f \in File : \A v, w \in Volume : Spot(f, v) /\ Spot(f, w) => v = w

\* What is on a volume once the first k jobs of its node are done, but for the
\* files that a deletion has spared.
After(v, k) ==
  {f \in Upload \ spared :
     /\ f \in stored[v] \/ \E i \in 1..k : IsJob(v, i, "store", f)
     /\ \A i \in 1..k : ~IsJob(v, i, "erase", f)}
Final(v) == After(v, Len(Queued(v)))

\* A handler that has not inserted its row has left no trace of its file, and the
\* bytes follow its last step.
Unborn(f) == request[f].pc \in {"idle", "volumes", "used", "choose", "insert", "refused"}
Unstored(f) ==
  \A v \in Volume : f \notin stored[v] /\ \A i \in Nat : ~IsJob(v, i, "store", f)
Jobless(f) == \A v \in Volume : ~HasJob(v, f)
Fresh(f) == f \notin Touched \cup spared /\ Unstored(f) /\ Jobless(f)
Aimed(f) == place[f] = request[f].among /\ f \notin deleted /\ Jobless(f)
Births ==
  \A f \in File :
    /\ Unborn(f) => Fresh(f) /\ rows[f] = "none"
    /\ Waiting(f) => f \in Upload /\ Unstored(f) /\ (f \in spared \/ Aimed(f))
    /\ request[f].pc = "insert" \/ Waiting(f) => \E v \in Volume : request[f].among = {v}
    /\ ~Unborn(f) /\ f \notin Touched => rows[f] = "counted"
    /\ f \notin edited => rows[f] # "uncounted"
    /\ rows[f] = "none" <=> place[f] = {}
    /\ place[f] \subseteq volumes
    /\ editing[f] # "no" => rows[f] # "none"
    /\ editing[f] = "path" => f \in Upload
    /\ deleting[f] # "no" => f \in deleted

\* A file is stored before it is erased, and as long as it will be on a volume
\* its row says so and nobody is about to delete that row.
StoredFirst ==
  \A v \in Volume, f \in Upload \ spared : \A i, j \in Nat :
    IsJob(v, i, "store", f) /\ IsJob(v, j, "erase", f) => i < j
Rowed == \A v \in Volume : \A f \in Final(v) : place[f] = {v} /\ deleting[f] = "no"

\* The event loop runs one upload at a time.
Between(f) == request[f].pc \in RequestPc \ {"idle", "refused", "failed", "done"}
OneUpload == \A f, g \in Upload : Between(f) /\ Between(g) => f = g

\* The upload that has passed the check of the limit still fits into it.
Own == (Counted \cap Upload) \ Touched
LimitKept ==
  setting.limit > 0 =>
    /\ MbOf(Own) <= setting.limit
    /\ \A f \in Upload : Unborn(f) /\ Between(f) => MbOf(Own \cup {f}) <= setting.limit

\* What a request has found free on a volume still is, counted by what will be
\* there when every job has been done; and so is all that happens until then.
Bytes(v) == BytesOf(Final(v) \ edited)
RoomLeft ==
  \A f \in Upload :
    /\ request[f].pc = "choose" =>
         \A v \in Volume : request[f].free[v] > 0 => Bytes(v) + request[f].free[v] <= Quota[v]
    /\ request[f].pc = "insert" \/ Waiting(f) =>
         \A v \in request[f].among : Bytes(v) + Size[f] <= Quota[v]
QueueFits ==
  \A v \in Volume : \A k \in 0..Len(Queued(v)) : BytesOf(After(v, k) \ edited) <= Quota[v]

Typed == TypeOK /\ JobsAtHome
Traces == OneSpot /\ Births /\ StoredFirst /\ Rowed
PInv == Typed /\ Traces /\ OneUpload /\ LimitKept /\ RoomLeft /\ QueueFits


-----------------------------------------------------------------------------
(* The queues of the nodes *)

LEMMA QueueTypes ==
  ASSUME Typed, NEW v \in Volume
  PROVE  /\ Home[v] \in Node /\ Queued(v) \in Seq(Job) /\ Len(Queued(v)) \in Nat
         /\ \A i \in 1..Len(Queued(v)) : Queued(v)[i] \in Job
<1>1. Home[v] \in Node
  BY VolumeAssumption
<1>2. Queued(v) \in Seq(Job)
  BY <1>1 DEF Typed, TypeOK, Queued
<1> QED BY <1>1, <1>2, LenProperties, ElementOfSeq

\* A job joins the queue of its volume's node.
Joins(v, op, f) ==
  \A w \in Volume :
    /\ Len(Queued(w))' = IF Home[w] = Home[v] THEN Len(Queued(w)) + 1 ELSE Len(Queued(w))
    /\ \A i \in Nat : \A o, g : IsJob(w, i, o, g)' <=>
         IsJob(w, i, o, g) \/ (w = v /\ i = Len(Queued(v)) + 1 /\ o = op /\ g = f)

LEMMA EnqueueJoins ==
  ASSUME Typed, NEW v \in Volume, NEW f \in Upload, NEW op \in {"store", "erase"},
         Enqueue(v, [op |-> op, file |-> f, on |-> v])
  PROVE  Joins(v, op, f)
<1> DEFINE job == [op |-> op, file |-> f, on |-> v]
<1>0. job \in Job /\ Home[v] \in Node /\ work \in [Node -> Seq(Job)]
  BY VolumeAssumption DEF Job, Typed, TypeOK
<1>1. work' = [work EXCEPT ![Home[v]] = Append(@, job)]
  BY DEF Enqueue
<1> HIDE DEF job
<1>2. ASSUME NEW w \in Volume, Home[w] # Home[v]
      PROVE  Queued(w)' = Queued(w)
  BY <1>0, <1>1, <1>2 DEF Queued
<1>3. ASSUME NEW w \in Volume, Home[w] = Home[v]
      PROVE  /\ Len(Queued(w))' = Len(Queued(w)) + 1
             /\ \A i \in 1..Len(Queued(w)) : Queued(w)'[i] = Queued(w)[i]
             /\ Queued(w)'[Len(Queued(w)) + 1] = job
  <2>1. Queued(w)' = Append(Queued(w), job) /\ Queued(w) \in Seq(Job)
    BY <1>0, <1>1, <1>3 DEF Queued
  <2> QED BY <1>0, <2>1, AppendProperties
<1>4. \A w \in Volume : Len(Queued(w)) \in Nat
  BY QueueTypes
<1>5. ASSUME NEW w \in Volume, NEW i \in Nat, NEW o, NEW g
      PROVE  IsJob(w, i, o, g)' <=>
               IsJob(w, i, o, g) \/ (w = v /\ i = Len(Queued(v)) + 1 /\ o = op /\ g = f)
  <2>1. CASE Home[w] # Home[v]
    BY <1>2, <2>1 DEF IsJob
  <2>2. CASE Home[w] = Home[v] /\ i # Len(Queued(w)) + 1
    <3>1. i \in 1..Len(Queued(w))' <=> i \in 1..Len(Queued(w))
      BY <1>3, <1>4, <2>2
    <3> QED BY <1>3, <2>2, <3>1 DEF IsJob, Queued
  <2>3. CASE Home[w] = Home[v] /\ i = Len(Queued(w)) + 1
    <3>1. i \in 1..Len(Queued(w))' /\ i \notin 1..Len(Queued(w)) /\ Queued(w)'[i] = job
      BY <1>3, <1>4, <2>3
    <3>2. job = [op |-> o, file |-> g, on |-> w] <=> w = v /\ o = op /\ g = f
      BY DEF job
    <3>3. Queued(w) = Queued(v)
      BY <2>3 DEF Queued
    <3> QED BY <2>3, <3>1, <3>2, <3>3 DEF IsJob
  <2> QED BY <2>1, <2>2, <2>3
<1>6. \A w \in Volume :
        Len(Queued(w))' = IF Home[w] = Home[v] THEN Len(Queued(w)) + 1 ELSE Len(Queued(w))
  BY <1>2, <1>3
<1> QED BY <1>4, <1>5, <1>6 DEF Joins

\* The first job of a node leaves its queue.
Leaves(n, v, op, f) ==
  /\ Home[v] = n /\ IsJob(v, 1, op, f)
  /\ \A w \in Volume :
       /\ Home[w] # n => Len(Queued(w))' = Len(Queued(w))
       /\ Home[w] = n => Len(Queued(w)) > 0 /\ Len(Queued(w))' = Len(Queued(w)) - 1
       /\ \A i \in Nat \ {0} : \A o, g :
            IsJob(w, i, o, g)' <=> IF Home[w] = n THEN IsJob(w, i + 1, o, g)
                                   ELSE IsJob(w, i, o, g)
       /\ \A o, g : Home[w] = n /\ IsJob(w, 1, o, g) => w = v /\ o = op /\ g = f

LEMMA RunLeaves ==
  ASSUME Typed, NEW n \in Node, TakeJob(n)
  PROVE  /\ Head(work[n]) \in Job
         /\ Leaves(n, Head(work[n]).on, Head(work[n]).op, Head(work[n]).file)
<1> DEFINE job == Head(work[n])
<1>0. /\ work \in [Node -> Seq(Job)] /\ work[n] \in Seq(Job) /\ work[n] # <<>>
      /\ work' = [work EXCEPT ![n] = Tail(@)]
  BY DEF Typed, TypeOK, TakeJob
<1>1. /\ Len(work[n]) \in Nat \ {0} /\ job = work[n][1] /\ job \in Job
      /\ Len(Tail(work[n])) = Len(work[n]) - 1
      /\ \A i \in 1..Len(Tail(work[n])) : Tail(work[n])[i] = work[n][i + 1]
  <2>1. Len(work[n]) \in Nat /\ Len(work[n]) # 0
    BY <1>0, EmptySeq, LenProperties
  <2>2. job = work[n][1] /\ job \in Job
    BY <1>0, <2>1, HeadTailProperties, ElementOfSeq
  <2> QED BY <1>0, <2>1, <2>2, HeadTailProperties
<1>2. /\ job.on \in Volume /\ Home[job.on] = n
      /\ job = [op |-> job.op, file |-> job.file, on |-> job.on]
  BY <1>1 DEF Job, Typed, JobsAtHome
<1>3. \A w \in Volume : Home[w] = n => Queued(w) = work[n] /\ Queued(w)' = Tail(work[n])
  BY <1>0 DEF Queued
<1>4. \A w \in Volume : Home[w] # n => Queued(w)' = Queued(w)
  BY <1>0, VolumeAssumption DEF Queued
<1> HIDE DEF job
<1>5. IsJob(job.on, 1, job.op, job.file)
  BY <1>1, <1>2, <1>3 DEF IsJob
<1>6. ASSUME NEW w \in Volume, NEW o, NEW g, Home[w] = n, IsJob(w, 1, o, g)
      PROVE  w = job.on /\ o = job.op /\ g = job.file
  <2>1. job = [op |-> o, file |-> g, on |-> w]
    BY <1>1, <1>3, <1>6 DEF IsJob
  <2> QED BY <2>1
<1>7. ASSUME NEW w \in Volume, NEW i \in Nat \ {0}, NEW o, NEW g
      PROVE  IsJob(w, i, o, g)' <=> IF Home[w] = n THEN IsJob(w, i + 1, o, g)
                                    ELSE IsJob(w, i, o, g)
  <2>1. CASE Home[w] # n
    BY <1>4, <2>1 DEF IsJob
  <2>2. CASE Home[w] = n
    <3>1. i \in 1..Len(Queued(w))' <=> i + 1 \in 1..Len(Queued(w))
      BY <1>1, <1>3, <2>2
    <3>2. i \in 1..Len(Queued(w))' => Queued(w)'[i] = Queued(w)[i + 1]
      BY <1>1, <1>3, <2>2
    <3> QED BY <2>2, <3>1, <3>2 DEF IsJob
  <2> QED BY <2>1, <2>2
<1>8. ASSUME NEW w \in Volume
      PROVE  /\ Home[w] # n => Len(Queued(w))' = Len(Queued(w))
             /\ Home[w] = n => Len(Queued(w)) > 0 /\ Len(Queued(w))' = Len(Queued(w)) - 1
  BY <1>1, <1>3, <1>4
<1> QED BY <1>1, <1>2, <1>5, <1>6, <1>7, <1>8 DEF Leaves, job

-----------------------------------------------------------------------------
(* What a step changes *)

\* The steps of a request that write only what the handler knows.
Asks(f) == CheckLimit(f) \/ ReadVolumes(f) \/ ReadUsed(f) \/ ChooseVolume(f)
           \/ RefuseFile(f) \/ FailRequest(f)
Others == <<admin, reported, table, editing, deleting, disk, seen>>

LEMMA AskSteps ==
  ASSUME NEW f \in File, Asks(f)
  PROVE  UNCHANGED Others
BY DEF Asks, Others, CheckLimit, ReadVolumes, ReadUsed, ChooseVolume, RefuseFile, FailRequest

\* The steps of the users that leave the queues and the disks alone.
Writes(f) == \/ InsertRow(f) \/ WritePath(f) \/ CreateBlob(f) \/ ReadEdit(f) \/ WriteEdit(f)
             \/ DropBlobs(f) \/ DeleteRow(f) \/ FailDelete(f)

LEMMA WriteSteps ==
  ASSUME NEW f \in File, Writes(f)
  PROVE  UNCHANGED <<admin, reported, disk, deleted, spared>>
BY DEF Writes, InsertRow, WritePath, CreateBlob, ReadEdit, WriteEdit, DropBlobs, DeleteRow,
       FailDelete, seen

\* The steps of administrators, and those of an agent that do no job.
Manages(v) == ChangeVolume(v) \/ RemoveVolume(v) \/ RemoveRow(v)
Beats(n) == BeatUsed(n) \/ BeatRows(n) \/ NextLoop(n)

LEMMA ManageSteps ==
  ASSUME NEW v \in Volume, Manages(v)
  PROVE  UNCHANGED <<up, reported, table, users, disk, seen>>
BY DEF Manages, ChangeVolume, RemoveVolume, RemoveRow

LEMMA BeatSteps ==
  ASSUME NEW n \in Node, Beats(n)
  PROVE  UNCHANGED <<admin, request, work, stored, partial, seen>>
BY DEF Beats, BeatUsed, BeatRows, NextLoop, users

LEMMA NodeSteps ==
  ASSUME NEW n \in Node, ChangeNode(n)
  PROVE  UNCHANGED <<volumes, offered, removing, reported, table, users, disk, seen>>
BY DEF ChangeNode

LEMMA Takes ==
  ASSUME NEW n \in Node, JobStep(n)
  PROVE  /\ TakeJob(n)
         /\ UNCHANGED <<admin, reported, place, path, blobs, users, edited, deleted>>
BY DEF JobStep, StoreFile, BreakStore, UnlinkFile, FailJob, TakeJob

LEMMA Steps ==
  ASSUME [Next]_vars
  PROVE  /\ setting' = setting
         /\ \/ UNCHANGED vars
            \/ \E f \in File : Asks(f) \/ Writes(f) \/ QueueStore(f) \/ DeleteFile(f)
            \/ \E v \in Volume : Manages(v)
            \/ \E n \in Node : ChangeNode(n) \/ Beats(n) \/ JobStep(n)
BY DEF Next, vars, RequestStep, UserStep, Asks, Writes, Manages, Beats

\* A job is done, fails or breaks off.
Stores(v, f) == stored' \in {stored, [stored EXCEPT ![v] = @ \cup {f}]}
Erases(v, f) == \/ stored' = [stored EXCEPT ![v] = @ \ {f}]
                \/ stored' = stored /\ f \in spared'

LEMMA JobEffect ==
  ASSUME Typed, NEW n \in Node, JobStep(n)
  PROVE  \E v \in Volume, f \in Upload :
           /\ spared' \subseteq spared \cup {f} /\ spared \subseteq spared'
           /\ \/ Leaves(n, v, "store", f) /\ Stores(v, f) /\ spared' = spared
              \/ Leaves(n, v, "erase", f) /\ Erases(v, f)
<1> DEFINE job == Head(work[n])
<1>1. job \in Job /\ Leaves(n, job.on, job.op, job.file)
  BY Takes, RunLeaves
<1>2. job.on \in Volume /\ job.file \in Upload /\ job.op \in {"store", "erase"}
  BY <1>1 DEF Job
<1>3. \/ job.op = "store" /\ Stores(job.on, job.file) /\ spared' = spared
      \/ /\ job.op = "erase" /\ Erases(job.on, job.file)
         /\ spared' \in {spared, spared \cup {job.file}}
  <2>1. CASE StoreFile(n)
    BY <2>1 DEF StoreFile, Stores
  <2>2. CASE BreakStore(n)
    BY <2>2 DEF BreakStore, Stores
  <2>3. CASE UnlinkFile(n)
    BY <2>3 DEF UnlinkFile, Erases
  <2>4. CASE FailJob(n)
    BY <1>2, <2>4 DEF FailJob, Stores, Erases
  <2> QED BY <2>1, <2>2, <2>3, <2>4 DEF JobStep
<1> HIDE DEF job
<1> QED BY <1>1, <1>2, <1>3

\* The steps that touch the queues and the disks.
LEMMA JobSteps ==
  ASSUME Typed, Births, [Next]_vars
  PROVE  \/ UNCHANGED <<work, stored>>
         \/ \E f \in Upload, v \in Volume :
              /\ stored' = stored
              /\ \/ QueueStore(f) /\ v \in request[f].among /\ Joins(v, "store", f)
                 \/ DeleteFile(f) /\ v \in place[f] /\ Joins(v, "erase", f)
         \/ \E n \in Node, v \in Volume, f \in Upload :
              \/ Leaves(n, v, "store", f) /\ Stores(v, f)
              \/ Leaves(n, v, "erase", f) /\ Erases(v, f)
<1> DEFINE Goal ==
     \/ UNCHANGED <<work, stored>>
     \/ \E f \in Upload, v \in Volume :
          /\ stored' = stored
          /\ \/ QueueStore(f) /\ v \in request[f].among /\ Joins(v, "store", f)
             \/ DeleteFile(f) /\ v \in place[f] /\ Joins(v, "erase", f)
     \/ \E n \in Node, v \in Volume, f \in Upload :
          \/ Leaves(n, v, "store", f) /\ Stores(v, f)
          \/ Leaves(n, v, "erase", f) /\ Erases(v, f)
<1>1. CASE UNCHANGED vars
  BY <1>1 DEF vars, disk
<1>2. ASSUME NEW f \in File, Asks(f) \/ Writes(f)
      PROVE  Goal
  BY <1>2, AskSteps, WriteSteps DEF Others, disk
<1>3. ASSUME NEW f \in File, QueueStore(f) PROVE Goal
  <2>1. PICK v \in request[f].among : Enqueue(v, [op |-> "store", file |-> f, on |-> v])
    BY <1>3 DEF QueueStore
  <2>2. f \in Upload /\ stored' = stored
    BY <1>3 DEF QueueStore, Births, Waiting
  <2>3. v \in Volume
    BY <2>1 DEF Typed, TypeOK
  <2>4. Joins(v, "store", f)
    BY <2>1, <2>2, <2>3, EnqueueJoins
  <2> QED BY <1>3, <2>1, <2>2, <2>3, <2>4
<1>4. ASSUME NEW f \in File, DeleteFile(f) PROVE Goal
  <2>1. stored' = stored
    BY <1>4 DEF DeleteFile
  <2>2. CASE f \notin path
    BY <1>4, <2>1, <2>2 DEF DeleteFile, Erase
  <2>3. CASE f \in path
    <3>1. PICK v \in place[f] : Enqueue(v, [op |-> "erase", file |-> f, on |-> v])
      BY <1>4, <2>3 DEF DeleteFile, Erase
    <3>2. v \in Volume /\ f \in Upload
      BY <2>3, <3>1 DEF Typed, TypeOK
    <3>3. Joins(v, "erase", f)
      BY <3>1, <3>2, EnqueueJoins
    <3> QED BY <1>4, <2>1, <3>1, <3>2, <3>3
  <2> QED BY <2>2, <2>3
<1>5. ASSUME NEW v \in Volume, Manages(v)
      PROVE  Goal
  BY <1>5, ManageSteps DEF disk
<1>6. ASSUME NEW n \in Node, ChangeNode(n) \/ Beats(n)
      PROVE  Goal
  BY <1>6, NodeSteps, BeatSteps DEF disk
<1>7. ASSUME NEW n \in Node, JobStep(n) PROVE Goal
  BY <1>7, JobEffect
<1> QED BY <1>1, <1>2, <1>3, <1>4, <1>5, <1>6, <1>7, Steps

\* What a deletion has spared stays so, and only one of its steps spares a file.
LEMMA SparedSteps ==
  ASSUME Typed, [Next]_vars
  PROVE  /\ spared \subseteq spared'
         /\ \A f \in File : f \in spared' \ spared =>
              DeleteFile(f) \/ \E v \in Volume : HasJob(v, f)
<1>1. CASE UNCHANGED vars
  BY <1>1 DEF vars, seen
<1>2. ASSUME NEW f \in File, Asks(f) \/ Writes(f) \/ QueueStore(f)
      PROVE  spared' = spared
  BY <1>2, AskSteps, WriteSteps DEF Others, seen, QueueStore
<1>3. ASSUME NEW f \in File, DeleteFile(f)
      PROVE  spared \subseteq spared' /\ spared' \subseteq spared \cup {f}
  BY <1>3 DEF DeleteFile
<1>4. ASSUME NEW v \in Volume, Manages(v)
      PROVE  spared' = spared
  BY <1>4, ManageSteps DEF seen
<1>5. ASSUME NEW n \in Node, ChangeNode(n) \/ Beats(n)
      PROVE  spared' = spared
  BY <1>5, NodeSteps, BeatSteps DEF seen
<1>6. ASSUME NEW n \in Node, JobStep(n)
      PROVE  /\ spared \subseteq spared'
             /\ \A f \in File : f \in spared' \ spared => \E v \in Volume : HasJob(v, f)
  <2>1. PICK v \in Volume, f \in Upload :
               /\ spared' \subseteq spared \cup {f} /\ spared \subseteq spared'
               /\ \/ Leaves(n, v, "store", f) /\ spared' = spared
                  \/ Leaves(n, v, "erase", f)
    BY <1>6, JobEffect
  <2>2. spared' = spared \/ HasJob(v, f)
    BY <2>1 DEF Leaves, HasJob
  <2> QED BY <2>1, <2>2
<1> QED BY <1>1, <1>2, <1>3, <1>4, <1>5, <1>6, Steps

\* What will be on a volume after any of the queued jobs was foreseeable, but for
\* the file whose job is queued.
LEMMA ForeseenJoins ==
  ASSUME Typed, NEW v \in Volume, NEW f \in Upload, NEW op \in {"store", "erase"},
         Joins(v, op, f), stored' = stored, spared \subseteq spared', NEW w \in Volume
  PROVE  /\ \A k \in 0..Len(Queued(w)) : After(w, k)' \subseteq After(w, k)
         /\ Final(w)' \subseteq Final(w) \cup (IF w = v /\ op = "store" THEN {f} ELSE {})
         /\ op = "erase" => f \notin Final(v)'
<1> DEFINE n == Len(Queued(w))
<1>1. n \in Nat /\ Len(Queued(v)) \in Nat /\ (Home[w] = Home[v] => Len(Queued(v)) = n)
  BY QueueTypes DEF Queued
<1>2. n' = IF Home[w] = Home[v] THEN n + 1 ELSE n
  BY DEF Joins
<1>3. \A i \in Nat : \A o, g : IsJob(w, i, o, g)' <=>
        IsJob(w, i, o, g) \/ (w = v /\ i = n + 1 /\ o = op /\ g = f)
  BY DEF Joins
<1>4. \A i \in Nat : \A o, g : IsJob(w, i, o, g) => i \in 1..n
  BY DEF IsJob
<1> HIDE DEF n
<1>5. ASSUME NEW k \in 0..n, NEW g \in After(w, k)'
      PROVE  g \in After(w, k)
  <2>1. /\ g \in Upload \ spared
        /\ g \in stored[w] \/ \E i \in 1..k : IsJob(w, i, "store", g)'
        /\ \A i \in 1..k : ~IsJob(w, i, "erase", g)'
    BY DEF After
  <2>2. \A i \in 1..k : \A o : IsJob(w, i, o, g)' <=> IsJob(w, i, o, g)
    BY <1>1, <1>3
  <2> QED BY <2>1, <2>2 DEF After
<1>6. Final(w)' \subseteq Final(w) \cup (IF w = v /\ op = "store" THEN {f} ELSE {})
  <2> SUFFICES ASSUME NEW g \in Upload, g \in Final(w)',
                      ~(w = v /\ op = "store" /\ g = f)
               PROVE  g \in Final(w)
    BY DEF Final, After
  <2>0. g \in Upload \ spared
    BY DEF Final, After
  <2>1. /\ g \in stored[w] \/ \E i \in 1..n' : IsJob(w, i, "store", g)'
        /\ \A i \in 1..n' : ~IsJob(w, i, "erase", g)'
    BY DEF Final, After, n
  <2>2. g \in stored[w] \/ \E i \in 1..n : IsJob(w, i, "store", g)
    BY <1>1, <1>2, <1>3, <1>4, <2>1
  <2>3. \A i \in 1..n : ~IsJob(w, i, "erase", g)
    BY <1>1, <1>2, <1>3, <2>1
  <2> QED BY <2>0, <2>2, <2>3 DEF Final, After, n
<1>7. op = "erase" => f \notin Final(v)'
  <2> SUFFICES ASSUME op = "erase" PROVE f \notin Final(v)'
    OBVIOUS
  <2> DEFINE m == Len(Queued(v))
  <2>1. m \in Nat /\ m' = m + 1
    BY QueueTypes DEF Joins
  <2>2. \A i \in Nat : i = m + 1 => IsJob(v, i, "erase", f)'
    BY DEF Joins
  <2>3. f \in Final(v)' => \A i \in 1..m' : ~IsJob(v, i, "erase", f)'
    BY DEF Final, After
  <2> QED BY <2>1, <2>2, <2>3
<1> QED BY <1>5, <1>6, <1>7 DEF n

LEMMA ForeseenLeaves ==
  ASSUME Typed, StoredFirst, NEW n \in Node, NEW v \in Volume, NEW f \in Upload,
         \/ Leaves(n, v, "store", f) /\ Stores(v, f)
         \/ Leaves(n, v, "erase", f) /\ Erases(v, f),
         spared \subseteq spared', NEW w \in Volume
  PROVE  /\ \A k \in 0..Len(Queued(w))' : \E j \in 0..Len(Queued(w)) : After(w, k)' \subseteq After(w, j)
         /\ Final(w)' \subseteq Final(w)
<1> DEFINE m == Len(Queued(w))
<1>1. m \in Nat
  BY QueueTypes
<1>2. stored \in [Volume -> SUBSET Upload] /\ Home[v] = n
  BY DEF Typed, TypeOK, Leaves
<1>3. CASE Home[w] # n
  <2>1. stored'[w] = stored[w] /\ m' = m
    BY <1>2, <1>3 DEF Leaves, Stores, Erases
  <2>2. \A i \in Nat \ {0} : \A o, g : IsJob(w, i, o, g)' <=> IsJob(w, i, o, g)
    BY <1>3 DEF Leaves
  <2>3. \A k \in 0..m : After(w, k)' \subseteq After(w, k)
    BY <1>1, <2>1, <2>2 DEF After
  <2>4. Final(w)' \subseteq Final(w)
    <3>1. Final(w)' = {g \in Upload \ spared' :
             /\ g \in stored'[w] \/ \E i \in 1..m' : IsJob(w, i, "store", g)'
             /\ \A i \in 1..m' : ~IsJob(w, i, "erase", g)'}
      BY DEF Final, After, m
    <3> QED BY <1>1, <2>1, <2>2, <3>1 DEF Final, After, m
  <2> QED BY <2>1, <2>3, <2>4
<1>4. CASE Home[w] = n
  <2>1. m > 0 /\ m' = m - 1
    BY <1>4 DEF Leaves
  <2>2. \A i \in Nat \ {0} : \A o, g : IsJob(w, i, o, g)' <=> IsJob(w, i + 1, o, g)
    BY <1>4 DEF Leaves
  <2>3. ASSUME NEW k \in 0..(m - 1), NEW g \in Upload \ spared',
               g \in stored'[w] \/ \E i \in 1..k : IsJob(w, i, "store", g)',
               \A i \in 1..k : ~IsJob(w, i, "erase", g)'
        PROVE  g \in After(w, k + 1)
    <3>1. \A i \in 2..(k + 1) : ~IsJob(w, i, "erase", g)
      <4> SUFFICES ASSUME NEW i \in 2..(k + 1) PROVE ~IsJob(w, i, "erase", g)
        OBVIOUS
      <4>1. i - 1 \in 1..k /\ i - 1 \in Nat \ {0} /\ (i - 1) + 1 = i
        BY <1>1
      <4> QED BY <2>2, <2>3, <4>1
    <3>2. (\E i \in 1..k : IsJob(w, i, "store", g)') => \E i \in 2..(k + 1) : IsJob(w, i, "store", g)
      <4> SUFFICES ASSUME NEW i \in 1..k, IsJob(w, i, "store", g)'
                   PROVE  \E j \in 2..(k + 1) : IsJob(w, j, "store", g)
        OBVIOUS
      <4>1. i + 1 \in 2..(k + 1) /\ i \in Nat \ {0}
        BY <1>1
      <4> QED BY <2>2, <4>1
    <3>3. CASE Leaves(n, v, "store", f) /\ Stores(v, f)
      <4>1. ~IsJob(w, 1, "erase", g)
        BY <1>4, <3>3 DEF Leaves
      <4>2. \A i \in 1..(k + 1) : ~IsJob(w, i, "erase", g)
        <5> TAKE i \in 1..(k + 1)
        <5>1. i = 1 \/ i \in 2..(k + 1)
          BY <1>1
        <5> QED BY <3>1, <4>1, <5>1
      <4>3. g \in stored'[w] => g \in stored[w] \/ (w = v /\ g = f)
        BY <1>2, <3>3 DEF Stores
      <4>4. IsJob(v, 1, "store", f) /\ 1 \in 1..(k + 1)
        BY <1>1, <3>3 DEF Leaves
      <4>5. g \in stored[w] \/ \E i \in 1..(k + 1) : IsJob(w, i, "store", g)
        <5>1. CASE g \in stored'[w]
          BY <4>3, <4>4, <5>1
        <5>2. CASE \E i \in 1..k : IsJob(w, i, "store", g)'
          <6>1. PICK i \in 2..(k + 1) : IsJob(w, i, "store", g)
            BY <3>2, <5>2
          <6>2. i \in 1..(k + 1)
            BY <1>1
          <6> QED BY <6>1, <6>2
        <5> QED BY <2>3, <5>1, <5>2
      <4> QED BY <4>2, <4>5 DEF After
    <3>4. CASE Leaves(n, v, "erase", f) /\ Erases(v, f)
      <4>1. IsJob(v, 1, "erase", f)
        BY <3>4 DEF Leaves
      <4>2. ~(w = v /\ g = f)
        <5> SUFFICES ASSUME w = v, g = f PROVE FALSE
          OBVIOUS
        <5>1. g \notin stored'[w]
          BY <1>2, <3>4 DEF Erases
        <5>2. PICK i \in 2..(k + 1) : IsJob(v, i, "store", f)
          BY <2>3, <3>2, <5>1
        <5>3. i \in Nat /\ 1 \in Nat /\ ~(i < 1)
          BY <1>1
        <5> QED BY <4>1, <5>2, <5>3 DEF StoredFirst
      <4>3. ~IsJob(w, 1, "erase", g)
        BY <1>4, <3>4, <4>2 DEF Leaves
      <4>4. \A i \in 1..(k + 1) : ~IsJob(w, i, "erase", g)
        <5> TAKE i \in 1..(k + 1)
        <5>1. i = 1 \/ i \in 2..(k + 1)
          BY <1>1
        <5> QED BY <3>1, <4>3, <5>1
      <4>5. g \in stored[w] \/ \E i \in 1..(k + 1) : IsJob(w, i, "store", g)
        <5>1. CASE g \in stored'[w]
          BY <1>2, <3>4, <5>1 DEF Erases
        <5>2. CASE \E i \in 1..k : IsJob(w, i, "store", g)'
          <6>1. PICK i \in 2..(k + 1) : IsJob(w, i, "store", g)
            BY <3>2, <5>2
          <6>2. i \in 1..(k + 1)
            BY <1>1
          <6> QED BY <6>1, <6>2
        <5> QED BY <2>3, <5>1, <5>2
      <4> QED BY <4>4, <4>5 DEF After
    <3> QED BY <3>3, <3>4
  <2>4. \A k \in 0..(m - 1) : After(w, k)' \subseteq After(w, k + 1)
    BY <2>3 DEF After
  <2>5. Final(w)' \subseteq Final(w)
    <3> SUFFICES ASSUME NEW g \in Upload \ spared',
                        g \in stored'[w] \/ \E i \in 1..m' : IsJob(w, i, "store", g)',
                        \A i \in 1..m' : ~IsJob(w, i, "erase", g)'
                 PROVE  g \in After(w, m)
      BY DEF Final, After, m
    <3>1. m - 1 \in 0..(m - 1) /\ (m - 1) + 1 = m /\ m' = m - 1
      BY <1>1, <2>1
    <3> QED BY <2>3, <3>1
  <2>6. \A k \in 0..m' : k \in 0..(m - 1) /\ k + 1 \in 0..m
    BY <1>1, <2>1
  <2> QED BY <2>4, <2>5, <2>6
<1> QED BY <1>3, <1>4

\* Only QueueStore adds to what will be on a volume.
LEMMA Foreseen ==
  ASSUME Typed, Births, StoredFirst, [Next]_vars, NEW w \in Volume
  PROVE  \/ /\ \A k \in 0..Len(Queued(w))' :
                 \E j \in 0..Len(Queued(w)) : After(w, k)' \subseteq After(w, j)
            /\ Final(w)' \subseteq Final(w)
         \/ \E f \in Upload :
              /\ QueueStore(f) /\ w \in request[f].among
              /\ \A k \in 0..Len(Queued(w))' :
                   \/ \E j \in 0..Len(Queued(w)) : After(w, k)' \subseteq After(w, j)
                   \/ After(w, k)' \subseteq Final(w) \cup {f}
              /\ Final(w)' \subseteq Final(w) \cup {f}
<1>0. Len(Queued(w)) \in Nat /\ spared \subseteq spared'
  BY QueueTypes, SparedSteps
<1>1. CASE UNCHANGED <<work, stored>>
  <2>1. \A k : After(w, k)' \subseteq After(w, k)
    BY <1>0, <1>1 DEF After, IsJob, Queued
  <2>2. Len(Queued(w))' = Len(Queued(w)) /\ Final(w)' \subseteq Final(w)
    BY <1>0, <1>1 DEF Final, After, IsJob, Queued
  <2> QED BY <1>0, <2>1, <2>2
<1>2. ASSUME NEW f \in Upload, NEW v \in Volume, stored' = stored,
             NEW op \in {"store", "erase"}, Joins(v, op, f),
             op = "store" => QueueStore(f) /\ v \in request[f].among
      PROVE  \/ /\ \A k \in 0..Len(Queued(w))' :
                     \E j \in 0..Len(Queued(w)) : After(w, k)' \subseteq After(w, j)
                /\ Final(w)' \subseteq Final(w)
             \/ /\ QueueStore(f) /\ w \in request[f].among
                /\ \A k \in 0..Len(Queued(w))' :
                     \/ \E j \in 0..Len(Queued(w)) : After(w, k)' \subseteq After(w, j)
                     \/ After(w, k)' \subseteq Final(w) \cup {f}
                /\ Final(w)' \subseteq Final(w) \cup {f}
  <2> DEFINE m == Len(Queued(w))
  <2>1. /\ \A k \in 0..m : After(w, k)' \subseteq After(w, k)
        /\ Final(w)' \subseteq Final(w) \cup (IF w = v /\ op = "store" THEN {f} ELSE {})
    BY <1>0, <1>2, ForeseenJoins
  <2>2. m' = m \/ m' = m + 1
    BY <1>2 DEF Joins
  <2>3. \A k \in 0..m' : k \in 0..m \/ After(w, k)' = Final(w)'
    <3> TAKE k \in 0..m'
    <3>1. k \in 0..m \/ k = m'
      BY <1>0, <2>2
    <3> QED BY <3>1 DEF Final, After
  <2>4. Final(w) = After(w, m) /\ m \in 0..m
    BY <1>0 DEF Final
  <2>5. CASE w = v /\ op = "store"
    BY <1>2, <2>1, <2>3, <2>4, <2>5
  <2>6. CASE ~(w = v /\ op = "store")
    BY <2>1, <2>3, <2>4, <2>6
  <2> QED BY <2>5, <2>6
<1>3. ASSUME NEW n \in Node, NEW v \in Volume, NEW f \in Upload,
             \/ Leaves(n, v, "store", f) /\ Stores(v, f)
             \/ Leaves(n, v, "erase", f) /\ Erases(v, f)
      PROVE  /\ \A k \in 0..Len(Queued(w))' :
                  \E j \in 0..Len(Queued(w)) : After(w, k)' \subseteq After(w, j)
             /\ Final(w)' \subseteq Final(w)
  BY <1>0, <1>3, ForeseenLeaves
<1>4. ASSUME NEW f \in Upload, NEW v \in Volume, stored' = stored,
             \/ QueueStore(f) /\ v \in request[f].among /\ Joins(v, "store", f)
             \/ DeleteFile(f) /\ v \in place[f] /\ Joins(v, "erase", f)
      PROVE  \E op \in {"store", "erase"} :
               Joins(v, op, f) /\ (op = "store" => QueueStore(f) /\ v \in request[f].among)
  BY <1>4
<1> QED BY <1>1, <1>2, <1>3, <1>4, JobSteps

\* A job needs a row when it is queued, and a file a job when it comes or goes.
LEMMA TraceSteps ==
  ASSUME Typed, Births, [Next]_vars, NEW w \in Volume, NEW g \in File
  PROVE  /\ HasJob(w, g)' => \/ HasJob(w, g)
                             \/ w \in request[g].among /\ QueueStore(g)
                             \/ w \in place[g] /\ DeleteFile(g)
         /\ g \in stored'[w] => g \in stored[w] \/ HasJob(w, g)
<1>0. stored \in [Volume -> SUBSET Upload] /\ Len(Queued(w)) \in Nat
  BY QueueTypes DEF Typed, TypeOK
<1>1. CASE UNCHANGED <<work, stored>>
  BY <1>1 DEF HasJob, IsJob, Queued
<1>2. ASSUME NEW f \in Upload, NEW v \in Volume, stored' = stored, NEW op, Joins(v, op, f),
             \/ v \in request[f].among /\ QueueStore(f)
             \/ v \in place[f] /\ DeleteFile(f)
      PROVE  /\ HasJob(w, g)' => \/ HasJob(w, g)
                                 \/ w \in request[g].among /\ QueueStore(g)
                                 \/ w \in place[g] /\ DeleteFile(g)
             /\ g \in stored'[w] => g \in stored[w] \/ HasJob(w, g)
  <2>1. \A i \in Nat : \A o, h : IsJob(w, i, o, h)' => IsJob(w, i, o, h) \/ (w = v /\ h = f)
    BY <1>2 DEF Joins
  <2> QED BY <1>2, <2>1 DEF HasJob
<1>3. ASSUME NEW n \in Node, NEW v \in Volume, NEW f \in Upload,
             \/ Leaves(n, v, "store", f) /\ Stores(v, f)
             \/ Leaves(n, v, "erase", f) /\ Erases(v, f)
      PROVE  /\ HasJob(w, g)' => HasJob(w, g)
             /\ g \in stored'[w] => g \in stored[w] \/ HasJob(w, g)
  <2>1. \A i \in Nat \ {0} : \A o, h :
          IsJob(w, i, o, h)' => IsJob(w, i + 1, o, h) \/ IsJob(w, i, o, h)
    BY <1>3 DEF Leaves
  <2>2. \A i \in Nat : \A o, h : IsJob(w, i, o, h)' => i \in Nat \ {0}
    BY DEF IsJob
  <2>3. HasJob(w, g)' => HasJob(w, g)
    <3>1. \A i \in Nat : i + 1 \in Nat
      OBVIOUS
    <3> QED BY <2>1, <2>2, <3>1 DEF HasJob
  <2>4. g \in stored'[w] => g \in stored[w] \/ HasJob(w, g)
    <3>1. CASE Leaves(n, v, "store", f) /\ Stores(v, f)
      <4>1. g \in stored'[w] => g \in stored[w] \/ (w = v /\ g = f)
        BY <1>0, <3>1 DEF Stores
      <4>2. IsJob(v, 1, "store", f)
        BY <3>1 DEF Leaves
      <4> QED BY <4>1, <4>2 DEF HasJob
    <3>2. CASE Erases(v, f)
      BY <1>0, <3>2 DEF Erases
    <3> QED BY <1>3, <3>1, <3>2
  <2> QED BY <2>3, <2>4
<1> QED BY <1>1, <1>2, <1>3, JobSteps


\* A file that is neither stored nor on its way stays so until its job is queued.
LEMMA UnstoredStays ==
  ASSUME Typed, Births, [Next]_vars, NEW f \in File, Unstored(f), ~QueueStore(f)
  PROVE  Unstored(f)'
<1> SUFFICES ASSUME NEW w \in Volume
             PROVE  f \notin stored'[w] /\ \A i \in Nat : ~IsJob(w, i, "store", f)'
  BY DEF Unstored
<1>0. /\ stored \in [Volume -> SUBSET Upload]
      /\ f \notin stored[w] /\ \A i \in Nat : ~IsJob(w, i, "store", f)
  BY DEF Typed, TypeOK, Unstored
<1>1. CASE UNCHANGED <<work, stored>>
  BY <1>0, <1>1 DEF IsJob, Queued
<1>2. ASSUME NEW g \in Upload, NEW v \in Volume, stored' = stored, QueueStore(g),
             Joins(v, "store", g)
      PROVE  f \notin stored'[w] /\ \A i \in Nat : ~IsJob(w, i, "store", f)'
  BY <1>0, <1>2 DEF Joins
<1>3. ASSUME NEW g \in Upload, NEW v \in Volume, stored' = stored, Joins(v, "erase", g)
      PROVE  f \notin stored'[w] /\ \A i \in Nat : ~IsJob(w, i, "store", f)'
  BY <1>0, <1>3 DEF Joins
<1>4. ASSUME NEW n \in Node, NEW v \in Volume, NEW g \in Upload,
             \/ Leaves(n, v, "store", g) /\ Stores(v, g)
             \/ Leaves(n, v, "erase", g) /\ Erases(v, g)
      PROVE  f \notin stored'[w] /\ \A i \in Nat : ~IsJob(w, i, "store", f)'
  <2>1. \A i \in Nat : i + 1 \in Nat /\ (IsJob(w, i, "store", f)' => i \in Nat \ {0})
    BY DEF IsJob
  <2>2. \A i \in Nat \ {0} :
          IsJob(w, i, "store", f)' => IsJob(w, i + 1, "store", f) \/ IsJob(w, i, "store", f)
    BY <1>4 DEF Leaves
  <2>3. \A i \in Nat : ~IsJob(w, i, "store", f)'
    BY <1>0, <2>1, <2>2
  <2>4. CASE Leaves(n, v, "store", g) /\ Stores(v, g)
    <3>1. w = v => f # g
      BY <1>0, <2>4 DEF Leaves
    <3>2. f \notin stored'[w]
      BY <1>0, <2>4, <3>1 DEF Stores
    <3> QED BY <2>3, <3>2
  <2>5. CASE Erases(v, g)
    BY <1>0, <2>3, <2>5 DEF Erases
  <2> QED BY <1>4, <2>4, <2>5
<1> QED BY <1>1, <1>2, <1>3, <1>4, JobSteps

\* A heartbeat puts back the row of a file its node holds.
Reported(n, f) ==
  /\ \E v \in Mounted(n) : f \in stored[v]
  /\ rows'[f] = "counted" /\ place'[f] = {v \in Mounted(n) : f \in stored[v]}

Inserted(f) == InsertRow(f) /\ rows'[f] = "counted" /\ place'[f] = request[f].among
Dropped(f) == DeleteRow(f) /\ rows'[f] = "none" /\ place'[f] = {}

\* A job leaves the rows alone or marks one.
LEMMA MarkSteps ==
  ASSUME NEW n \in Node, JobStep(n)
  PROVE  /\ place' = place
         /\ rows' = rows \/ \E g : rows' = [rows EXCEPT ![g] = IF @ = "none" THEN @ ELSE "counted"]
<1>1. place' = place
  BY Takes
<1>2. CASE StoreFile(n)
  BY <1>1, <1>2 DEF StoreFile, Mark
<1>3. CASE FailJob(n)
  BY <1>1, <1>3 DEF FailJob, Mark
<1>4. CASE BreakStore(n) \/ UnlinkFile(n)
  BY <1>1, <1>4 DEF BreakStore, UnlinkFile
<1> QED BY <1>2, <1>3, <1>4 DEF JobStep

LEMMA RowSteps ==
  ASSUME Typed, Births, [Next]_vars, NEW f \in File
  PROVE  \/ Inserted(f) \/ Dropped(f)
         \/ \E n \in Node : BeatRows(n) /\ Reported(n, f)
         \/ /\ place'[f] = place[f] /\ (rows'[f] = "none" <=> rows[f] = "none")
            /\ rows'[f] \in {rows[f], "counted"} \/ WriteEdit(f)
<1> DEFINE Same == /\ place'[f] = place[f] /\ (rows'[f] = "none" <=> rows[f] = "none")
                   /\ rows'[f] \in {rows[f], "counted"} \/ WriteEdit(f)
           Goal == \/ Inserted(f) \/ Dropped(f)
                   \/ \E n \in Node : BeatRows(n) /\ Reported(n, f)
                   \/ Same
<1>0. rows \in [File -> RowState] /\ place \in [File -> SUBSET Volume]
      /\ stored \in [Volume -> SUBSET Upload]
  BY DEF Typed, TypeOK
<1>1. CASE rows' = rows /\ place' = place
  BY <1>1
<1>2. CASE UNCHANGED vars
  BY <1>1, <1>2 DEF vars, table
<1>3. ASSUME NEW g \in File, \/ Asks(g) \/ CreateBlob(g) \/ QueueStore(g) \/ ReadEdit(g)
                             \/ DeleteFile(g) \/ DropBlobs(g) \/ FailDelete(g)
      PROVE  Goal
  BY <1>1, <1>3, AskSteps DEF Others, CreateBlob, QueueStore, ReadEdit, DeleteFile, DropBlobs,
                              FailDelete, table
<1>4. ASSUME NEW g \in File, InsertRow(g) PROVE Goal
  <2>1. rows' = [rows EXCEPT ![g] = "counted"] /\ place' = [place EXCEPT ![g] = request[g].among]
    BY <1>4 DEF InsertRow
  <2> QED BY <1>0, <1>4, <2>1 DEF Inserted
<1>5. ASSUME NEW g \in File, WritePath(g) PROVE Goal
  <2>1. PICK s \in {rows[g], "counted"} : rows' = [rows EXCEPT ![g] = s]
    BY <1>5 DEF WritePath
  <2>2. rows[g] # "none" /\ place' = place
    BY <1>5 DEF WritePath
  <2> QED BY <1>0, <2>1, <2>2
<1>6. ASSUME NEW g \in File, WriteEdit(g) PROVE Goal
  <2>1. PICK s \in {"counted", "uncounted"} : rows' = [rows EXCEPT ![g] = s]
    BY <1>6 DEF WriteEdit
  <2>2. rows[g] # "none" /\ place' = place
    BY <1>6 DEF WriteEdit, Births
  <2> QED BY <1>0, <1>6, <2>1, <2>2
<1>7. ASSUME NEW g \in File, DeleteRow(g) PROVE Goal
  <2>1. rows' = [rows EXCEPT ![g] = "none"] /\ place' = [place EXCEPT ![g] = {}]
    BY <1>7 DEF DeleteRow
  <2> QED BY <1>0, <1>7, <2>1 DEF Dropped
<1>8. ASSUME NEW v \in Volume, Manages(v)
      PROVE  Goal
  BY <1>1, <1>8, ManageSteps DEF table
<1>9. ASSUME NEW n \in Node, ChangeNode(n) \/ BeatUsed(n) \/ NextLoop(n)
      PROVE  Goal
  BY <1>1, <1>9 DEF ChangeNode, BeatUsed, NextLoop, table
<1>10. ASSUME NEW n \in Node, BeatRows(n) PROVE Goal
  <2> DEFINE found == UNION {stored[v] : v \in Mounted(n)} \ partial
  <2>1. /\ rows' = [g \in File |-> IF g \in found THEN "counted" ELSE rows[g]]
        /\ place' = [g \in File |-> IF g \in found
                                    THEN {v \in Mounted(n) : g \in stored[v]} ELSE place[g]]
    BY <1>10 DEF BeatRows
  <2>2. f \in found => \E v \in Mounted(n) : f \in stored[v]
    OBVIOUS
  <2> HIDE DEF found
  <2> QED BY <1>10, <2>1, <2>2 DEF Reported
<1>11. ASSUME NEW n \in Node, JobStep(n) PROVE Goal
  <2>1. place' = place
    BY <1>11, MarkSteps
  <2>2. rows' = rows \/ \E g : rows' = [rows EXCEPT ![g] = IF @ = "none" THEN @ ELSE "counted"]
    BY <1>11, MarkSteps
  <2> QED BY <1>0, <2>1, <2>2
<1> QED BY <1>2, <1>3, <1>4, <1>5, <1>6, <1>7, <1>8, <1>9, <1>10, <1>11, Steps DEF Writes, Beats

LEMMA RequestSteps ==
  ASSUME Typed, [Next]_vars, NEW f \in File
  PROVE  request'[f] = request[f] \/ RequestStep(f)
<1>0. request \in [File -> [pc : RequestPc, among : SUBSET Volume, free : [Volume -> Nat]]]
  BY DEF Typed, TypeOK
<1> USE <1>0
<1>1. CASE UNCHANGED vars
  BY <1>1 DEF vars, users
<1>2. ASSUME NEW g \in File, RequestStep(g), g # f
      PROVE  request'[f] = request[f]
  <2>1. ASSUME NEW pc, Step(g, pc) PROVE request'[f] = request[f]
    BY <1>2, <2>1 DEF Step
  <2>2. CASE CheckLimit(g) \/ InsertRow(g) \/ WritePath(g) \/ CreateBlob(g) \/ QueueStore(g)
             \/ FailRequest(g)
    BY <2>1, <2>2 DEF CheckLimit, InsertRow, WritePath, CreateBlob, QueueStore, FailRequest
  <2>3. CASE ReadVolumes(g)
    BY <1>2, <2>3 DEF ReadVolumes
  <2>4. CASE ReadUsed(g)
    BY <1>2, <2>4 DEF ReadUsed
  <2>5. CASE ChooseVolume(g)
    BY <1>2, <2>5 DEF ChooseVolume
  <2>6. CASE RefuseFile(g)
    BY <1>2, <2>6 DEF RefuseFile
  <2> QED BY <1>2, <2>2, <2>3, <2>4, <2>5, <2>6 DEF RequestStep
<1>3. ASSUME NEW g \in File, UserStep(g)
      PROVE  request' = request
  BY <1>3 DEF UserStep, ReadEdit, WriteEdit, DeleteFile, DropBlobs, DeleteRow, FailDelete
<1>4. ASSUME NEW v \in Volume, Manages(v)
      PROVE  request' = request
  BY <1>4, ManageSteps DEF users
<1>5. ASSUME NEW n \in Node, ChangeNode(n) \/ Beats(n) \/ JobStep(n)
      PROVE  request' = request
  BY <1>5, NodeSteps, BeatSteps, Takes DEF users
<1> QED BY <1>1, <1>2, <1>3, <1>4, <1>5 DEF Next, Manages, Beats

\* Who edits a row, deletes one and removes a volume.
LEMMA HistorySteps ==
  ASSUME [Next]_vars
  PROVE  /\ setting' = setting
         /\ \A f \in File :
              /\ f \in edited' \ edited => WriteEdit(f)
              /\ f \in deleted' \ deleted => DeleteFile(f)
         /\ edited \subseteq edited' /\ deleted \subseteq deleted'
         /\ \A v \in volumes \ volumes' : \A f \in File : v \notin place[f] /\ place' = place
<1>1. CASE UNCHANGED vars
  BY <1>1 DEF vars, admin, seen
<1>2. setting' = setting
  BY Steps
<1>3. ASSUME NEW f \in File, Asks(f) \/ QueueStore(f)
      PROVE  UNCHANGED <<volumes, edited, deleted>>
  BY <1>3, AskSteps DEF Others, QueueStore, admin, seen
<1>4. ASSUME NEW f \in File, Writes(f)
      PROVE  edited' = edited \/ (WriteEdit(f) /\ edited' = edited \cup {f})
  BY <1>4 DEF Writes, InsertRow, WritePath, CreateBlob, ReadEdit, WriteEdit, DropBlobs,
              DeleteRow, FailDelete, seen
<1>5. ASSUME NEW f \in File, Writes(f)
      PROVE  UNCHANGED <<volumes, deleted>>
  BY <1>5, WriteSteps DEF admin
<1>6. ASSUME NEW f \in File, DeleteFile(f)
      PROVE  deleted' = deleted \cup {f} /\ UNCHANGED <<volumes, edited>>
  BY <1>6 DEF DeleteFile, admin
<1>7. ASSUME NEW v \in Volume, ChangeVolume(v) \/ RemoveVolume(v)
      PROVE  UNCHANGED <<volumes, edited, deleted>>
  BY <1>7 DEF ChangeVolume, RemoveVolume, seen
<1>8. ASSUME NEW v \in Volume, RemoveRow(v)
      PROVE  /\ volumes' = IF Unreferenced(v) THEN volumes \ {v} ELSE volumes
             /\ UNCHANGED <<place, edited, deleted>>
  BY <1>8 DEF RemoveRow, table, seen
<1>9. ASSUME NEW n \in Node, ChangeNode(n) \/ Beats(n) \/ JobStep(n)
      PROVE  UNCHANGED <<volumes, edited, deleted>>
  BY <1>9, NodeSteps, BeatSteps, Takes DEF admin, seen
<1>10. CASE \E v \in Volume : RemoveRow(v)
  BY <1>2, <1>8, <1>10 DEF Unreferenced
<1>11. CASE volumes' = volumes
  <2>1. /\ \A f \in File :
              /\ f \in edited' \ edited => WriteEdit(f)
              /\ f \in deleted' \ deleted => DeleteFile(f)
        /\ edited \subseteq edited' /\ deleted \subseteq deleted'
    BY <1>1, <1>3, <1>4, <1>5, <1>6, <1>7, <1>8, <1>9, Steps DEF Manages
  <2> QED BY <1>2, <1>11, <2>1
<1> QED BY <1>1, <1>3, <1>5, <1>6, <1>7, <1>9, <1>10, <1>11, Steps DEF Manages

\* Who begins an edit or a deletion, and who ends one.
LEMMA UserSteps ==
  ASSUME Typed, [Next]_vars, NEW f \in File
  PROVE  /\ editing'[f] \in {editing[f], "no"} \/ ReadEdit(f)
         /\ deleting'[f] \in {deleting[f], "no"} \/ DeleteFile(f) \/ DropBlobs(f)
         /\ DeleteRow(f) => editing'[f] = "no" /\ deleting'[f] = "no"
<1>0. editing \in [File -> {"no", "bare", "path"}] /\ deleting \in [File -> {"no", "blobs", "row"}]
  BY DEF Typed, TypeOK
<1> USE <1>0
<1>1. DeleteRow(f) => editing'[f] = "no" /\ deleting'[f] = "no"
  BY DEF DeleteRow
<1>2. CASE editing' = editing /\ deleting' = deleting
  BY <1>1, <1>2
<1>3. CASE UNCHANGED vars
  BY <1>2, <1>3 DEF vars, users
<1>4. ASSUME NEW g \in File, Asks(g) \/ InsertRow(g) \/ WritePath(g) \/ CreateBlob(g) \/ QueueStore(g)
      PROVE  editing' = editing /\ deleting' = deleting
  BY <1>4, AskSteps DEF Others, InsertRow, WritePath, CreateBlob, QueueStore
<1>5. ASSUME NEW g \in File, ReadEdit(g) \/ WriteEdit(g)
      PROVE  /\ editing'[f] \in {editing[f], "no"} \/ ReadEdit(f)
             /\ deleting' = deleting
  <2>1. CASE ReadEdit(g)
    BY <2>1 DEF ReadEdit
  <2>2. CASE WriteEdit(g)
    BY <2>2 DEF WriteEdit
  <2> QED BY <1>5, <2>1, <2>2
<1>6. ASSUME NEW g \in File, DeleteFile(g) \/ DropBlobs(g) \/ FailDelete(g)
      PROVE  /\ deleting'[f] \in {deleting[f], "no"} \/ DeleteFile(f) \/ DropBlobs(f)
             /\ editing' = editing
  <2>1. CASE DeleteFile(g)
    BY <2>1 DEF DeleteFile
  <2>2. CASE DropBlobs(g)
    BY <2>2 DEF DropBlobs
  <2>3. CASE FailDelete(g)
    BY <2>3 DEF FailDelete
  <2> QED BY <1>6, <2>1, <2>2, <2>3
<1>7. ASSUME NEW g \in File, DeleteRow(g)
      PROVE  editing'[f] \in {editing[f], "no"} /\ deleting'[f] \in {deleting[f], "no"}
  BY <1>7 DEF DeleteRow
<1>8. ASSUME NEW v \in Volume, Manages(v)
      PROVE  editing' = editing /\ deleting' = deleting
  BY <1>8, ManageSteps DEF users
<1>9. ASSUME NEW n \in Node, ChangeNode(n) \/ BeatUsed(n) \/ NextLoop(n) \/ JobStep(n)
      PROVE  editing' = editing /\ deleting' = deleting
  BY <1>9, NodeSteps, Takes DEF BeatUsed, NextLoop, users
<1>10. ASSUME NEW n \in Node, BeatRows(n)
       PROVE  editing'[f] \in {editing[f], "no"} /\ deleting'[f] \in {deleting[f], "no"}
  BY <1>10 DEF BeatRows
<1> QED BY <1>1, <1>2, <1>3, <1>4, <1>5, <1>6, <1>7, <1>8, <1>9, <1>10, Steps DEF Writes, Beats

-----------------------------------------------------------------------------
(* Types *)

LEMMA JobTypes ==
  ASSUME Typed, NEW f \in Upload, NEW v \in Volume, NEW op \in {"store", "erase"},
         Enqueue(v, [op |-> op, file |-> f, on |-> v])
  PROVE  work' \in [Node -> Seq(Job)] /\ JobsAtHome'
<1> DEFINE job == [op |-> op, file |-> f, on |-> v]
           n == Home[v]
<1>1. job \in Job /\ job.on = v /\ n \in Node /\ work \in [Node -> Seq(Job)]
  BY VolumeAssumption DEF Job, Typed, TypeOK
<1>2. work' = [work EXCEPT ![n] = Append(@, job)]
  BY DEF Enqueue
<1> HIDE DEF job, n
<1>3. work[n] \in Seq(Job) /\ Append(work[n], job) \in Seq(Job)
  BY <1>1, AppendProperties
<1>4. \A i \in 1..Len(Append(work[n], job)) : Home[Append(work[n], job)[i].on] = n
  <2> TAKE i \in 1..Len(Append(work[n], job))
  <2>1. /\ Len(work[n]) \in Nat /\ Len(Append(work[n], job)) = Len(work[n]) + 1
        /\ Append(work[n], job)[Len(work[n]) + 1] = job
        /\ \A k \in 1..Len(work[n]) : Append(work[n], job)[k] = work[n][k]
    BY <1>1, <1>3, AppendProperties, LenProperties
  <2>2. CASE i = Len(work[n]) + 1
    BY <1>1, <2>1, <2>2 DEF n
  <2>3. CASE i \in 1..Len(work[n])
    BY <1>1, <2>1, <2>3 DEF Typed, JobsAtHome
  <2>4. i = Len(work[n]) + 1 \/ i \in 1..Len(work[n])
    BY <2>1
  <2> QED BY <2>2, <2>3, <2>4
<1>5. JobsAtHome'
  <2> SUFFICES ASSUME NEW m \in Node, NEW i \in 1..Len(work'[m])
               PROVE  Home[work'[m][i].on] = m
    BY DEF JobsAtHome
  <2>1. CASE m = n
    BY <1>1, <1>2, <1>4, <2>1
  <2>2. CASE m # n
    BY <1>1, <1>2, <2>2 DEF Typed, JobsAtHome
  <2> QED BY <2>1, <2>2
<1> QED BY <1>1, <1>2, <1>3, <1>5

LEMMA JobTypesRun ==
  ASSUME Typed, NEW n \in Node, TakeJob(n)
  PROVE  work' \in [Node -> Seq(Job)] /\ JobsAtHome'
<1>1. /\ work \in [Node -> Seq(Job)] /\ work[n] # <<>>
      /\ work' = [work EXCEPT ![n] = Tail(@)]
  BY DEF TakeJob, Typed, TypeOK
<1>2. /\ Tail(work[n]) \in Seq(Job) /\ Len(work[n]) \in Nat
      /\ Len(Tail(work[n])) = Len(work[n]) - 1
      /\ \A i \in 1..Len(Tail(work[n])) : Tail(work[n])[i] = work[n][i + 1]
  BY <1>1, HeadTailProperties, LenProperties
<1>3. ASSUME NEW m \in Node, NEW i \in 1..Len(work'[m])
      PROVE  Home[work'[m][i].on] = m
  <2>1. CASE m = n
    <3>1. i + 1 \in 1..Len(work[n]) /\ work'[m][i] = work[n][i + 1]
      BY <1>1, <1>2, <1>3, <2>1
    <3> QED BY <2>1, <3>1 DEF Typed, JobsAtHome
  <2>2. CASE m # n
    BY <1>1, <1>3, <2>2 DEF Typed, JobsAtHome
  <2> QED BY <2>1, <2>2
<1> QED BY <1>1, <1>2, <1>3 DEF JobsAtHome

RequestType == [pc : RequestPc, among : SUBSET Volume, free : [Volume -> Nat]]

LEMMA RoomNat ==
  ASSUME NEW v \in Volume, NEW used \in Nat
  PROVE  /\ Room(v, used) \in Nat
         /\ Room(v, used) > 0 => Room(v, used) + MbOf(CountedOn(v)) * MB <= Quota[v]
<1> DEFINE m == MbOf(CountedOn(v)) * MB
<1>1. CountedOn(v) \in SUBSET File
  BY DEF CountedOn, Counted
<1>2. MbOf(CountedOn(v)) \in Nat /\ MB \in Nat /\ Quota[v] \in Nat
  BY <1>1, AccountsNat, FileAssumption, VolumeAssumption
<1>3. m \in Nat
  BY <1>2
<1> HIDE DEF m
<1>4. Larger(used, m) \in Nat /\ Larger(used, m) >= m
  BY <1>3 DEF Larger
<1>5. Room(v, used) = Larger(0, Quota[v] - Larger(used, m))
  BY DEF Room, m
<1>6. /\ Room(v, used) \in Nat
      /\ Room(v, used) > 0 => Room(v, used) + m <= Quota[v]
  BY <1>2, <1>3, <1>4, <1>5 DEF Larger
<1> QED BY <1>6 DEF m

LEMMA RequestTyped ==
  ASSUME Typed, NEW f \in File, RequestStep(f)
  PROVE  request' \in [File -> RequestType]
<1>0. /\ request \in [File -> RequestType] /\ reported \in [Volume -> Nat]
      /\ volumes \subseteq Volume
  BY DEF Typed, TypeOK, RequestType
<1>1. ASSUME NEW pc \in RequestPc, Step(f, pc) PROVE request' \in [File -> RequestType]
  BY <1>0, <1>1 DEF Step, RequestType
<1>2. CASE CheckLimit(f)
  BY <1>1, <1>2 DEF CheckLimit, RequestPc, Returned
<1>3. CASE ReadVolumes(f)
  BY <1>0, <1>3 DEF ReadVolumes, RequestType, RequestPc
<1>4. CASE ReadUsed(f)
  <2> DEFINE free == [v \in Volume |-> Room(v, request[f].free[v])]
  <2>1. request' = [request EXCEPT ![f].pc = "choose", ![f].free = free]
    BY <1>4 DEF ReadUsed
  <2>2. request[f].free \in [Volume -> Nat]
    BY <1>0 DEF RequestType
  <2>3. free \in [Volume -> Nat]
    BY <2>2, RoomNat
  <2> HIDE DEF free
  <2> DEFINE r == [request[f] EXCEPT !.pc = "choose", !.free = free]
  <2>4. request[f] \in RequestType /\ "choose" \in RequestPc
    BY <1>0 DEF RequestPc
  <2>5. r \in RequestType
    BY <2>3, <2>4 DEF RequestType
  <2>6. request' = [request EXCEPT ![f] = r]
    BY <1>0, <2>1
  <2> HIDE DEF r
  <2> QED BY <1>0, <2>5, <2>6
<1>5. CASE ChooseVolume(f)
  <2>1. PICK v \in Candidates(f) :
          request' = [request EXCEPT ![f] =
                        [pc |-> "insert", among |-> {v}, free |-> NoRequest.free]]
    BY <1>5 DEF ChooseVolume
  <2>2. v \in Volume /\ NoRequest.free \in [Volume -> Nat]
    BY <1>0 DEF Candidates, RequestType, NoRequest
  <2> QED BY <1>0, <2>1, <2>2 DEF RequestType, RequestPc
<1>6. CASE RefuseFile(f)
  <2>1. [NoRequest EXCEPT !.pc = "refused"] \in RequestType
    BY DEF NoRequest, RequestType, RequestPc, Returned
  <2> QED BY <1>0, <1>6, <2>1 DEF RefuseFile
<1>7. CASE InsertRow(f) \/ WritePath(f) \/ CreateBlob(f) \/ QueueStore(f) \/ FailRequest(f)
  BY <1>1, <1>7 DEF InsertRow, WritePath, CreateBlob, QueueStore, FailRequest, RequestPc, Returned
<1> QED BY <1>2, <1>3, <1>4, <1>5, <1>6, <1>7 DEF RequestStep

AdminTyped ==
  /\ setting \in Setting
  /\ volumes \subseteq Volume /\ offered \subseteq Volume /\ removing \subseteq Volume
  /\ up \subseteq Node
  /\ reported \in [Volume -> Nat]
  /\ agent \in [Node -> {"used", "rows", "job"}]
DiskTyped ==
  stored \in [Volume -> SUBSET Upload] /\ partial \subseteq Upload
FileTyped ==
  /\ path \subseteq Upload /\ blobs \subseteq Upload
  /\ editing \in [File -> {"no", "bare", "path"}]
  /\ deleting \in [File -> {"no", "blobs", "row"}]
  /\ edited \subseteq File /\ deleted \subseteq File /\ spared \subseteq Upload
TableTyped ==
  /\ rows \in [File -> RowState]
  /\ place \in [File -> SUBSET Volume] /\ \A f \in File : Cardinality(place[f]) <= 1

LEMMA Parts ==
  TypeOK <=> /\ AdminTyped /\ DiskTyped /\ FileTyped /\ TableTyped
             /\ request \in [File -> RequestType] /\ work \in [Node -> Seq(Job)]
BY DEF TypeOK, AdminTyped, DiskTyped, FileTyped, TableTyped, RequestType

LEMMA AdminTypedNext ==
  ASSUME Typed, [Next]_vars
  PROVE  AdminTyped'
<1>0. AdminTyped /\ DiskTyped /\ setting' = setting
  BY Parts, Steps DEF Typed
<1>1. CASE UNCHANGED <<admin, reported, agent>>
  BY <1>0, <1>1 DEF admin, AdminTyped
<1>2. CASE UNCHANGED vars
  BY <1>1, <1>2 DEF vars, disk
<1>3. ASSUME NEW f \in File, Asks(f) \/ Writes(f) \/ QueueStore(f) \/ DeleteFile(f)
      PROVE  UNCHANGED <<admin, reported, agent>>
  BY <1>3, AskSteps, WriteSteps DEF Others, QueueStore, DeleteFile, disk
<1>4. ASSUME NEW v \in Volume, Manages(v)
      PROVE  AdminTyped'
  <2>1. UNCHANGED <<up, reported, agent>>
    BY <1>4, ManageSteps DEF disk
  <2>2. /\ volumes' \subseteq volumes
        /\ removing' \subseteq removing \cup {v} /\ offered' \subseteq offered \cup {v}
    BY <1>4 DEF Manages, ChangeVolume, RemoveVolume, RemoveRow
  <2> QED BY <1>0, <2>1, <2>2 DEF AdminTyped
<1>5. ASSUME NEW n \in Node, ChangeNode(n)
      PROVE  AdminTyped'
  <2>1. UNCHANGED <<volumes, offered, removing, reported, agent>>
    BY <1>5, NodeSteps DEF disk
  <2>2. up' \subseteq up \cup {n}
    BY <1>5 DEF ChangeNode
  <2> QED BY <1>0, <2>1, <2>2 DEF AdminTyped
<1>6. ASSUME NEW n \in Node, NEW what \in {"used", "rows", "job"}, Turn(n, what)
      PROVE  agent' \in [Node -> {"used", "rows", "job"}]
  BY <1>0, <1>6 DEF Turn, AdminTyped
<1>7. ASSUME NEW n \in Node, BeatUsed(n)
      PROVE  AdminTyped'
  <2>1. UNCHANGED admin
    BY <1>7 DEF BeatUsed
  <2>2. \A v \in Volume : BytesOf(stored[v] \ partial) \in Nat
    <3> TAKE v \in Volume
    <3>1. stored[v] \ partial \in SUBSET File
      BY <1>0 DEF DiskTyped, File
    <3> QED BY <3>1, AccountsNat
  <2>3. reported' \in [Volume -> Nat]
    BY <1>0, <1>7, <2>2 DEF BeatUsed, AdminTyped
  <2>4. agent' \in [Node -> {"used", "rows", "job"}]
    BY <1>6, <1>7 DEF BeatUsed
  <2> QED BY <1>0, <2>1, <2>3, <2>4 DEF AdminTyped, admin
<1>8. ASSUME NEW n \in Node, BeatRows(n) \/ NextLoop(n) \/ JobStep(n)
      PROVE  AdminTyped'
  <2>1. UNCHANGED <<admin, reported>>
    BY <1>8, Takes DEF BeatRows, NextLoop
  <2>2. agent' \in [Node -> {"used", "rows", "job"}]
    BY <1>6, <1>8, Takes DEF BeatRows, NextLoop, TakeJob
  <2> QED BY <1>0, <2>1, <2>2 DEF AdminTyped, admin
<1> QED BY <1>1, <1>2, <1>3, <1>4, <1>5, <1>7, <1>8, Steps DEF Beats

LEMMA DiskTypedNext ==
  ASSUME Typed, [Next]_vars
  PROVE  DiskTyped'
<1>0. DiskTyped
  BY Parts DEF Typed
<1>1. CASE UNCHANGED <<stored, partial>>
  BY <1>0, <1>1 DEF DiskTyped
<1>2. CASE UNCHANGED vars
  BY <1>1, <1>2 DEF vars, disk
<1>3. ASSUME NEW f \in File, Asks(f) \/ Writes(f) \/ QueueStore(f) \/ DeleteFile(f)
      PROVE  UNCHANGED <<stored, partial>>
  BY <1>3, AskSteps, WriteSteps DEF Others, QueueStore, DeleteFile, disk
<1>4. ASSUME NEW v \in Volume, Manages(v)
      PROVE  UNCHANGED <<stored, partial>>
  BY <1>4, ManageSteps DEF disk
<1>5. ASSUME NEW n \in Node, ChangeNode(n) \/ Beats(n)
      PROVE  UNCHANGED <<stored, partial>>
  BY <1>5, NodeSteps, BeatSteps DEF disk
<1>6. ASSUME NEW n \in Node, JobStep(n)
      PROVE  DiskTyped'
  <2> DEFINE job == Head(work[n])
  <2>1. job.on \in Volume /\ job.file \in Upload
    BY <1>6, Takes, RunLeaves DEF Job
  <2>2. /\ \/ stored' = stored
           \/ stored' = [stored EXCEPT ![job.on] = @ \cup {job.file}]
           \/ stored' = [stored EXCEPT ![job.on] = @ \ {job.file}]
        /\ partial' \subseteq partial \cup {job.file}
    BY <1>6 DEF JobStep, StoreFile, BreakStore, UnlinkFile, FailJob
  <2> HIDE DEF job
  <2> QED BY <1>0, <2>1, <2>2 DEF DiskTyped
<1> QED BY <1>1, <1>2, <1>3, <1>4, <1>5, <1>6, Steps

LEMMA FileTypedNext ==
  ASSUME Typed, Births, [Next]_vars
  PROVE  FileTyped'
<1>0. FileTyped /\ DiskTyped
  BY Parts DEF Typed
<1>1. CASE UNCHANGED <<path, blobs, editing, deleting, seen>>
  BY <1>0, <1>1 DEF FileTyped, seen
<1>2. CASE UNCHANGED vars
  BY <1>1, <1>2 DEF vars, table, users
<1>3. ASSUME NEW f \in File, Asks(f) \/ QueueStore(f) \/ InsertRow(f)
      PROVE  UNCHANGED <<path, blobs, editing, deleting, seen>>
  BY <1>3, AskSteps DEF Others, QueueStore, InsertRow, table
<1>4. ASSUME NEW f \in File, WritePath(f) \/ CreateBlob(f)
      PROVE  FileTyped'
  <2>1. f \in Upload
    BY <1>4 DEF WritePath, CreateBlob, Births, Waiting
  <2>2. path' \subseteq path \cup {f} /\ blobs' \subseteq blobs \cup {f}
    BY <1>4 DEF WritePath, CreateBlob
  <2>3. UNCHANGED <<editing, deleting, seen>>
    BY <1>4 DEF WritePath, CreateBlob
  <2> QED BY <1>0, <2>1, <2>2, <2>3 DEF FileTyped, seen
<1>5. ASSUME NEW f \in File, ReadEdit(f)
      PROVE  FileTyped'
  <2>1. editing' = [editing EXCEPT ![f] = IF f \in path THEN "path" ELSE "bare"]
    BY <1>5 DEF ReadEdit
  <2>2. UNCHANGED <<path, blobs, deleting, seen>>
    BY <1>5 DEF ReadEdit, table
  <2> QED BY <1>0, <2>1, <2>2 DEF FileTyped, seen
<1>6. ASSUME NEW f \in File, WriteEdit(f)
      PROVE  FileTyped'
  <2>1. path' \subseteq Upload
    BY <1>0, <1>6 DEF WriteEdit, Births, FileTyped
  <2>2. editing' \in [File -> {"no", "bare", "path"}] /\ edited' \subseteq File
    BY <1>0, <1>6 DEF WriteEdit, FileTyped
  <2>3. UNCHANGED <<blobs, deleting, deleted, spared>>
    BY <1>6 DEF WriteEdit
  <2> QED BY <1>0, <2>1, <2>2, <2>3 DEF FileTyped
<1>7. ASSUME NEW f \in File, DeleteFile(f)
      PROVE  FileTyped'
  <2>1. deleting' = [deleting EXCEPT ![f] = "blobs"] /\ deleted' = deleted \cup {f}
        /\ spared' \subseteq spared \cup ({f} \cap Upload)
    BY <1>7 DEF DeleteFile
  <2>2. UNCHANGED <<path, blobs, editing, edited>>
    BY <1>7 DEF DeleteFile, table
  <2> QED BY <1>0, <2>1, <2>2 DEF FileTyped
<1>8. ASSUME NEW f \in File, DropBlobs(f) \/ DeleteRow(f) \/ FailDelete(f)
      PROVE  FileTyped'
  <2>1. path' \subseteq path /\ blobs' \subseteq blobs
    BY <1>8 DEF DropBlobs, DeleteRow, FailDelete, table
  <2>2. editing' \in {editing, [editing EXCEPT ![f] = "no"]}
        /\ \E what \in {"no", "row"} : deleting' = [deleting EXCEPT ![f] = what]
    BY <1>8 DEF DropBlobs, DeleteRow, FailDelete
  <2>3. UNCHANGED seen
    BY <1>8 DEF DropBlobs, DeleteRow, FailDelete
  <2> QED BY <1>0, <2>1, <2>2, <2>3 DEF FileTyped, seen
<1>9. ASSUME NEW v \in Volume, Manages(v)
      PROVE  UNCHANGED <<path, blobs, editing, deleting, seen>>
  BY <1>9, ManageSteps DEF table, users
<1>10. ASSUME NEW n \in Node, ChangeNode(n) \/ BeatUsed(n) \/ NextLoop(n)
       PROVE  UNCHANGED <<path, blobs, editing, deleting, seen>>
  BY <1>10 DEF ChangeNode, BeatUsed, NextLoop, table, users
<1>11. ASSUME NEW n \in Node, BeatRows(n)
       PROVE  FileTyped'
  <2> DEFINE found == UNION {stored[v] : v \in Mounted(n)} \ partial
             new == found \ path
  <2>1. found \subseteq Upload
    BY <1>0 DEF Mounted, DiskTyped, Typed, TypeOK
  <2>2. /\ path' = path \cup found
        /\ editing' = [f \in File |-> IF f \in new THEN "no" ELSE editing[f]]
        /\ deleting' = [f \in File |-> IF f \in new THEN "no" ELSE deleting[f]]
        /\ UNCHANGED <<blobs, seen>>
    BY <1>11 DEF BeatRows
  <2> HIDE DEF found, new
  <2> QED BY <1>0, <2>1, <2>2 DEF FileTyped, seen
<1>12. ASSUME NEW n \in Node, JobStep(n)
       PROVE  FileTyped'
  <2>1. UNCHANGED <<path, blobs, editing, deleting, edited, deleted>>
    BY <1>12, Takes DEF users
  <2>2. spared' \subseteq Upload
    BY <1>0, <1>12, JobEffect DEF FileTyped
  <2> QED BY <1>0, <2>1, <2>2 DEF FileTyped
<1> QED BY <1>1, <1>2, <1>3, <1>4, <1>5, <1>6, <1>7, <1>8, <1>9, <1>10, <1>11, <1>12, Steps
        DEF Writes, Beats

LEMMA SmallSets ==
  ASSUME NEW S, \A x, y \in S : x = y
  PROVE  Cardinality(S) <= 1
<1>1. CASE S = {}
  BY <1>1, FS_EmptySet
<1>2. CASE S # {}
  <2>1. \E x : S = {x}
    BY <1>2
  <2> QED BY <2>1, FS_Singleton
<1> QED BY <1>1, <1>2

LEMMA TableTypedNext ==
  ASSUME Typed, OneSpot, Births, [Next]_vars
  PROVE  TableTyped'
<1>0. /\ rows \in [File -> RowState] /\ place \in [File -> SUBSET Volume]
      /\ \A f \in File : Cardinality(place[f]) <= 1
      /\ volumes \subseteq Volume
  BY DEF Typed, TypeOK
<1>2. rows' \in [File -> RowState] /\ DOMAIN place' = File /\ place' = [f \in File |-> place'[f]]
  <2>1. CASE rows' = rows /\ place' = place
    BY <1>0, <2>1
  <2>2. CASE UNCHANGED vars
    BY <2>1, <2>2 DEF vars, table
  <2>3. ASSUME NEW f \in File, Asks(f) \/ QueueStore(f) \/ DeleteFile(f)
        PROVE  rows' = rows /\ place' = place
    BY <2>3, AskSteps DEF Others, QueueStore, DeleteFile, table
  <2>4. ASSUME NEW f \in File, Writes(f)
        PROVE  /\ rows' = rows \/ \E s \in RowState : rows' = [rows EXCEPT ![f] = s]
               /\ place' = place \/ \E s : place' = [place EXCEPT ![f] = s]
    <3>1. CASE WritePath(f)
      BY <1>0, <3>1 DEF WritePath, RowState
    <3>2. CASE InsertRow(f) \/ CreateBlob(f) \/ ReadEdit(f) \/ WriteEdit(f) \/ DropBlobs(f)
               \/ DeleteRow(f) \/ FailDelete(f)
      BY <3>2 DEF InsertRow, CreateBlob, ReadEdit, WriteEdit, DropBlobs, DeleteRow, FailDelete,
                  table, RowState
    <3> QED BY <2>4, <3>1, <3>2 DEF Writes
  <2>5. ASSUME NEW v \in Volume, Manages(v)
        PROVE  rows' = rows /\ place' = place
    BY <2>5, ManageSteps DEF table
  <2>6. ASSUME NEW n \in Node, ChangeNode(n) \/ BeatUsed(n) \/ NextLoop(n)
        PROVE  rows' = rows /\ place' = place
    BY <2>6 DEF ChangeNode, BeatUsed, NextLoop, table
  <2>7. CASE \E n \in Node : BeatRows(n)
    <3>1. PICK n \in Node : BeatRows(n)
      BY <2>7
    <3> DEFINE found == UNION {stored[v] : v \in Mounted(n)} \ partial
               F == [f \in File |-> IF f \in found THEN {v \in Mounted(n) : f \in stored[v]}
                                    ELSE place[f]]
    <3>2. rows' = [f \in File |-> IF f \in found THEN "counted" ELSE rows[f]] /\ place' = F
      BY <3>1 DEF BeatRows
    <3>3. F = [f \in File |-> F[f]]
      OBVIOUS
    <3> HIDE DEF found, F
    <3> QED BY <1>0, <3>2, <3>3 DEF RowState
  <2>8. CASE \E n \in Node : JobStep(n)
    <3>1. place' = place
      BY <2>8, MarkSteps
    <3>2. rows' = rows \/ \E g : rows' = [rows EXCEPT ![g] = IF @ = "none" THEN @ ELSE "counted"]
      BY <2>8, MarkSteps
    <3> QED BY <1>0, <3>1, <3>2 DEF RowState
  <2>9. CASE \E f \in File : Writes(f)
    BY <1>0, <2>4, <2>9
  <2> QED BY <2>1, <2>2, <2>3, <2>5, <2>6, <2>7, <2>8, <2>9, Steps DEF Beats
<1>3. ASSUME NEW f \in File PROVE place'[f] \in SUBSET Volume /\ Cardinality(place'[f]) <= 1
  <2>1. CASE place'[f] = place[f]
    BY <1>0, <2>1
  <2>2. CASE Inserted(f)
    <3>1. request[f].pc = "insert"
      BY <2>2 DEF Inserted, InsertRow
    <3>2. PICK v \in Volume : place'[f] = {v}
      BY <2>2, <3>1 DEF Inserted, Births
    <3> QED BY <3>2, FS_Singleton
  <2>3. CASE Dropped(f)
    BY <2>3, FS_EmptySet DEF Dropped
  <2>4. CASE \E n \in Node : Reported(n, f)
    <3>1. PICK n \in Node : place'[f] = {v \in Mounted(n) : f \in stored[v]}
      BY <2>4 DEF Reported
    <3>2. place'[f] \subseteq Volume
      BY <1>0, <3>1 DEF Mounted
    <3>3. \A v, w \in place'[f] : v = w
      BY <3>1, <3>2 DEF OneSpot, Spot
    <3> QED BY <3>2, <3>3, SmallSets
  <2> QED BY <2>1, <2>2, <2>3, <2>4, RowSteps
<1> QED BY <1>2, <1>3 DEF TableTyped

LEMMA TypedNext ==
  ASSUME Typed, OneSpot, Births, [Next]_vars
  PROVE  Typed'
<1>1. request \in [File -> RequestType] /\ work \in [Node -> Seq(Job)] /\ JobsAtHome
  BY Parts DEF Typed
<1>2. request' \in [File -> RequestType]
  <2>1. CASE request' = request
    BY <1>1, <2>1
  <2>2. CASE \E f \in File : RequestStep(f)
    BY <2>2, RequestTyped
  <2>3. CASE ~\E f \in File : RequestStep(f)
    <3>1. CASE UNCHANGED vars
      BY <2>1, <3>1 DEF vars, users
    <3>2. ASSUME NEW f \in File, UserStep(f)
          PROVE  request' = request
      BY <3>2 DEF UserStep, ReadEdit, WriteEdit, DeleteFile, DropBlobs, DeleteRow, FailDelete
    <3>3. ASSUME NEW v \in Volume, Manages(v)
          PROVE  request' = request
      BY <3>3, ManageSteps DEF users
    <3>4. ASSUME NEW n \in Node, ChangeNode(n) \/ Beats(n) \/ JobStep(n)
          PROVE  request' = request
      BY <3>4, NodeSteps, BeatSteps, Takes DEF users
    <3> QED BY <2>1, <2>3, <3>1, <3>2, <3>3, <3>4 DEF Next, Manages, Beats
  <2> QED BY <2>2, <2>3
<1>3. work' \in [Node -> Seq(Job)] /\ JobsAtHome'
  <2>1. CASE work' = work
    BY <1>1, <2>1 DEF JobsAtHome
  <2>2. ASSUME NEW f \in File, QueueStore(f) PROVE work' \in [Node -> Seq(Job)] /\ JobsAtHome'
    <3>1. PICK v \in request[f].among : Enqueue(v, [op |-> "store", file |-> f, on |-> v])
      BY <2>2 DEF QueueStore
    <3>2. f \in Upload
      BY <2>2 DEF QueueStore, Births, Waiting
    <3>3. v \in Volume
      BY <3>1 DEF Typed, TypeOK
    <3> QED BY <3>1, <3>2, <3>3, JobTypes
  <2>3. ASSUME NEW f \in File, DeleteFile(f), work' # work
        PROVE  work' \in [Node -> Seq(Job)] /\ JobsAtHome'
    <3>1. f \in path
      BY <2>3 DEF DeleteFile, Erase
    <3>2. PICK v \in place[f] : Enqueue(v, [op |-> "erase", file |-> f, on |-> v])
      BY <2>3, <3>1 DEF DeleteFile, Erase
    <3>3. v \in Volume /\ f \in Upload
      BY <3>1, <3>2 DEF Typed, TypeOK
    <3> QED BY <3>2, <3>3, JobTypes
  <2>4. ASSUME NEW n \in Node, JobStep(n)
        PROVE  work' \in [Node -> Seq(Job)] /\ JobsAtHome'
    BY <2>4, Takes, JobTypesRun
  <2>5. CASE UNCHANGED vars
    BY <2>1, <2>5 DEF vars, disk
  <2>6. ASSUME NEW f \in File, Asks(f) \/ Writes(f)
        PROVE  work' = work
    BY <2>6, AskSteps, WriteSteps DEF Others, disk
  <2>7. ASSUME NEW v \in Volume, Manages(v)
        PROVE  work' = work
    BY <2>7, ManageSteps DEF disk
  <2>8. ASSUME NEW n \in Node, ChangeNode(n) \/ Beats(n)
        PROVE  work' = work
    BY <2>8, NodeSteps, BeatSteps DEF disk
  <2> QED BY <2>1, <2>2, <2>3, <2>4, <2>5, <2>6, <2>7, <2>8, Steps
<1>4. TypeOK'
  <2>1. AdminTyped' /\ DiskTyped' /\ FileTyped' /\ TableTyped'
    BY AdminTypedNext, DiskTypedNext, FileTypedNext, TableTypedNext
  <2>2. (/\ AdminTyped /\ DiskTyped /\ FileTyped /\ TableTyped
         /\ request \in [File -> RequestType] /\ work \in [Node -> Seq(Job)])' => TypeOK'
    BY DEF TypeOK, AdminTyped, DiskTyped, FileTyped, TableTyped, RequestType
  <2> QED BY <1>2, <1>3, <2>1, <2>2
<1> QED BY <1>3, <1>4 DEF Typed

-----------------------------------------------------------------------------
(* The traces of a file *)

\* A handler goes one way.
Forward(f) ==
  \/ request'[f] = request[f]
  \/ /\ request[f].pc = "idle" /\ CheckLimit(f)
     /\ request'[f].pc \in {"refused", "volumes"}
  \/ request[f].pc = "volumes" /\ request'[f].pc = "used"
  \/ request[f].pc = "used" /\ request'[f].pc = "choose" /\ ReadUsed(f)
  \/ request[f].pc = "choose" /\ request'[f].pc = "insert" /\ ChooseVolume(f)
  \/ request[f].pc \in {"volumes", "used", "choose", "insert"} /\ request'[f].pc = "refused"
  \/ /\ request[f].pc = "insert" /\ Inserted(f) /\ request'[f].among = request[f].among
     /\ request'[f].pc = IF f \in Upload THEN "path" ELSE "done"
  \/ Waiting(f) /\ Waiting(f)' /\ request'[f].among = request[f].among
  \/ request[f].pc = "queue" /\ request'[f].pc = "done"
  \/ Waiting(f) /\ request'[f].pc = "failed"

LEMMA PcSteps ==
  ASSUME Typed, [Next]_vars, NEW f \in File
  PROVE  /\ Forward(f)
         /\ Inserted(f) => request[f].pc = "insert" /\ request'[f].pc \in {"path", "done"}
         /\ QueueStore(f) => request[f].pc = "queue" /\ request'[f].pc = "done"
<1>0. /\ request \in [File -> RequestType]
      /\ rows \in [File -> RowState] /\ place \in [File -> SUBSET Volume]
  BY DEF Typed, TypeOK, RequestType
<1>1. ASSUME NEW pc, Step(f, pc)
      PROVE  request'[f].pc = pc /\ request'[f].among = request[f].among
  BY <1>0, <1>1 DEF Step, RequestType
<1>2. ASSUME CheckLimit(f) PROVE Forward(f)
  BY <1>1, <1>2 DEF CheckLimit, Forward
<1>3. ASSUME ReadVolumes(f) PROVE Forward(f)
  BY <1>0, <1>3 DEF ReadVolumes, Forward
<1>4. ASSUME ReadUsed(f) PROVE Forward(f)
  <2>1. request[f].pc = "used" /\ request'[f].pc = "choose"
    BY <1>0, <1>4 DEF ReadUsed, RequestType
  <2> QED BY <1>4, <2>1 DEF Forward
<1>5. ASSUME ChooseVolume(f) PROVE Forward(f)
  <2>1. request[f].pc = "choose" /\ request'[f].pc = "insert"
    BY <1>0, <1>5 DEF ChooseVolume
  <2> QED BY <1>5, <2>1 DEF Forward
<1>6. ASSUME RefuseFile(f) PROVE Forward(f)
  BY <1>0, <1>6 DEF RefuseFile, NoRequest, Forward
<1>7. InsertRow(f) => /\ request[f].pc = "insert" /\ Inserted(f)
                      /\ request'[f].among = request[f].among
                      /\ request'[f].pc = IF f \in Upload THEN "path" ELSE "done"
  BY <1>0, <1>1 DEF InsertRow, Inserted
<1>8. ASSUME WritePath(f) PROVE Forward(f)
  BY <1>1, <1>8 DEF WritePath, Waiting, Forward
<1>9. ASSUME CreateBlob(f) PROVE Forward(f)
  BY <1>1, <1>9 DEF CreateBlob, Waiting, Forward
<1>10. QueueStore(f) => request[f].pc = "queue" /\ request'[f].pc = "done"
  BY <1>1 DEF QueueStore
<1>11. ASSUME FailRequest(f) PROVE Forward(f)
  <2>1. CASE Waiting(f)
    BY <1>1, <1>11, <2>1 DEF FailRequest, Waiting, Forward
  <2>2. CASE ~Waiting(f)
    <3>1. request'[f].pc = "refused"
      BY <1>1, <1>11, <2>2 DEF FailRequest, Waiting
    <3>2. request[f].pc \in {"volumes", "used", "choose", "insert"}
      BY <1>0, <1>11, <2>2 DEF FailRequest, Waiting, RequestType, RequestPc, Returned
    <3> QED BY <3>1, <3>2 DEF Forward
  <2> QED BY <2>1, <2>2
<1>12. Forward(f)
  <2>1. CASE request'[f] = request[f]
    BY <2>1 DEF Forward
  <2>2. CASE InsertRow(f)
    BY <1>7, <2>2 DEF Forward
  <2>3. CASE QueueStore(f)
    BY <1>10, <2>3 DEF Forward
  <2> QED BY <1>2, <1>3, <1>4, <1>5, <1>6, <1>8, <1>9, <1>11, <2>1, <2>2, <2>3, RequestSteps
          DEF RequestStep
<1> QED BY <1>7, <1>10, <1>12 DEF Inserted

\* What follows from it.
LEMMA Ways ==
  ASSUME Typed, [Next]_vars, NEW f \in File
  PROVE  /\ Unborn(f)' => Unborn(f) /\ ~Inserted(f)
         /\ Unborn(f) /\ ~Unborn(f)' => Inserted(f)
         /\ request'[f].pc = "choose" => request'[f] = request[f] \/ ReadUsed(f)
         /\ request'[f].pc = "insert" => request'[f] = request[f] \/ ChooseVolume(f)
         /\ Waiting(f)' => /\ request'[f].among = request[f].among
                           /\ Waiting(f) \/ (Inserted(f) /\ f \in Upload)
                           /\ ~QueueStore(f)
         /\ Between(f)' => Between(f) \/ (CheckLimit(f) /\ request'[f].pc = "volumes")
<1>1. Forward(f) /\ (Inserted(f) => request[f].pc = "insert" /\ request'[f].pc \in {"path", "done"})
      /\ (QueueStore(f) => request[f].pc = "queue" /\ request'[f].pc = "done")
  BY PcSteps
<1>2. Unborn(f)' => Unborn(f) /\ ~Inserted(f)
  BY <1>1 DEF Forward, Unborn, Waiting
<1>3. Unborn(f) /\ ~Unborn(f)' => Inserted(f)
  BY <1>1 DEF Forward, Unborn, Waiting
<1>4. /\ request'[f].pc = "choose" => request'[f] = request[f] \/ ReadUsed(f)
      /\ request'[f].pc = "insert" => request'[f] = request[f] \/ ChooseVolume(f)
  BY <1>1 DEF Forward, Waiting
<1>5. Waiting(f)' => /\ request'[f].among = request[f].among
                     /\ Waiting(f) \/ (Inserted(f) /\ f \in Upload)
                     /\ ~QueueStore(f)
  BY <1>1 DEF Forward, Waiting
<1>6. Between(f)' => Between(f) \/ (CheckLimit(f) /\ request'[f].pc = "volumes")
  BY <1>1 DEF Forward, Between, Waiting, RequestPc, Returned
<1> QED BY <1>2, <1>3, <1>4, <1>5, <1>6

\* A file leaves its first trace when its job is queued, by whoever asks for it or
\* for its deletion.
LEMMA FreshStays ==
  ASSUME Typed, Births, [Next]_vars, NEW f \in File,
         rows[f] = "none", ~QueueStore(f), Fresh(f)
  PROVE  Fresh(f)'
<1>1. ~WriteEdit(f) /\ ~DeleteFile(f)
  BY DEF WriteEdit, DeleteFile, Births
<1>2. f \notin edited' \cup deleted'
  BY <1>1, HistorySteps DEF Fresh, Touched
<1>3. f \notin spared'
  BY <1>1, SparedSteps DEF Fresh, Jobless
<1>4. Unstored(f)'
  BY UnstoredStays DEF Fresh
<1>5. Jobless(f)'
  BY <1>1, TraceSteps DEF Fresh, Jobless
<1> QED BY <1>2, <1>3, <1>4, <1>5 DEF Fresh, Touched

LEMMA SpotsStay ==
  ASSUME Typed, Births, [Next]_vars, NEW f \in File, NEW v \in Volume, Spot(f, v)'
  PROVE  Spot(f, v) \/ (Inserted(f) /\ v \in request[f].among)
<1>0. QueueStore(f) => Waiting(f)
  BY DEF QueueStore, Waiting
<1>1. CASE HasJob(v, f)' \/ f \in stored'[v]
  BY <1>0, <1>1, TraceSteps DEF Spot
<1>2. CASE v \in place'[f]
  <2>1. CASE \E n \in Node : Reported(n, f)
    BY <1>2, <2>1 DEF Reported, Spot
  <2> QED BY <1>2, <2>1, RowSteps DEF Inserted, Dropped, Spot
<1>3. CASE Waiting(f)' /\ v \in request'[f].among
  BY <1>3, Ways DEF Spot
<1> QED BY <1>1, <1>2, <1>3 DEF Spot

LEMMA InsertedFresh ==
  ASSUME Births, NEW f \in File, Inserted(f)
  PROVE  /\ Fresh(f) /\ request[f].pc = "insert" /\ rows[f] = "none"
         /\ \A v \in Volume : ~Spot(f, v)
         /\ \E v \in Volume : request[f].among = {v}
<1>1. request[f].pc = "insert" /\ ~Waiting(f)
  BY DEF Inserted, InsertRow, Waiting
<1>2. Fresh(f) /\ rows[f] = "none" /\ place[f] = {}
  BY <1>1 DEF Births, Unborn
<1>3. \A v \in Volume : ~Spot(f, v)
  BY <1>1, <1>2 DEF Spot, Fresh, Unstored, Jobless
<1> QED BY <1>1, <1>2, <1>3 DEF Births

LEMMA OneSpotNext ==
  ASSUME Typed, OneSpot, Births, [Next]_vars
  PROVE  OneSpot'
<1> SUFFICES ASSUME NEW f \in File, NEW v \in Volume, NEW w \in Volume,
                    Spot(f, v)', Spot(f, w)'
             PROVE  v = w
  BY DEF OneSpot
<1>1. CASE Inserted(f)
  BY <1>1, SpotsStay, InsertedFresh
<1>2. CASE ~Inserted(f)
  BY <1>2, SpotsStay DEF OneSpot
<1> QED BY <1>1, <1>2

\* A heartbeat reports only files that are stored.
LEMMA ReportedStored ==
  ASSUME Typed, NEW f \in File, NEW n \in Node, Reported(n, f)
  PROVE  /\ \E v \in Volume : f \in stored[v]
         /\ place'[f] # {} /\ place'[f] \subseteq volumes /\ rows'[f] = "counted"
         /\ \A v \in place'[f] : v \in Volume /\ f \in stored[v]
<1>1. volumes \subseteq Volume
  BY DEF Typed, TypeOK
<1> QED BY <1>1 DEF Reported, Mounted

\* A handler that waits keeps its row where it goes until somebody deletes it.
LEMMA WaitingStays ==
  ASSUME Typed, Births, [Next]_vars, NEW f \in File, Waiting(f)'
  PROVE  f \in Upload /\ Unstored(f)' /\ (f \in spared' \/ Aimed(f)')
<1>0. ~QueueStore(f) /\ request'[f].among = request[f].among
  BY Ways
<1>1. CASE Inserted(f) /\ f \in Upload
  <2>1. Fresh(f) /\ rows[f] = "none"
    BY <1>1, InsertedFresh
  <2>2. Fresh(f)'
    BY <1>0, <2>1, FreshStays
  <2>3. place'[f] = request'[f].among
    BY <1>0, <1>1 DEF Inserted
  <2> QED BY <1>1, <2>2, <2>3 DEF Fresh, Aimed, Touched
<1>2. CASE Waiting(f)
  <2>1. f \in Upload /\ Unstored(f) /\ (f \in spared \/ Aimed(f))
    BY <1>2 DEF Births
  <2>2. Unstored(f)'
    BY <1>0, <2>1, UnstoredStays
  <2>3. CASE f \in spared'
    BY <2>1, <2>2, <2>3
  <2>4. CASE f \notin spared'
    <3>1. Aimed(f)
      BY <2>1, <2>4, SparedSteps
    <3>2. ~DeleteFile(f)
      BY <1>2, <2>1, <2>4 DEF DeleteFile, Waiting, Returned
    <3>3. f \notin deleted' /\ Jobless(f)'
      BY <1>0, <3>1, <3>2, HistorySteps, TraceSteps DEF Aimed, Jobless
    <3>4. ~Inserted(f) /\ ~Dropped(f)
      BY <1>2, <3>1 DEF Inserted, InsertRow, Waiting, Dropped, DeleteRow, Births, Aimed
    <3>5. ~\E n \in Node : Reported(n, f)
      BY <2>1, ReportedStored DEF Unstored
    <3>6. place'[f] = place[f]
      BY <3>4, <3>5, RowSteps
    <3> QED BY <1>0, <2>1, <2>2, <3>1, <3>3, <3>6 DEF Aimed
  <2> QED BY <2>3, <2>4
<1> QED BY <1>1, <1>2, Ways

LEMMA BirthsNext ==
  ASSUME Typed, OneSpot, Births, [Next]_vars
  PROVE  Births'
<1> SUFFICES ASSUME NEW f \in File
    PROVE /\ Unborn(f)' => Fresh(f)' /\ rows'[f] = "none"
          /\ Waiting(f)' => f \in Upload /\ Unstored(f)' /\ (f \in spared' \/ Aimed(f)')
          /\ request'[f].pc = "insert" \/ Waiting(f)' => \E v \in Volume : request'[f].among = {v}
          /\ ~Unborn(f)' /\ f \notin Touched' => rows'[f] = "counted"
          /\ f \notin edited' => rows'[f] # "uncounted"
          /\ rows'[f] = "none" <=> place'[f] = {}
          /\ place'[f] \subseteq volumes'
          /\ editing'[f] # "no" => rows'[f] # "none"
          /\ editing'[f] = "path" => f \in Upload
          /\ deleting'[f] # "no" => f \in deleted'
  BY DEF Births
<1>0. rows[f] \in RowState /\ rows'[f] \in RowState
  <2>1. Typed'
    BY TypedNext
  <2> QED BY <2>1 DEF Typed, TypeOK
<1>1. Unborn(f)' => Fresh(f)' /\ rows'[f] = "none"
  <2> SUFFICES ASSUME Unborn(f)' PROVE Fresh(f)' /\ rows'[f] = "none"
    OBVIOUS
  <2>1. Unborn(f) /\ ~Inserted(f) /\ Fresh(f) /\ rows[f] = "none"
    BY Ways DEF Births
  <2>2. Fresh(f)'
    BY <2>1, FreshStays DEF Unborn, QueueStore
  <2>3. ~\E n \in Node : Reported(n, f)
    BY <2>1, ReportedStored DEF Fresh, Unstored
  <2>4. ~WriteEdit(f)
    BY <2>1 DEF WriteEdit, Births
  <2> QED BY <2>1, <2>2, <2>3, <2>4, RowSteps DEF Dropped
<1>2. Waiting(f)' => f \in Upload /\ Unstored(f)' /\ (f \in spared' \/ Aimed(f)')
  BY WaitingStays
<1>3. request'[f].pc = "insert" \/ Waiting(f)' => \E v \in Volume : request'[f].among = {v}
  <2> SUFFICES ASSUME request'[f].pc = "insert" \/ Waiting(f)'
               PROVE  \E v \in Volume : request'[f].among = {v}
    OBVIOUS
  <2>1. CASE Waiting(f)'
    BY <2>1, Ways, InsertedFresh DEF Births
  <2>2. CASE request'[f].pc = "insert" /\ request'[f] = request[f]
    BY <2>2 DEF Births
  <2>3. CASE ChooseVolume(f)
    <3>1. request \in [File -> RequestType]
      BY DEF Typed, TypeOK, RequestType
    <3>2. PICK v \in Candidates(f) :
            request' = [request EXCEPT ![f] =
                          [pc |-> "insert", among |-> {v}, free |-> NoRequest.free]]
      BY <2>3 DEF ChooseVolume
    <3> QED BY <3>1, <3>2 DEF Candidates, RequestType
  <2> QED BY <2>1, <2>2, <2>3, Ways
<1>4. ~Unborn(f)' /\ f \notin Touched' => rows'[f] = "counted"
  <2> SUFFICES ASSUME ~Unborn(f)', f \notin edited', f \notin deleted' PROVE rows'[f] = "counted"
    BY DEF Touched
  <2>1. f \notin edited /\ f \notin deleted /\ deleting[f] = "no"
    BY HistorySteps DEF Births
  <2>2. ~Dropped(f)
    BY <2>1 DEF Dropped, DeleteRow
  <2>3. ~WriteEdit(f)
    BY DEF WriteEdit
  <2>4. Inserted(f) \/ rows[f] = "counted"
    BY <2>1, Ways DEF Births, Touched
  <2> QED BY <2>2, <2>3, <2>4, RowSteps DEF Inserted, Reported
<1>5. f \notin edited' => rows'[f] # "uncounted"
  <2> SUFFICES ASSUME f \notin edited' PROVE rows'[f] # "uncounted"
    OBVIOUS
  <2>1. rows[f] # "uncounted"
    BY HistorySteps DEF Births
  <2>2. ~WriteEdit(f)
    BY DEF WriteEdit
  <2> QED BY <2>1, <2>2, RowSteps DEF Inserted, Reported, Dropped
<1>6. rows'[f] = "none" <=> place'[f] = {}
  <2>1. CASE Inserted(f)
    BY <2>1, InsertedFresh DEF Inserted
  <2>2. CASE Dropped(f)
    BY <2>2 DEF Dropped
  <2>3. CASE \E n \in Node : Reported(n, f)
    BY <2>3, ReportedStored
  <2>4. CASE place'[f] = place[f] /\ (rows'[f] = "none" <=> rows[f] = "none")
    BY <2>4 DEF Births
  <2> QED BY <2>1, <2>2, <2>3, <2>4, RowSteps
<1>7. place'[f] \subseteq volumes'
  <2>1. place'[f] \subseteq volumes
    <3>1. CASE \E n \in Node : Reported(n, f)
      BY <3>1, ReportedStored
    <3>2. CASE Inserted(f)
      BY <3>2 DEF Inserted, InsertRow
    <3> QED BY <3>1, <3>2, RowSteps DEF Dropped, Births
  <2>2. \A v \in volumes \ volumes' : v \notin place'[f]
    BY HistorySteps
  <2> QED BY <2>1, <2>2
<1>8. editing'[f] # "no" => rows'[f] # "none"
  <2> SUFFICES ASSUME editing'[f] # "no" PROVE rows'[f] # "none"
    OBVIOUS
  <2>1. rows[f] # "none" /\ ~Dropped(f)
    BY UserSteps DEF Births, ReadEdit, Dropped
  <2> QED BY <2>1, RowSteps DEF Inserted, Reported
<1>9. editing'[f] = "path" => f \in Upload
  <2> SUFFICES ASSUME editing'[f] = "path" PROVE f \in Upload
    OBVIOUS
  <2>1. CASE editing'[f] = editing[f]
    BY <2>1 DEF Births
  <2>2. CASE ReadEdit(f)
    BY <2>2 DEF ReadEdit, Typed, TypeOK
  <2> QED BY <2>1, <2>2, UserSteps
<1>10. deleting'[f] # "no" => f \in deleted'
  <2>1. DeleteFile(f) => f \in deleted'
    BY DEF DeleteFile
  <2>2. DropBlobs(f) => f \in deleted
    BY DEF DropBlobs, Births
  <2> QED BY <2>1, <2>2, UserSteps, HistorySteps DEF Births
<1> QED BY <1>1, <1>2, <1>3, <1>4, <1>5, <1>6, <1>7, <1>8, <1>9, <1>10

LEMMA StoredFirstNext ==
  ASSUME Typed, Births, StoredFirst, [Next]_vars
  PROVE  StoredFirst'
<1> SUFFICES ASSUME NEW w \in Volume, NEW g \in Upload \ spared', NEW i \in Nat, NEW j \in Nat,
                    IsJob(w, i, "store", g)', IsJob(w, j, "erase", g)'
             PROVE  i < j
  BY DEF StoredFirst
<1>0. g \notin spared
  BY SparedSteps
<1>1. CASE UNCHANGED <<work, stored>>
  BY <1>0, <1>1 DEF IsJob, Queued, StoredFirst
<1>2. ASSUME NEW f \in Upload, NEW v \in Volume, QueueStore(f), Joins(v, "store", f)
      PROVE  i < j
  <2>1. IsJob(w, j, "erase", g)
    BY <1>2 DEF Joins
  <2>2. g # f
    <3> SUFFICES ASSUME g = f PROVE FALSE
      OBVIOUS
    <3>1. Waiting(f) /\ f \in File
      BY <1>2 DEF QueueStore, Waiting, File
    <3>2. Jobless(f)
      BY <1>0, <3>1 DEF Births, Aimed
    <3> QED BY <2>1, <3>2 DEF Jobless, HasJob
  <2>3. IsJob(w, i, "store", g)
    BY <1>2, <2>2 DEF Joins
  <2> QED BY <1>0, <2>1, <2>3 DEF StoredFirst
<1>3. ASSUME NEW f \in Upload, NEW v \in Volume, Joins(v, "erase", f)
      PROVE  i < j
  <2>1. IsJob(w, i, "store", g)
    BY <1>3 DEF Joins
  <2>2. IsJob(w, j, "erase", g) \/ (w = v /\ j = Len(Queued(v)) + 1)
    BY <1>3 DEF Joins
  <2>3. i \in 1..Len(Queued(w)) /\ Len(Queued(w)) \in Nat
    BY <2>1, QueueTypes DEF IsJob
  <2>4. CASE IsJob(w, j, "erase", g)
    BY <1>0, <2>1, <2>4 DEF StoredFirst
  <2>5. CASE w = v /\ j = Len(Queued(v)) + 1
    BY <2>3, <2>5
  <2> QED BY <2>2, <2>4, <2>5
<1>4. ASSUME NEW n \in Node, NEW v \in Volume, NEW f \in Upload, NEW op, Leaves(n, v, op, f)
      PROVE  i < j
  <2>1. i \in Nat \ {0} /\ j \in Nat \ {0}
    BY DEF IsJob
  <2>2. CASE Home[w] = n
    <3>1. IsJob(w, i + 1, "store", g) /\ IsJob(w, j + 1, "erase", g)
      BY <1>4, <2>1, <2>2 DEF Leaves
    <3>2. i + 1 \in Nat /\ j + 1 \in Nat /\ (i + 1 < j + 1 => i < j)
      BY <2>1
    <3> QED BY <1>0, <3>1, <3>2 DEF StoredFirst
  <2>3. CASE Home[w] # n
    <3>1. IsJob(w, i, "store", g) /\ IsJob(w, j, "erase", g)
      BY <1>4, <2>1, <2>3 DEF Leaves
    <3> QED BY <1>0, <3>1 DEF StoredFirst
  <2> QED BY <2>2, <2>3
<1> QED BY <1>1, <1>2, <1>3, <1>4, JobSteps

\* A deletion queues the job that erases the file where it will be, or spares it.
LEMMA DeleteErases ==
  ASSUME Typed, Births, [Next]_vars, NEW f \in Upload, NEW v \in Volume, place[f] = {v},
         DeleteFile(f)
  PROVE  f \notin Final(v)'
<1>1. CASE f \in path
  <2>1. Enqueue(v, [op |-> "erase", file |-> f, on |-> v]) /\ stored' = stored
    BY <1>1 DEF DeleteFile, Erase
  <2>2. Joins(v, "erase", f)
    BY <2>1, EnqueueJoins
  <2> QED BY <2>1, <2>2, ForeseenJoins, SparedSteps
<1>2. CASE f \notin path
  <2>1. f \in spared'
    BY <1>2 DEF DeleteFile
  <2> QED BY <2>1 DEF Final, After
<1> QED BY <1>1, <1>2

LEMMA FinalSpot ==
  ASSUME NEW v \in Volume, NEW f \in Final(v), Typed
  PROVE  f \in Upload /\ f \in File /\ f \notin spared /\ Spot(f, v) /\ ~Unstored(f)
<1>1. /\ f \in Upload /\ f \notin spared
      /\ f \in stored[v] \/ \E i \in 1..Len(Queued(v)) : IsJob(v, i, "store", f)
  BY DEF Final, After
<1>2. Len(Queued(v)) \in Nat
  BY QueueTypes
<1>3. f \in stored[v] \/ \E i \in Nat : IsJob(v, i, "store", f)
  BY <1>1, <1>2
<1> QED BY <1>1, <1>3 DEF Spot, Unstored, HasJob, File

LEMMA RowedNext ==
  ASSUME Typed, Traces, [Next]_vars
  PROVE  Rowed'
<1> USE DEF Traces
<1> SUFFICES ASSUME NEW v \in Volume, NEW f \in Final(v)'
             PROVE  place'[f] = {v} /\ deleting'[f] = "no"
  BY DEF Rowed
<1>0. f \in Upload /\ f \in File /\ f \notin spared'
  BY DEF Final, After, File
<1>1. CASE f \in Final(v)
  <2>1. place[f] = {v} /\ deleting[f] = "no" /\ Spot(f, v) /\ ~Unstored(f)
    BY <1>1, FinalSpot DEF Rowed
  <2>2. ~DeleteFile(f)
    BY <1>0, <2>1, DeleteErases
  <2>3. deleting'[f] = "no"
    BY <1>0, <2>1, <2>2, UserSteps DEF DropBlobs
  <2>4. ~Inserted(f) /\ ~Dropped(f)
    BY <1>0, <2>1, InsertedFresh DEF Fresh, Dropped, DeleteRow
  <2>5. CASE \E n \in Node : Reported(n, f)
    <3>1. place'[f] # {} /\ \A w \in place'[f] : w \in Volume /\ f \in stored[w]
      BY <1>0, <2>5, ReportedStored
    <3>2. \A w \in place'[f] : w = v
      BY <1>0, <2>1, <3>1 DEF OneSpot, Spot
    <3> QED BY <2>3, <3>1, <3>2
  <2> QED BY <1>0, <2>1, <2>3, <2>4, <2>5, RowSteps
<1>2. CASE f \notin Final(v)
  <2>1. QueueStore(f) /\ v \in request[f].among
    BY <1>2, Foreseen
  <2>2. Waiting(f) /\ f \notin spared
    BY <1>0, <2>1, SparedSteps DEF QueueStore, Waiting
  <2>3. Aimed(f) /\ \E w \in Volume : request[f].among = {w}
    BY <1>0, <2>2 DEF Births
  <2>4. place' = place /\ deleting' = deleting
    BY <2>1 DEF QueueStore, table
  <2>5. deleting[f] = "no"
    BY <1>0, <2>3 DEF Births, Aimed
  <2> QED BY <2>1, <2>3, <2>4, <2>5 DEF Aimed
<1> QED BY <1>1, <1>2

-----------------------------------------------------------------------------
(* One upload at a time *)

LEMMA OneUploadNext ==
  ASSUME Typed, OneUpload, [Next]_vars
  PROVE  OneUpload'
<1> SUFFICES ASSUME NEW f \in Upload, NEW g \in Upload, Between(f)', Between(g)', f # g
             PROVE  FALSE
  BY DEF OneUpload
<1>0. f \in File /\ g \in File /\ request \in [File -> RequestType]
  BY DEF File, Typed, TypeOK, RequestType
<1>1. ASSUME NEW h \in Upload, CheckLimit(h), NEW k \in Upload, k # h
      PROVE  request'[k] = request[k] /\ ~Between(k)
  <2>1. k \in File /\ h \in File
    BY DEF File
  <2> QED BY <1>0, <1>1, <2>1 DEF CheckLimit, Step, LoopFree, Between, Returned
<1>2. CASE CheckLimit(f)
  BY <1>1, <1>2 DEF Between
<1>3. CASE CheckLimit(g)
  BY <1>1, <1>3 DEF Between
<1>4. CASE ~CheckLimit(f) /\ ~CheckLimit(g)
  BY <1>0, <1>4, Ways DEF OneUpload
<1> QED BY <1>2, <1>3, <1>4

\* Nothing is inserted or queued while another upload checks the limit.
LEMMA Alone ==
  ASSUME Typed, OneUpload, [Next]_vars, NEW f \in Upload, Between(f)',
         NEW g \in Upload, Between(g)
  PROVE  f = g
<1>1. f \in File
  BY DEF File
<1>2. CASE CheckLimit(f)
  BY <1>2 DEF CheckLimit, LoopFree, Between, Returned
<1> QED BY <1>1, <1>2, Ways DEF OneUpload

LEMMA OwnSteps ==
  ASSUME Typed, Births, [Next]_vars, NEW f \in Own'
  PROVE  f \in Upload /\ (f \in Own \/ Inserted(f))
<1>1. f \in Upload /\ f \in File /\ rows'[f] = "counted" /\ f \notin Touched'
  BY DEF Own, Counted
<1>2. f \notin Touched
  BY <1>1, HistorySteps DEF Touched
<1>3. CASE Unborn(f)
  <2>1. Fresh(f) /\ rows[f] = "none"
    BY <1>1, <1>3 DEF Births
  <2>2. ~\E n \in Node : Reported(n, f)
    BY <1>1, <2>1, ReportedStored DEF Fresh, Unstored
  <2> QED BY <1>1, <2>1, <2>2, RowSteps DEF Dropped
<1>4. CASE ~Unborn(f)
  <2>1. rows[f] = "counted"
    BY <1>1, <1>2, <1>4 DEF Births
  <2> QED BY <1>1, <1>2, <2>1 DEF Own, Counted
<1> QED BY <1>1, <1>3, <1>4

LEMMA LimitNext ==
  ASSUME Typed, Births, OneUpload, LimitKept, [Next]_vars
  PROVE  LimitKept'
<1>0. setting' = setting
  BY HistorySteps
<1> SUFFICES ASSUME setting.limit > 0
             PROVE  /\ MbOf(Own') <= setting.limit
                    /\ \A f \in Upload : Unborn(f)' /\ Between(f)' => MbOf(Own' \cup {f}) <= setting.limit
  BY <1>0 DEF LimitKept
<1>1. setting.limit \in Nat /\ Own \subseteq Upload /\ Own \subseteq Counted
      /\ Counted \subseteq File /\ Upload \subseteq File
  BY SettingAssumption DEF Typed, TypeOK, Own, Counted, File
<1>2. Own' \subseteq Upload
  BY DEF Own
<1>3. \A S \in SUBSET File : MbOf(S) \in Nat
  BY AccountsNat
<1>4. \A g \in Upload : Inserted(g) => Unborn(g) /\ Between(g)
  BY DEF Inserted, InsertRow, Unborn, Between, RequestPc, Returned
<1>5. MbOf(Own') <= setting.limit
  <2>1. CASE \E g \in Upload : Inserted(g)
    <3>1. PICK g \in Upload : Inserted(g)
      BY <2>1
    <3>2. \A h \in Upload : Inserted(h) => h = g
      BY <1>4, <3>1 DEF OneUpload
    <3>3. Own' \subseteq Own \cup {g}
      BY <3>2, OwnSteps
    <3>4. MbOf(Own \cup {g}) <= setting.limit
      BY <1>4, <3>1 DEF LimitKept
    <3>5. MbOf(Own') <= MbOf(Own \cup {g})
      BY <1>1, <3>3, AccountsGrow
    <3>6. Own' \in SUBSET File /\ Own \cup {g} \in SUBSET File
      BY <1>1, <1>2
    <3> HIDE DEF Own
    <3> QED BY <1>1, <1>3, <3>4, <3>5, <3>6
  <2>2. CASE ~\E g \in Upload : Inserted(g)
    <3>1. Own' \subseteq Own
      BY <2>2, OwnSteps
    <3>2. MbOf(Own') <= MbOf(Own)
      BY <1>1, <3>1, AccountsGrow
    <3>3. MbOf(Own) <= setting.limit
      BY DEF LimitKept
    <3>4. Own' \in SUBSET File /\ Own \in SUBSET File
      BY <1>1, <1>2
    <3> QED BY <1>1, <1>3, <3>2, <3>3, <3>4
  <2> QED BY <2>1, <2>2
<1>6. ASSUME NEW f \in Upload, Unborn(f)', Between(f)'
      PROVE  MbOf(Own' \cup {f}) <= setting.limit
  <2>0. f \in File /\ Unborn(f) /\ ~Inserted(f)
    BY <1>1, <1>6, Ways
  <2>1. ~\E g \in Upload : Inserted(g)
    BY <1>4, <1>6, <2>0, Alone
  <2>2. Own' \subseteq Own
    BY <2>1, OwnSteps
  <2>3. \E S \in SUBSET File : Own' \cup {f} \subseteq S /\ MbOf(S) <= setting.limit
    <3>1. CASE Between(f)
      <4>1. MbOf(Own \cup {f}) <= setting.limit
        BY <2>0, <3>1 DEF LimitKept
      <4> QED BY <1>1, <2>0, <2>2, <4>1
    <3>2. CASE CheckLimit(f) /\ request'[f].pc = "volumes"
      <4>1. request \in [File -> RequestType]
        BY DEF Typed, TypeOK, RequestType
      <4>2. ~(MbOf(Counted) + Megabytes(f) > setting.limit)
        BY <2>0, <3>2, <4>1 DEF CheckLimit, Step, RequestType
      <4>3. f \notin Counted
        BY <2>0 DEF Births, Counted
      <4>4. MbOf(Counted \cup {f}) = Megabytes(f) + MbOf(Counted)
        BY <1>1, <2>0, <4>3, AccountsAdd
      <4>5. Megabytes(f) \in Nat /\ MbOf(Counted) \in Nat
        BY <1>1, <1>3, <2>0, MegabytesNat
      <4>6. MbOf(Counted \cup {f}) <= setting.limit
        BY <1>1, <4>2, <4>4, <4>5
      <4>7. Counted \cup {f} \in SUBSET File /\ Own' \cup {f} \subseteq Counted \cup {f}
        BY <1>1, <2>0, <2>2
      <4> QED BY <4>6, <4>7
    <3> QED BY <1>6, <2>0, <3>1, <3>2, Ways
  <2>4. PICK S \in SUBSET File : Own' \cup {f} \subseteq S /\ MbOf(S) <= setting.limit
    BY <2>3
  <2>5. MbOf(Own' \cup {f}) <= MbOf(S)
    BY <2>4, AccountsGrow
  <2>6. Own' \cup {f} \in SUBSET File
    BY <2>4
  <2> QED BY <1>1, <1>3, <2>4, <2>5, <2>6
<1> QED BY <1>5, <1>6

-----------------------------------------------------------------------------
(* Room on the volumes *)

LEMMA FinalFiles ==
  ASSUME NEW v \in Volume
  PROVE  /\ Final(v) \in SUBSET Upload /\ Final(v) \ edited \in SUBSET File
         /\ Bytes(v) \in Nat
         /\ \A k : After(v, k) \ edited \in SUBSET File
<1>1. Final(v) \in SUBSET Upload /\ \A k : After(v, k) \in SUBSET Upload
  BY DEF Final, After
<1>2. Final(v) \ edited \in SUBSET File /\ \A k : After(v, k) \ edited \in SUBSET File
  BY <1>1 DEF File
<1>3. Bytes(v) \in Nat
  BY <1>2, AccountsNat DEF Bytes
<1> QED BY <1>1, <1>2, <1>3

\* While an upload is being placed nothing else is added to a volume.
LEMMA BytesShrink ==
  ASSUME Typed, Births, StoredFirst, OneUpload, [Next]_vars, NEW f \in Upload,
         request'[f].pc \in {"choose", "insert"} \/ Waiting(f)', NEW v \in Volume
  PROVE  Bytes(v)' <= Bytes(v) /\ Bytes(v)' \in Nat /\ Bytes(v) \in Nat
<1>1. Between(f)' /\ f \in File
  BY DEF Between, RequestPc, Returned, Waiting, File
<1>2. ~\E g \in Upload : QueueStore(g)
  <2> SUFFICES ASSUME NEW g \in Upload, QueueStore(g) PROVE FALSE
    OBVIOUS
  <2>1. Between(g)
    BY DEF QueueStore, Between, RequestPc, Returned
  <2>2. f = g
    BY <1>1, <2>1, Alone
  <2>3. request'[f].pc = "done"
    BY <1>1, <2>2, PcSteps
  <2> QED BY <2>3 DEF Waiting
<1>3. Final(v)' \subseteq Final(v)
  BY <1>2, Foreseen
<1>4. Final(v)' \ edited' \subseteq Final(v) \ edited
  BY <1>3, HistorySteps
<1>5. Bytes(v)' = BytesOf(Final(v)' \ edited') /\ Bytes(v) = BytesOf(Final(v) \ edited)
  BY DEF Bytes, BytesOf, SumOf, MapThenSumSet, MapThenFoldSet
<1>6. Final(v) \ edited \in SUBSET File /\ Bytes(v) \in Nat
  BY FinalFiles
<1>7. Final(v)' \ edited' \in SUBSET File
  BY <1>4, <1>6
<1>8. BytesOf(Final(v)' \ edited') <= BytesOf(Final(v) \ edited)
  BY <1>4, <1>6, AccountsGrow
<1>9. BytesOf(Final(v)' \ edited') \in Nat
  BY <1>7, AccountsNat
<1> QED BY <1>5, <1>6, <1>8, <1>9

\* The account of the rows covers what will be on a volume.
LEMMA AccountCovers ==
  ASSUME Typed, Births, Rowed, NEW v \in Volume
  PROVE  Bytes(v) <= MbOf(CountedOn(v)) * MB
<1>1. Final(v) \ edited \in SUBSET Upload /\ Final(v) \ edited \in SUBSET File
  BY FinalFiles
<1>2. ASSUME NEW f \in Final(v) \ edited PROVE f \in CountedOn(v)
  <2>1. f \in File /\ place[f] = {v} /\ rows[f] \in RowState
    BY <1>1 DEF Rowed, Typed, TypeOK
  <2>2. rows[f] # "none" /\ rows[f] # "uncounted"
    BY <2>1 DEF Births
  <2> QED BY <2>1, <2>2 DEF CountedOn, Counted, RowState
<1>3. CountedOn(v) \in SUBSET File
  BY DEF CountedOn, Counted
<1>4. MbOf(Final(v) \ edited) <= MbOf(CountedOn(v))
  BY <1>2, <1>3, AccountsGrow
<1>5. Bytes(v) <= MbOf(Final(v) \ edited) * MB
  BY <1>1, RowsCoverBytes DEF Bytes
<1> DEFINE a == MbOf(Final(v) \ edited)
           b == MbOf(CountedOn(v))
           c == Bytes(v)
<1>6. a \in Nat /\ b \in Nat /\ c \in Nat /\ MB \in Nat
  BY <1>1, <1>3, AccountsNat, FinalFiles, FileAssumption
<1>7. a <= b /\ c <= a * MB
  BY <1>4, <1>5
<1> HIDE DEF a, b, c
<1>8. a * MB \in Nat /\ b * MB \in Nat /\ a * MB <= b * MB
  <2>1. PICK d \in Nat : b = a + d
    <3>1. b - a \in Nat /\ b = a + (b - a)
      BY <1>6, <1>7
    <3> QED BY <3>1
  <2>2. (a + d) * MB = a * MB + d * MB
    BY <1>6
  <2>3. a * MB \in Nat /\ d * MB \in Nat
    BY <1>6
  <2> QED BY <2>1, <2>2, <2>3
<1>9. c <= b * MB
  BY <1>6, <1>7, <1>8
<1> QED BY <1>9 DEF b, c

LEMMA RoomNext ==
  ASSUME Typed, Traces, OneUpload, RoomLeft, [Next]_vars
  PROVE  RoomLeft'
<1> USE DEF Traces
<1> SUFFICES ASSUME NEW f \in Upload
    PROVE /\ request'[f].pc = "choose" =>
               \A v \in Volume : request'[f].free[v] > 0 =>
                 Bytes(v)' + request'[f].free[v] <= Quota[v]
          /\ request'[f].pc = "insert" \/ Waiting(f)' =>
               \A v \in request'[f].among : Bytes(v)' + Size[f] <= Quota[v]
  BY DEF RoomLeft
<1>0. /\ request \in [File -> RequestType] /\ f \in File /\ Size[f] \in Nat \ {0}
      /\ Quota \in [Volume -> Nat \ {0}] /\ f \notin Record
  BY FileAssumption, VolumeAssumption DEF Typed, TypeOK, RequestType, File
<1>1. request'[f].pc = "choose" =>
        \A v \in Volume : request'[f].free[v] > 0 =>
          Bytes(v)' + request'[f].free[v] <= Quota[v]
  <2> SUFFICES ASSUME request'[f].pc = "choose", NEW v \in Volume, request'[f].free[v] > 0
               PROVE  Bytes(v)' + request'[f].free[v] <= Quota[v]
    OBVIOUS
  <2>1. Bytes(v)' <= Bytes(v) /\ Bytes(v)' \in Nat /\ Bytes(v) \in Nat
    BY BytesShrink
  <2>2. request'[f].free[v] \in Nat /\ Bytes(v) + request'[f].free[v] <= Quota[v]
    <3>1. CASE request'[f] = request[f]
      <4>1. request[f].free[v] \in Nat
        BY <1>0 DEF RequestType
      <4> QED BY <3>1, <4>1 DEF RoomLeft
    <3>2. CASE ReadUsed(f)
      <4>1. request[f].free[v] \in Nat
        BY <1>0 DEF RequestType
      <4>2. request'[f].free[v] = Room(v, request[f].free[v])
        BY <1>0, <3>2 DEF ReadUsed, RequestType
      <4> DEFINE r == Room(v, request[f].free[v])
                 m == MbOf(CountedOn(v)) * MB
      <4>3. r \in Nat /\ (r > 0 => r + m <= Quota[v])
        BY <4>1, RoomNat
      <4>4. Bytes(v) <= m
        BY AccountCovers
      <4>5. m \in Nat
        <5>1. CountedOn(v) \in SUBSET File
          BY DEF CountedOn, Counted
        <5> QED BY <5>1, AccountsNat, FileAssumption
      <4>6. r > 0
        BY <4>2
      <4> HIDE DEF r, m
      <4>7. Bytes(v) + r <= Quota[v]
        BY <1>0, <2>1, <4>3, <4>4, <4>5, <4>6
      <4> QED BY <4>2, <4>3, <4>7 DEF r
    <3> QED BY <1>0, <3>1, <3>2, Ways
  <2> QED BY <1>0, <2>1, <2>2
<1>2. request'[f].pc = "insert" =>
        \A v \in request'[f].among : Bytes(v)' + Size[f] <= Quota[v]
  <2> SUFFICES ASSUME request'[f].pc = "insert", NEW v \in request'[f].among
               PROVE  Bytes(v)' + Size[f] <= Quota[v]
    OBVIOUS
  <2>1. v \in Volume /\ Bytes(v) + Size[f] <= Quota[v]
    <3>1. CASE request'[f] = request[f]
      BY <1>0, <3>1 DEF RoomLeft, RequestType
    <3>2. CASE ChooseVolume(f)
      <4>1. PICK w \in Candidates(f) :
              /\ Fits(f, w)
              /\ request' = [request EXCEPT ![f] =
                               [pc |-> "insert", among |-> {w}, free |-> NoRequest.free]]
        BY <3>2 DEF ChooseVolume
      <4>2. v = w /\ v \in Volume /\ request[f].pc = "choose"
        BY <1>0, <3>2, <4>1 DEF Candidates, ChooseVolume, RequestType
      <4>3. request[f].free[v] \in Nat /\ request[f].free[v] >= Size[f]
        BY <1>0, <4>1, <4>2 DEF Fits, Needed, RequestType
      <4>4. request[f].free[v] > 0 => Bytes(v) + request[f].free[v] <= Quota[v]
        BY <4>2 DEF RoomLeft
      <4>5. Bytes(v) \in Nat /\ Quota[v] \in Nat
        BY <1>0, <4>2, FinalFiles
      <4> HIDE DEF Bytes
      <4> QED BY <1>0, <4>2, <4>3, <4>4, <4>5
    <3> QED BY <1>0, <3>1, <3>2, Ways
  <2>2. Bytes(v)' <= Bytes(v) /\ Bytes(v)' \in Nat /\ Bytes(v) \in Nat
    BY <2>1, BytesShrink
  <2> QED BY <1>0, <2>1, <2>2
<1>3. Waiting(f)' =>
        \A v \in request'[f].among : Bytes(v)' + Size[f] <= Quota[v]
  <2> SUFFICES ASSUME Waiting(f)', NEW v \in request'[f].among
               PROVE  Bytes(v)' + Size[f] <= Quota[v]
    OBVIOUS
  <2>1. request'[f].among = request[f].among /\ (Waiting(f) \/ Inserted(f))
    BY <1>0, Ways
  <2>2. request[f].pc = "insert" \/ Waiting(f)
    BY <2>1 DEF Inserted, InsertRow
  <2>3. v \in Volume /\ Bytes(v) + Size[f] <= Quota[v]
    BY <1>0, <2>1, <2>2 DEF RoomLeft, RequestType
  <2>4. Bytes(v)' <= Bytes(v) /\ Bytes(v)' \in Nat /\ Bytes(v) \in Nat
    BY <2>3, BytesShrink
  <2> QED BY <1>0, <2>3, <2>4
<1> QED BY <1>1, <1>2, <1>3

LEMMA QueueFitsNext ==
  ASSUME Typed, Births, StoredFirst, RoomLeft, QueueFits, [Next]_vars
  PROVE  QueueFits'
<1> SUFFICES ASSUME NEW v \in Volume, NEW k \in 0..Len(Queued(v))'
             PROVE  BytesOf(After(v, k)' \ edited') <= Quota[v]
  BY DEF QueueFits
<1>0. edited \subseteq edited' /\ Quota[v] \in Nat
  BY HistorySteps, VolumeAssumption
<1>1. \E S \in SUBSET File : After(v, k)' \ edited' \subseteq S /\ BytesOf(S) <= Quota[v]
  <2>1. ASSUME NEW j \in 0..Len(Queued(v)), After(v, k)' \subseteq After(v, j)
        PROVE  \E S \in SUBSET File : After(v, k)' \ edited' \subseteq S /\ BytesOf(S) <= Quota[v]
    <3>1. After(v, j) \ edited \in SUBSET File
      BY FinalFiles
    <3>2. BytesOf(After(v, j) \ edited) <= Quota[v]
      BY DEF QueueFits
    <3> QED BY <1>0, <2>1, <3>1, <3>2
  <2>2. ASSUME NEW f \in Upload, QueueStore(f), v \in request[f].among,
               After(v, k)' \subseteq Final(v) \cup {f}
        PROVE  \E S \in SUBSET File : After(v, k)' \ edited' \subseteq S /\ BytesOf(S) <= Quota[v]
    <3> DEFINE T == Final(v) \ edited
    <3>1. T \in SUBSET File /\ f \in File
      BY FinalFiles DEF File
    <3>2. Waiting(f) /\ Unstored(f)
      BY <2>2, <3>1 DEF QueueStore, Waiting, Births
    <3>3. f \notin Final(v)
      BY <3>2, FinalSpot
    <3>4. BytesOf(T \cup {f}) = Size[f] + BytesOf(T)
      BY <3>1, <3>3, AccountsAdd
    <3>5. BytesOf(T) + Size[f] <= Quota[v]
      BY <2>2, <3>2 DEF RoomLeft, Bytes
    <3>6. BytesOf(T) \in Nat /\ Size[f] \in Nat
      BY <3>1, AccountsNat, FileAssumption
    <3>7. BytesOf(T \cup {f}) <= Quota[v]
      BY <1>0, <3>4, <3>5, <3>6
    <3>8. After(v, k)' \ edited' \subseteq T \cup {f} /\ T \cup {f} \in SUBSET File
      BY <1>0, <2>2, <3>1
    <3> QED BY <3>7, <3>8
  <2>3. Len(Queued(v)) \in Nat
    BY QueueTypes
  <2> QED BY <2>1, <2>2, Foreseen
<1>2. PICK S \in SUBSET File : After(v, k)' \ edited' \subseteq S /\ BytesOf(S) <= Quota[v]
  BY <1>1
<1> DEFINE T == After(v, k)' \ edited'
<1>3. BytesOf(T) <= BytesOf(S) /\ BytesOf(T) \in Nat /\ BytesOf(S) \in Nat
  <2>1. T \in SUBSET S /\ T \in SUBSET File
    BY <1>2
  <2> HIDE DEF T
  <2> QED BY <2>1, AccountsGrow, AccountsNat
<1> QED BY <1>0, <1>2, <1>3

-----------------------------------------------------------------------------
(* The theorems *)

LEMMA InitPInv == ASSUME Init PROVE PInv
<1>1. /\ setting \in Setting /\ volumes = setting.volumes /\ offered = volumes
      /\ reported = [v \in Volume |-> 0] /\ rows = [f \in File |-> "none"]
      /\ place = [f \in File |-> {}] /\ spared = {} /\ request = [f \in File |-> NoRequest]
      /\ work = [n \in Node |-> <<>>] /\ stored = [v \in Volume |-> {}]
  BY DEF Init
<1>2. volumes \subseteq Volume /\ setting.limit \in Nat
  BY <1>1, SettingAssumption
<1>3. NoRequest \in RequestType /\ NoRequest.pc = "idle"
  BY DEF NoRequest, RequestType, RequestPc
<1>4. TypeOK
  <2>1. AdminTyped /\ DiskTyped /\ FileTyped
    BY <1>1, <1>2 DEF Init, AdminTyped, DiskTyped, FileTyped
  <2>2. TableTyped
    BY <1>1, FS_EmptySet DEF TableTyped, RowState
  <2>3. request \in [File -> RequestType]
    BY <1>1, <1>3
  <2>4. work \in [Node -> Seq(Job)]
    BY <1>1
  <2> QED BY <2>1, <2>2, <2>3, <2>4, Parts
<1>5. \A n \in Node : work[n] = <<>> /\ Len(work[n]) = 0
  BY <1>1
<1>6. \A v \in Volume : Len(Queued(v)) = 0 /\ stored[v] = {}
  BY <1>1, <1>5, VolumeAssumption DEF Queued
<1>7. \A v \in Volume : \A i, o, f : ~IsJob(v, i, o, f)
  BY <1>6 DEF IsJob
<1>8. \A f \in File : request[f].pc = "idle" /\ rows[f] = "none" /\ place[f] = {} /\ Fresh(f) /\ ~Waiting(f)
  BY <1>1, <1>3, <1>6, <1>7 DEF Init, Waiting, Fresh, Touched, HasJob, Unstored, Jobless
<1>9. \A v \in Volume : Final(v) = {} /\ \A k : After(v, k) = {}
  BY <1>6, <1>7 DEF Final, After
<1>10. BytesOf({}) = 0 /\ MbOf({}) = 0
  BY SumEmpty DEF BytesOf, MbOf
<1>11. Typed
  <2>1. JobsAtHome
    BY <1>5 DEF JobsAtHome
  <2> QED BY <1>4, <2>1 DEF Typed
<1>12. OneSpot
  BY <1>6, <1>7, <1>8 DEF OneSpot, Spot, HasJob
<1>13. Births
  BY <1>8 DEF Init, Births, Unborn
<1>14. StoredFirst /\ Rowed
  BY <1>7, <1>9 DEF StoredFirst, Rowed
<1>15. OneUpload
  BY <1>8 DEF OneUpload, Between, File
<1>16. LimitKept
  <2>1. Own = {}
    BY <1>8 DEF Own, Counted
  <2>2. \A f \in Upload : ~Between(f)
    BY <1>8 DEF Between, File
  <2> QED BY <1>2, <1>10, <2>1, <2>2 DEF LimitKept
<1>17. RoomLeft
  BY <1>8 DEF RoomLeft, File
<1>18. QueueFits
  <2> SUFFICES ASSUME NEW v \in Volume, NEW k \in 0..Len(Queued(v))
               PROVE  BytesOf(After(v, k) \ edited) <= Quota[v]
    BY DEF QueueFits
  <2>1. After(v, k) \ edited = {}
    BY <1>9
  <2>2. BytesOf(After(v, k) \ edited) = 0
    BY <1>10, <2>1
  <2>3. Quota[v] \in Nat
    BY VolumeAssumption
  <2> QED BY <2>2, <2>3
<1> QED BY <1>11, <1>12, <1>13, <1>14, <1>15, <1>16, <1>17, <1>18 DEF PInv, Traces

LEMMA NextPInv == ASSUME PInv, [Next]_vars PROVE PInv'
<1> USE DEF PInv
<1>1. Typed' /\ OneSpot' /\ Births'
  BY TypedNext, OneSpotNext, BirthsNext DEF Traces
<1>2. StoredFirst' /\ Rowed'
  BY StoredFirstNext, RowedNext DEF Traces
<1>3. OneUpload' /\ LimitKept'
  BY OneUploadNext, LimitNext DEF Traces
<1>4. RoomLeft' /\ QueueFits'
  BY RoomNext, QueueFitsNext DEF Traces
<1> QED BY <1>1, <1>2, <1>3, <1>4 DEF Traces

\* The accounts of Placement are inductive.
THEOREM PlacementInductive == Spec => []PInv
<1>1. Init => PInv
  BY InitPInv
<1>2. PInv /\ [Next]_vars => PInv'
  BY NextPInv
<1> QED BY <1>1, <1>2, PTL DEF Spec

\* The tables, the queues and the disks keep their types: in particular the
\* row of a file names at most one volume, whatever the agents report.
THEOREM PlacementTyped == Spec => []TypeOK
<1>1. PInv => TypeOK
  BY DEF PInv, Typed
<1> QED BY <1>1, PlacementInductive, PTL

\* Uploads alone never exceed the limit of their resource: the upload handler
\* does not await between the check in _check_resource_quota and its insert.
THEOREM LimitHolds == Spec => []UploadsWithinLimit
<1>1. PInv => UploadsWithinLimit
  BY DEF PInv, LimitKept, Own, UploadsWithinLimit
<1> QED BY <1>1, PlacementInductive, PTL

\* What the agents store never exceeds the quota of a volume, although the free
\* space is read from old reports and rows go before their bytes, but for files
\* whose row was edited and those that their deletion has spared: it found no path,
\* came before the upload had returned, or its job was lost or failed.
THEOREM DisksFit == Spec => []DiskFits
<1>1. PInv => DiskFits
  <2> SUFFICES ASSUME PInv, NEW v \in Volume
               PROVE  BytesOf(stored[v] \ (edited \cup spared)) <= Quota[v]
    BY DEF DiskFits
  <2>1. stored[v] \subseteq Upload
    BY DEF PInv, Typed, TypeOK
  <2>2. After(v, 0) \ edited = stored[v] \ (edited \cup spared)
    BY <2>1 DEF After
  <2>3. 0 \in 0..Len(Queued(v))
    BY QueueTypes DEF PInv
  <2> QED BY <2>2, <2>3 DEF PInv, QueueFits
<1> QED BY <1>1, PlacementInductive, PTL

\* When the row of a volume goes, every byte on it or on its way has the job
\* that erases it queued behind it, unless the deletion of its file has spared it.
THEOREM RemovedDrain == Spec => []RemovedVolumesDrain
<1>1. PInv => RemovedVolumesDrain
  <2> SUFFICES ASSUME PInv, NEW v \in Volume \ volumes, NEW f \in (stored[v] \cup Arriving(v)) \ spared
               PROVE  ErasedLast(v, f)
    BY DEF RemovedVolumesDrain
  <2> DEFINE n == Len(Queued(v))
  <2>0. /\ n \in Nat /\ Queued(v) \in Seq(Job) /\ DOMAIN Queued(v) = 1..n
        /\ \A i \in 1..n : Queued(v)[i] \in Job
    BY QueueTypes, LenProperties DEF PInv
  <2>1. f \in Upload /\ (f \in stored[v] \/ \E i \in 1..n : IsJob(v, i, "store", f))
    <3>1. CASE f \in stored[v]
      BY <3>1 DEF PInv, Typed, TypeOK
    <3>2. CASE f \in Arriving(v)
      <4>1. PICK i \in 1..n : /\ Queued(v)[i].op = "store" /\ Queued(v)[i].on = v
                              /\ f = Queued(v)[i].file
        BY <2>0, <3>2 DEF Arriving
      <4>2. Queued(v)[i] \in Job
        BY <2>0
      <4> QED BY <4>1, <4>2 DEF IsJob, Job
    <3> QED BY <3>1, <3>2
  <2>2. f \notin Final(v)
    <3> SUFFICES ASSUME f \in Final(v) PROVE FALSE
      OBVIOUS
    <3>1. place[f] = {v}
      BY DEF PInv, Traces, Rowed
    <3> QED BY <2>1, <3>1 DEF PInv, Traces, Births, File
  <2>3. PICK i \in 1..n : IsJob(v, i, "erase", f)
    BY <2>1, <2>2 DEF Final, After
  <2>4. ASSUME NEW j \in 1..n, Queued(v)[j] = [op |-> "store", file |-> f, on |-> v]
        PROVE  j < i
    <3>1. IsJob(v, j, "store", f) /\ i \in Nat /\ j \in Nat
      BY <2>0, <2>4 DEF IsJob
    <3> QED BY <2>1, <2>3, <3>1 DEF PInv, Traces, StoredFirst
  <2> QED BY <2>0, <2>3, <2>4 DEF ErasedLast, IsJob
<1> QED BY <1>1, PlacementInductive, PTL
=============================================================================
