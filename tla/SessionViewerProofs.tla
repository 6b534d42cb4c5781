------------------------- MODULE SessionViewerProofs -------------------------
(***************************************************************************)
(* Theorems about SessionViewer: however late, failed or reordered its     *)
(* replies are, the list of the page stays a list of the sessions of the   *)
(* server and the report links open what was retrieved, for any number of  *)
(* sessions and of requests outstanding at a time.                         *)
(***************************************************************************)
EXTENDS SessionViewer, FiniteSetTheorems, SequenceTheorems, TLAPS

-----------------------------------------------------------------------------
(* The order in which a reply lists the sessions                           *)

\* There are finitely many sessions.
LEMMA FinSession ==
  /\ IsFiniteSet(Session)
  /\ \A S \in SUBSET Session : IsFiniteSet(S) /\ Cardinality(S) \in Nat
<1>1. MaxSession \in Int /\ 1 \in Int
  BY ViewerAssumption
<1>2. IsFiniteSet(Session)
  BY <1>1, FS_Interval DEF Session
<1>3. \A S \in SUBSET Session : IsFiniteSet(S)
  BY <1>2, FS_Subset
<1> QED
  BY <1>2, <1>3, FS_CardinalityType

\* The place of a session among those of a set.
LEMMA RankInRange ==
  ASSUME NEW S \in SUBSET Session, NEW s \in S
  PROVE  Rank(S, s) \in 1..Cardinality(S)
<1> DEFINE T == {t \in S : s <= t}
<1>1. s \in Int
  BY ViewerAssumption DEF Session
<1>2. T \in SUBSET S /\ T # {} /\ T \in SUBSET Session
  <2>1. s \in T
    BY <1>1
  <2> QED
    BY <2>1
<1>3. /\ IsFiniteSet(S) /\ IsFiniteSet(T) /\ Cardinality(S) \in Nat /\ Cardinality(T) \in Nat
  BY <1>2, FinSession
<1>4. Cardinality(T) # 0
  BY <1>2, <1>3, FS_EmptySet
<1>5. Cardinality(T) <= Cardinality(S)
  BY <1>2, <1>3, FS_Subset
<1> QED
  BY <1>3, <1>4, <1>5 DEF Rank

\* The newer of two sessions comes first.
LEMMA RankDescends ==
  ASSUME NEW S \in SUBSET Session, NEW s \in S, NEW u \in S, s < u
  PROVE  Rank(S, u) < Rank(S, s)
<1> DEFINE T == {t \in S : s <= t}
           U == {t \in S : u <= t}
<1>0. \A x \in S : x \in Int
  BY ViewerAssumption DEF Session
<1>1. U \in SUBSET T /\ s \in T /\ s \notin U
  BY <1>0
<1>2. T \in SUBSET Session /\ U \in SUBSET Session
  OBVIOUS
<1>3. IsFiniteSet(T) /\ Cardinality(T) \in Nat /\ Cardinality(U) \in Nat
  BY <1>2, FinSession
<1>4. Cardinality(U) <= Cardinality(T) /\ Cardinality(U) # Cardinality(T)
  <2> HIDE DEF T, U
  <2> QED
    BY <1>1, <1>3, FS_Subset
<1> QED
  BY <1>3, <1>4 DEF Rank

\* Every place in the order is taken: counting is a bijection.
LEMMA RankOnto ==
  ASSUME NEW S \in SUBSET Session, NEW k \in 1..Cardinality(S)
  PROVE  \E s \in S : Rank(S, s) = k
<1> DEFINE f == [s \in S |-> Rank(S, s)]
           N == 1..Cardinality(S)
<1>0. \A x \in S : x \in Int
  BY ViewerAssumption DEF Session
<1>1. f \in [S -> N]
  BY RankInRange
<1>2. \A s, u \in S : f[s] = f[u] => s = u
  <2> SUFFICES ASSUME NEW s \in S, NEW u \in S, s # u PROVE f[s] # f[u]
    OBVIOUS
  <2>1. Rank(S, s) \in Int /\ Rank(S, u) \in Int
    BY RankInRange
  <2>2. CASE s < u
    BY <2>1, <2>2, RankDescends
  <2>3. CASE u < s
    BY <2>1, <2>3, RankDescends
  <2> QED
    BY <1>0, <2>2, <2>3
<1>3. f \in Injection(S, N)
  BY <1>1, <1>2 DEF Injection, IsInjective
<1>4. IsFiniteSet(S) /\ Cardinality(S) \in Nat
  BY FinSession
<1>5. IsFiniteSet(N) /\ Cardinality(N) = Cardinality(S)
  BY <1>4, FS_Interval
<1>6. f \in Surjection(S, N)
  <2> HIDE DEF f, N
  <2> QED
    BY <1>3, <1>4, <1>5, FS_Injection
<1> QED
  BY <1>6 DEF Surjection

\* Descending lists the sessions of a set, each once, from the newest to the oldest.
LEMMA DescendingFacts ==
  ASSUME NEW S \in SUBSET Session
  PROVE  /\ Descending(S) \in Seq(S) /\ Len(Descending(S)) = Cardinality(S)
         /\ DOMAIN Descending(S) = 1..Cardinality(S) /\ Cardinality(S) \in Nat
         /\ \A k \in 1..Cardinality(S) : Descending(S)[k] \in S /\ Rank(S, Descending(S)[k]) = k
         /\ \A s \in S : \E k \in 1..Cardinality(S) : Descending(S)[k] = s
         /\ \A j, k \in 1..Cardinality(S) : j < k => Descending(S)[k] < Descending(S)[j]
<1>1. Cardinality(S) \in Nat
  BY FinSession
<1>2. \A k \in 1..Cardinality(S) : Descending(S)[k] \in S /\ Rank(S, Descending(S)[k]) = k
  <2> TAKE k \in 1..Cardinality(S)
  <2>1. Descending(S)[k] = CHOOSE s \in S : Rank(S, s) = k
    BY DEF Descending
  <2> QED
    BY <2>1, RankOnto
<1>3. Descending(S) \in Seq(S) /\ Len(Descending(S)) = Cardinality(S) /\ DOMAIN Descending(S) = 1..Cardinality(S)
  <2>1. Descending(S) \in [1..Cardinality(S) -> S]
    BY <1>2 DEF Descending
  <2> QED
    BY <2>1, <1>1
<1>4. \A x \in S : x \in Int
  BY ViewerAssumption DEF Session
<1>5. \A s, u \in S : Rank(S, s) = Rank(S, u) => s = u
  <2> SUFFICES ASSUME NEW s \in S, NEW u \in S, s # u PROVE Rank(S, s) # Rank(S, u)
    OBVIOUS
  <2>1. Rank(S, s) \in Int /\ Rank(S, u) \in Int
    BY RankInRange
  <2> QED
    BY <1>4, <2>1, RankDescends
<1>6. \A s \in S : \E k \in 1..Cardinality(S) : Descending(S)[k] = s
  <2> TAKE s \in S
  <2>1. Rank(S, s) \in 1..Cardinality(S)
    BY RankInRange
  <2> QED
    BY <2>1, <1>2, <1>5
<1>7. \A j, k \in 1..Cardinality(S) : j < k => Descending(S)[k] < Descending(S)[j]
  <2> SUFFICES ASSUME NEW j \in 1..Cardinality(S), NEW k \in 1..Cardinality(S), j < k,
                      ~(Descending(S)[k] < Descending(S)[j]) PROVE FALSE
    OBVIOUS
  <2> DEFINE x == Descending(S)[j]
             y == Descending(S)[k]
  <2>1. x \in S /\ y \in S /\ Rank(S, x) = j /\ Rank(S, y) = k
    BY <1>2
  <2>2. x = y \/ x < y
    BY <2>1, <1>4
  <2>3. x # y
    BY <2>1
  <2> QED
    BY <2>1, <2>2, <2>3, RankDescends
<1> QED
  BY <1>1, <1>2, <1>3, <1>6, <1>7
-----------------------------------------------------------------------------
(* The invariant                                                           *)

\* A list of sessions the server had, once each, with no holes, the newest first.
Coherent(l) ==
  /\ \A j, k \in DOMAIN l : l[j] = l[k] => j = k
  /\ \A s \in Ids(l) : s <= created /\ \A t \in Session : t < s /\ OnServer(t) => t \in Ids(l)
  /\ \A j, k \in DOMAIN l : OnServer(l[j]) /\ OnServer(l[k]) /\ l[j] > l[k] => j < k

\* A reply is a whole picture: what it leaves out, below a session it has, is gone.
WholeReply(body) == \A s \in Session : body[s] # Absent =>
  s <= created /\ \A t \in Session : t < s /\ OnServer(t) => body[t] # Absent
RepliesWhole == \A c \in Slot :
  call[c].kind \in {"refresh", "populate"} /\ call[c].answered /\ call[c].ok
    => WholeReply(call[c].body)

\* What the page asks for by name is a session.
Named ==
  /\ drilled => currentSessionId # None
  /\ \A c \in Slot : call[c].kind \in {"session", "download"} => call[c].id # None

\* While reports are retrieved the overlay keeps the user on the session they are of.
Downloads ==
  /\ \A c \in Slot : call[c].kind = "download" =>
       /\ overlay = "waiting" /\ call[c].id = currentSessionId
       /\ call[c].answered /\ call[c].ok => call[c].id \in onDisk
  /\ \A c, d \in Slot : call[c].kind = "download" /\ call[d].kind = "download" => c = d

Inv ==
  /\ TypeOK /\ Coherent(list)
  /\ RepliesWhole /\ Named /\ Downloads /\ DownloadedIsCurrent

\* The parts of the invariant say what the properties say.
LEMMA CoherentIsListCoherent == TypeOK /\ Coherent(list) => ListCoherent
BY DEF Coherent, ListCoherent, ListedOnce, NoHoles, NewestFirst, Listed, Ids, TypeOK

-----------------------------------------------------------------------------
(* Lists                                                                   *)

\* Sessions are numbers.
LEMMA SessionIsInt == \A s \in Session : s \in Int
BY ViewerAssumption DEF Session

\* The sessions of a reply that are not in the list come first, the newest on top.
LEMMA AddMissingFacts ==
  ASSUME NEW body \in Snapshot, NEW kept \in Seq(Session)
  PROVE  \E n \in Nat :
           LET l == AddMissing(body, kept)
           IN /\ l \in Seq(Session) /\ Len(l) = n + Len(kept)
              /\ \A k \in 1..n : l[k] \in Session /\ body[l[k]] # Absent /\ l[k] \notin Ids(kept)
              /\ \A k \in (n + 1)..(n + Len(kept)) : l[k] = kept[k - n]
              /\ \A s \in Session : body[s] # Absent /\ s \notin Ids(kept)
                   => \E k \in 1..n : l[k] = s
              /\ \A j, k \in 1..n : j < k => l[k] < l[j]
<1> DEFINE S == {s \in Session : body[s] # Absent} \ Ids(kept)
           d == Descending(S)
           n == Cardinality(S)
           l == AddMissing(body, kept)
<1>1. S \in SUBSET Session
  OBVIOUS
<1>2. /\ d \in Seq(S) /\ Len(d) = n /\ n \in Nat
      /\ \A k \in 1..n : d[k] \in S
      /\ \A s \in S : \E k \in 1..n : d[k] = s
      /\ \A j, k \in 1..n : j < k => d[k] < d[j]
  <2> HIDE DEF S
  <2> QED
    BY <1>1, DescendingFacts
<1>3. l = d \o kept
  BY DEF AddMissing, IdsOf
<1>4. d \in Seq(Session)
  BY <1>1, <1>2, SeqMonotonic
<1>5. /\ l \in Seq(Session) /\ Len(l) = n + Len(kept)
      /\ \A k \in 1..(n + Len(kept)) : l[k] = IF k <= n THEN d[k] ELSE kept[k - n]
  <2> HIDE DEF d, l, n
  <2>1. /\ d \o kept \in Seq(Session) /\ Len(d \o kept) = Len(d) + Len(kept)
        /\ \A k \in 1..(Len(d) + Len(kept)) :
             (d \o kept)[k] = IF k <= Len(d) THEN d[k] ELSE kept[k - Len(d)]
    BY <1>4, ConcatProperties
  <2>2. Len(d) = n
    BY <1>2
  <2> QED
    BY <2>1, <2>2, <1>3, Zenon
<1>6. Len(kept) \in Nat
  BY LenProperties
<1>7. \A k \in 1..n : l[k] = d[k]
  BY <1>2, <1>5, <1>6
<1>8. \A k \in (n + 1)..(n + Len(kept)) : l[k] = kept[k - n]
  BY <1>2, <1>5, <1>6
<1>9. \A s \in Session : s \in S <=> body[s] # Absent /\ s \notin Ids(kept)
  OBVIOUS
<1>10. \A k \in 1..n : l[k] \in Session /\ body[l[k]] # Absent /\ l[k] \notin Ids(kept)
  BY <1>2, <1>7
<1>11. \A s \in Session : body[s] # Absent /\ s \notin Ids(kept) => \E k \in 1..n : l[k] = s
  BY <1>2, <1>7, <1>9
<1>12. \A j, k \in 1..n : j < k => l[k] < l[j]
  BY <1>2, <1>7
<1> HIDE DEF n, l, S, d
<1> QED
  BY <1>2, <1>5, <1>8, <1>10, <1>11, <1>12 DEF l

\* The list that was emptied.
LEMMA EmptyIsCoherent == Coherent(<<>>) /\ <<>> \in Seq(Session) /\ Ids(<<>>) = {}
BY DEF Coherent, Ids

\* A whole reply keeps a coherent list coherent.
LEMMA AddMissingIsCoherent ==
  ASSUME TypeOK, NEW body \in Snapshot, WholeReply(body), NEW kept \in Seq(Session), Coherent(kept)
  PROVE  AddMissing(body, kept) \in Seq(Session) /\ Coherent(AddMissing(body, kept))
<1> DEFINE l == AddMissing(body, kept)
<1>1. PICK n \in Nat :
        /\ l \in Seq(Session) /\ Len(l) = n + Len(kept)
        /\ \A k \in 1..n : l[k] \in Session /\ body[l[k]] # Absent /\ l[k] \notin Ids(kept)
        /\ \A k \in (n + 1)..(n + Len(kept)) : l[k] = kept[k - n]
        /\ \A s \in Session : body[s] # Absent /\ s \notin Ids(kept) => \E k \in 1..n : l[k] = s
        /\ \A j, k \in 1..n : j < k => l[k] < l[j]
  BY AddMissingFacts
<1> HIDE DEF l
<1> DEFINE m == Len(kept)
<1>2. m \in Nat /\ DOMAIN kept = 1..m /\ DOMAIN l = 1..(n + m)
  BY <1>1, LenProperties
<1>3. \A k \in 1..m : kept[k] \in Ids(kept) /\ kept[k] \in Session
  BY <1>2, ElementOfSeq DEF Ids
<1>4. \A k \in 1..(n + m) :
        \/ k \in 1..n
        \/ k \in (n + 1)..(n + m) /\ k - n \in 1..m /\ l[k] = kept[k - n]
  BY <1>1, <1>2
<1>5. \A s : s \in Ids(l) <=> \E k \in 1..(n + m) : l[k] = s
  BY <1>2 DEF Ids
<1>6. \A s \in Session : s \in Ids(l) <=> body[s] # Absent \/ s \in Ids(kept)
  <2> TAKE s \in Session
  <2>1. ASSUME s \in Ids(l) PROVE body[s] # Absent \/ s \in Ids(kept)
    <3>1. PICK k \in 1..(n + m) : l[k] = s
      BY <2>1, <1>5
    <3> QED
      BY <3>1, <1>1, <1>3, <1>4
  <2>2. ASSUME s \in Ids(kept) PROVE s \in Ids(l)
    <3>1. PICK k \in 1..m : kept[k] = s
      BY <2>2, <1>2 DEF Ids
    <3>2. k + n \in 1..(n + m) /\ k + n \in (n + 1)..(n + m) /\ (k + n) - n = k
      BY <1>2
    <3>3. l[k + n] = s
      BY <3>1, <3>2, <1>1
    <3> QED
      BY <3>2, <3>3, <1>5
  <2>3. ASSUME body[s] # Absent, s \notin Ids(kept) PROVE s \in Ids(l)
    <3>1. PICK k \in 1..n : l[k] = s
      BY <2>3, <1>1
    <3>2. k \in 1..(n + m)
      BY <1>2
    <3> QED
      BY <3>1, <3>2, <1>5
  <2> QED
    BY <2>1, <2>2, <2>3
<1>7. ASSUME NEW j \in 1..(n + m), NEW k \in 1..(n + m), l[j] = l[k] PROVE j = k
  <2>1. CASE j \in 1..n /\ k \in 1..n
    <3>1. l[j] \in Int /\ l[k] \in Int
      BY <1>1, <2>1, SessionIsInt
    <3>2. ~(j < k) /\ ~(k < j)
      BY <1>1, <2>1, <1>7, <3>1
    <3> QED
      BY <3>2
  <2>2. CASE j \in 1..n /\ k \notin 1..n
    BY <2>2, <1>1, <1>3, <1>4, <1>7
  <2>3. CASE j \notin 1..n /\ k \in 1..n
    BY <2>3, <1>1, <1>3, <1>4, <1>7
  <2>4. CASE j \notin 1..n /\ k \notin 1..n
    <3>1. kept[j - n] = kept[k - n] /\ j - n \in 1..m /\ k - n \in 1..m
      BY <2>4, <1>4, <1>7
    <3>2. j - n = k - n
      BY <3>1, <1>2 DEF Coherent
    <3> QED
      BY <3>2
  <2> QED
    BY <2>1, <2>2, <2>3, <2>4
<1>8. Ids(l) \in SUBSET Session
  BY <1>1, <1>2, ElementOfSeq DEF Ids
<1>9. ASSUME NEW s \in Ids(l)
      PROVE  s <= created /\ \A t \in Session : t < s /\ OnServer(t) => t \in Ids(l)
  <2>1. s \in Session
    BY <1>8
  <2>2. CASE body[s] # Absent
    BY <2>1, <2>2, <1>6 DEF WholeReply
  <2>3. CASE s \in Ids(kept)
    BY <2>1, <2>3, <1>6 DEF Coherent
  <2> QED
    BY <2>1, <2>2, <2>3, <1>6
<1>10. ASSUME NEW j \in 1..(n + m), NEW k \in 1..(n + m), OnServer(l[j]), OnServer(l[k]), l[j] > l[k]
       PROVE  j < k
  <2>1. l[j] \in Session /\ l[k] \in Session /\ l[j] \in Int /\ l[k] \in Int
    BY <1>1, <1>2, ElementOfSeq, SessionIsInt
  <2>2. CASE j \in 1..n /\ k \in 1..n
    <3>1. j # k /\ ~(k < j)
      BY <1>1, <2>1, <2>2, <1>10
    <3> QED
      BY <3>1
  <2>3. CASE j \in 1..n /\ k \notin 1..n
    BY <2>3, <1>4
  <2>4. CASE j \notin 1..n /\ k \in 1..n
    <3>1. l[j] \in Ids(kept)
      BY <2>4, <1>3, <1>4
    <3>2. l[k] \in Ids(kept)
      BY <3>1, <2>1, <1>10 DEF Coherent
    <3> QED
      BY <3>2, <2>4, <1>1
  <2>5. CASE j \notin 1..n /\ k \notin 1..n
    <3>1. j - n \in 1..m /\ k - n \in 1..m /\ l[j] = kept[j - n] /\ l[k] = kept[k - n]
      BY <2>5, <1>4
    <3>2. j - n < k - n
      BY <3>1, <1>2, <1>10 DEF Coherent
    <3> QED
      BY <3>2
  <2> QED
    BY <2>2, <2>3, <2>4, <2>5
<1>11. Coherent(l)
  BY <1>2, <1>7, <1>9, <1>10 DEF Coherent
<1> QED
  BY <1>1, <1>11 DEF l

-----------------------------------------------------------------------------
(* The steps of the server                                                 *)

\* A slot without a request.
LEMMA IdleType == Idle \in Call /\ Nothing \in Snapshot
BY DEF Idle, Call, Nothing, Snapshot, Absent, None

\* The page as it is loaded.
LEMMA InitInv == Init => Inv
<1> SUFFICES ASSUME Init PROVE Inv
  OBVIOUS
<1>1. TypeOK
  <2>1. call \in [Slot -> Call]
    <3>1. [Idle EXCEPT !.kind = "populate"] \in Call
      BY IdleType DEF Call, Idle
    <3> QED
      BY <3>1, IdleType DEF Init
  <2>2. 0 \in 0..MaxSession /\ 0 \in 0..MaxStage /\ 0 \in 0..MaxFault
    BY ViewerAssumption
  <2>3. stage \in [Session -> 0..MaxStage] /\ list \in Seq(Session) /\ shown \in Snapshot
    BY <2>2, IdleType, EmptyIsCoherent DEF Init
  <2>4. container \in [of : {None} \cup Session, reports : SUBSET Session]
    BY DEF Init, Empty
  <2> QED
    BY <2>1, <2>2, <2>3, <2>4 DEF Init, TypeOK
<1>2. Coherent(list)
  BY EmptyIsCoherent DEF Init
<1>3. \A c \in Slot : ~call[c].answered /\ call[c].kind \in {"idle", "populate"}
  BY DEF Init, Idle
<1>4. RepliesWhole /\ Named /\ Downloads /\ DownloadedIsCurrent
  BY <1>3 DEF RepliesWhole, Named, Downloads, DownloadedIsCurrent, Init
<1> QED
  BY <1>1, <1>2, <1>4 DEF Inv

\* A new session is newer than all the list and the replies know of.
LEMMA SubmitStep == Inv /\ Submit => Inv'
<1> SUFFICES ASSUME Inv, Submit PROVE Inv'
  OBVIOUS
<1>1. TypeOK /\ created \in Nat /\ MaxSession \in Nat /\ created' = created + 1
  BY ViewerAssumption DEF Inv, TypeOK, Submit
<1>2. TypeOK'
  BY <1>1 DEF TypeOK, Submit, listVars, drillVars, reportVars, callVars
<1>3. \A t \in Session : OnServer(t)' => OnServer(t) \/ t = created + 1
  BY <1>1, SessionIsInt DEF OnServer, Submit
<1>4. ASSUME NEW body \in Snapshot, WholeReply(body) PROVE WholeReply(body)'
  BY <1>1, <1>3, <1>4, SessionIsInt DEF WholeReply
<1>5. \A s \in Ids(list) : s \in Session /\ s <= created
  BY <1>1, ElementOfSeq DEF Inv, Coherent, Ids, TypeOK
<1>6. list' = list
  BY DEF Submit, listVars
<1>7. Coherent(list)'
  <2>1. \A s \in Ids(list) :
          s <= created' /\ \A t \in Session : t < s /\ OnServer(t)' => t \in Ids(list)
    <3> SUFFICES ASSUME NEW s \in Ids(list) PROVE
          s <= created' /\ \A t \in Session : t < s /\ OnServer(t)' => t \in Ids(list)
      OBVIOUS
    <3>1. s \in Int /\ s <= created
      BY <1>5, SessionIsInt
    <3>2. s <= created' /\ \A t \in Session : t < s => t # created + 1
      BY <1>1, <3>1, SessionIsInt
    <3> QED
      BY <3>2, <1>3 DEF Inv, Coherent
  <2>2. \A k \in DOMAIN list : OnServer(list[k])' => OnServer(list[k])
    <3> SUFFICES ASSUME NEW k \in DOMAIN list PROVE OnServer(list[k])' => OnServer(list[k])
      OBVIOUS
    <3>1. list[k] \in Session /\ list[k] <= created
      BY <1>5 DEF Ids
    <3>2. list[k] # created + 1
      BY <1>1, <3>1, SessionIsInt
    <3> QED
      BY <3>1, <3>2, <1>3, <1>6
  <2>3. Ids(list)' = Ids(list)
    BY <1>6 DEF Ids
  <2> QED
    BY <2>1, <2>2, <2>3, <1>6 DEF Coherent, Inv
<1>8. RepliesWhole' /\ Named' /\ Downloads' /\ DownloadedIsCurrent'
  <2>1. UNCHANGED <<call, drilled, currentSessionId, overlay, onDisk, currentSessionReportsDownloaded>>
    BY DEF Submit, drillVars, reportVars, callVars
  <2>2. \A c \in Slot : call[c].body \in Snapshot
    BY <1>1 DEF TypeOK, Call
  <2>3. RepliesWhole'
    BY <2>1, <2>2, <1>4 DEF RepliesWhole, Inv
  <2> QED
    BY <2>1, <2>3 DEF Inv, Named, Downloads, DownloadedIsCurrent
<1> QED
  BY <1>2, <1>7, <1>8 DEF Inv

\* Nothing the list or the replies say is about a session that goes away.
LEMMA ProgressDeleteStep ==
  ASSUME Inv, NEW s \in Session, Progress(s) \/ Delete(s) PROVE Inv'
<1>1. TypeOK /\ UNCHANGED <<created, onDisk, call, failures, list, shown, repopulateNeeded, drilled,
        currentSessionId, container, currentSessionReportsDownloaded, overlay>>
  BY DEF Inv, Progress, Delete, listVars, drillVars, reportVars, callVars
<1>2. stage' \in [Session -> 0..MaxStage] /\ deleted \subseteq deleted' /\ deleted' \subseteq Session
  BY <1>1, ViewerAssumption DEF TypeOK, Progress, Delete
<1>3. TypeOK'
  BY <1>1, <1>2 DEF TypeOK
<1>4. \A t : OnServer(t)' => OnServer(t)
  BY <1>1, <1>2 DEF OnServer
<1>5. Coherent(list)'
  <2>1. Ids(list)' = Ids(list)
    BY <1>1 DEF Ids
  <2> QED
    BY <1>1, <1>4, <2>1 DEF Coherent, Inv
<1>6. RepliesWhole' /\ Named' /\ Downloads' /\ DownloadedIsCurrent'
  BY <1>1, <1>4 DEF RepliesWhole, WholeReply, Named, Downloads, DownloadedIsCurrent, Inv
<1> QED
  BY <1>3, <1>5, <1>6 DEF Inv

\* What the server holds is a whole picture of it.
LEMMA AskedIsWhole ==
  ASSUME TypeOK, NEW r \in Call
  PROVE  /\ Asked(r) \in Snapshot
         /\ r.kind \in {"refresh", "populate"} => WholeReply(Asked(r))
<1>1. \A s \in Session : stage[s] \in 0..MaxStage /\ stage[s] # Absent
  BY DEF TypeOK, Absent
<1>2. Asked(r) \in Snapshot
  BY <1>1 DEF Asked, Snapshot
<1>3. ASSUME r.kind \in {"refresh", "populate"}
      PROVE \A s \in Session : Asked(r)[s] # Absent <=> OnServer(s)
  BY <1>1, <1>3 DEF Asked
<1> QED
  BY <1>2, <1>3 DEF WholeReply, OnServer

\* An answer is whole, and reports that were retrieved are on the disk.
LEMMA AnswerStep == ASSUME Inv, NEW c \in Slot, Answer(c) PROVE Inv'
<1> DEFINE r == call[c]
           q == call'[c]
<1>1. TypeOK /\ r \in Call
  BY DEF Inv, TypeOK
<1>2. /\ r.kind # "idle"
      /\ call' = [call EXCEPT ![c].answered = TRUE, ![c].body = Asked(r),
                    ![c].ok = r.kind = "download" => OnServer(r.id)]
      /\ UNCHANGED <<created, stage, deleted, failures, list, shown, repopulateNeeded, drilled,
           currentSessionId, container, currentSessionReportsDownloaded, overlay>>
  BY DEF Answer, listVars, drillVars, reportVars
<1>3. /\ q.kind = r.kind /\ q.id = r.id /\ q.answered = TRUE /\ q.body = Asked(r)
      /\ q.ok = (r.kind = "download" => OnServer(r.id))
      /\ q \in Call /\ call' \in [Slot -> Call]
      /\ \A d \in Slot \ {c} : call'[d] = call[d]
  <2>1. q = [r EXCEPT !.answered = TRUE, !.body = Asked(r), !.ok = (r.kind = "download" => OnServer(r.id))]
    BY <1>1, <1>2 DEF TypeOK
  <2>2. /\ q.kind = r.kind /\ q.id = r.id /\ q.answered = TRUE /\ q.body = Asked(r)
        /\ q.ok = (r.kind = "download" => OnServer(r.id)) /\ q \in Call
    BY <1>1, <2>1, AskedIsWhole DEF Call
  <2>3. \A d \in Slot \ {c} : call'[d] = call[d]
    BY <1>1, <1>2 DEF TypeOK
  <2>4. call' = [d \in Slot |-> call'[d]]
    BY <1>1, <1>2 DEF TypeOK
  <2>5. \A d \in Slot : call'[d] \in Call
    BY <2>2, <2>3, <1>1 DEF TypeOK
  <2> QED
    BY <2>2, <2>3, <2>4, <2>5
<1>4. /\ onDisk \subseteq onDisk' /\ onDisk' \subseteq Session
      /\ r.kind = "download" /\ OnServer(r.id) => r.id \in onDisk'
  <2>1. onDisk' = IF r.kind = "download" /\ OnServer(r.id) THEN onDisk \cup {r.id} ELSE onDisk
    BY DEF Answer
  <2>2. r.kind = "download" => r.id \in Session
    BY <1>1 DEF Inv, Named, Call
  <2> QED
    BY <2>1, <2>2, <1>1 DEF TypeOK
<1>5. TypeOK'
  BY <1>1, <1>2, <1>3, <1>4 DEF TypeOK
<1>6. Coherent(list)'
  <2>1. Ids(list)' = Ids(list)
    BY <1>2 DEF Ids
  <2> QED
    BY <1>2, <2>1 DEF Coherent, OnServer, Inv
<1>7. RepliesWhole'
  <2>1. r.kind \in {"refresh", "populate"} => \A s \in Session : call'[c].body[s] # Absent =>
          s <= created /\ \A t \in Session : t < s /\ OnServer(t) => call'[c].body[t] # Absent
    BY <1>1, <1>3, AskedIsWhole DEF WholeReply
  <2>2. SUFFICES ASSUME NEW d \in Slot, call'[d].kind \in {"refresh", "populate"},
                        call'[d].answered /\ call'[d].ok
                 PROVE  WholeReply(call[d].body)'
    BY DEF RepliesWhole
  <2>3. CASE d = c
    BY <2>1, <2>2, <2>3, <1>2, <1>3 DEF WholeReply, OnServer
  <2>4. CASE d # c
    <3>1. WholeReply(call[d].body)
      BY <2>2, <2>4, <1>3 DEF Inv, RepliesWhole
    <3> QED
      BY <3>1, <2>4, <1>2, <1>3 DEF WholeReply, OnServer
  <2> QED
    BY <2>3, <2>4
<1>8. Named' /\ Downloads' /\ DownloadedIsCurrent'
  BY <1>2, <1>3, <1>4 DEF Named, Downloads, DownloadedIsCurrent, Inv
<1> QED
  BY <1>5, <1>6, <1>7, <1>8 DEF Inv

\* A request that failed says nothing.
LEMMA FailStep == ASSUME Inv, NEW c \in Slot, Fail(c) PROVE Inv'
<1> DEFINE r == call[c]
           q == call'[c]
<1>1. TypeOK /\ r \in Call
  BY DEF Inv, TypeOK
<1>2. /\ call' = [call EXCEPT ![c].answered = TRUE, ![c].ok = FALSE]
      /\ failures' = failures + 1 /\ Cardinality(deleted) + failures < MaxFault
      /\ UNCHANGED <<created, stage, deleted, onDisk, list, shown, repopulateNeeded, drilled,
           currentSessionId, container, currentSessionReportsDownloaded, overlay>>
  BY DEF Fail, serverVars, listVars, drillVars, reportVars
<1>3. /\ q.kind = r.kind /\ q.id = r.id /\ q.ok = FALSE
      /\ call' \in [Slot -> Call]
      /\ \A d \in Slot \ {c} : call'[d] = call[d]
  BY <1>1, <1>2 DEF TypeOK, Call
<1>4. failures' \in 0..MaxFault
  <2>1. Cardinality(deleted) \in Nat
    BY <1>1, FinSession DEF TypeOK
  <2> QED
    BY <1>1, <1>2, <2>1, ViewerAssumption DEF TypeOK
<1>5. TypeOK'
  BY <1>1, <1>2, <1>3, <1>4 DEF TypeOK
<1>6. Coherent(list)'
  <2>1. Ids(list)' = Ids(list)
    BY <1>2 DEF Ids
  <2> QED
    BY <1>2, <2>1 DEF Coherent, OnServer, Inv
<1>7. RepliesWhole' /\ Named' /\ Downloads' /\ DownloadedIsCurrent'
  BY <1>2, <1>3 DEF RepliesWhole, WholeReply, OnServer, Named, Downloads, DownloadedIsCurrent, Inv
<1> QED
  BY <1>5, <1>6, <1>7 DEF Inv

-----------------------------------------------------------------------------
(* The steps of the page                                                   *)

\* A request takes one idle slot.
LEMMA SendFacts ==
  ASSUME TypeOK, NEW kind \in {"refresh", "session", "download"}, NEW id \in {None} \cup Session,
         Send(kind, id)
  PROVE  /\ call' \in [Slot -> Call] /\ failures' = failures
         /\ \E c \in Slot :
              /\ call'[c].kind = kind /\ call'[c].id = id /\ ~call'[c].answered
              /\ \A d \in Slot \ {c} : call'[d] = call[d]
<1>1. PICK c \in Slot : call' = [call EXCEPT ![c] = [Idle EXCEPT !.kind = kind, !.id = id]]
  BY DEF Send
<1>2. [Idle EXCEPT !.kind = kind, !.id = id] \in Call
  BY IdleType DEF Call, Idle
<1>3. call \in [Slot -> Call]
  BY DEF TypeOK
<1> QED
  BY <1>1, <1>2, <1>3 DEF Send, Idle

\* A list that is left alone on a server that is left alone.
LEMMA CoherentStays ==
  ASSUME Coherent(list), UNCHANGED <<created, deleted, list>>
  PROVE  Coherent(list)'
<1>1. Ids(list)' = Ids(list)
  BY DEF Ids
<1> QED
  BY <1>1 DEF Coherent, OnServer

\* An answered reply is not that of a new request.
LEMMA SendKeepsReplies ==
  ASSUME RepliesWhole, UNCHANGED <<created, deleted>>, NEW c \in Slot, ~call'[c].answered,
         \A d \in Slot \ {c} : call'[d] = call[d]
  PROVE  RepliesWhole'
BY DEF RepliesWhole, WholeReply, OnServer

\* The timer sends one more request.
LEMMA AskSessionsStep == Inv /\ AskSessions => Inv'
<1> SUFFICES ASSUME Inv, AskSessions PROVE Inv'
  OBVIOUS
<1>1. TypeOK /\ UNCHANGED <<created, stage, deleted, onDisk, list, shown, repopulateNeeded, drilled,
        currentSessionId, container, currentSessionReportsDownloaded, overlay>>
  BY DEF Inv, AskSessions, serverVars, listVars, drillVars, reportVars
<1>2. Send("refresh", None)
  BY DEF AskSessions
<1>3. PICK c \in Slot :
        /\ call'[c].kind = "refresh" /\ call'[c].id = None /\ ~call'[c].answered
        /\ \A d \in Slot \ {c} : call'[d] = call[d]
  BY <1>1, <1>2, SendFacts
<1>4. call' \in [Slot -> Call] /\ failures' = failures
  BY <1>1, <1>2, SendFacts
<1>5. TypeOK'
  BY <1>1, <1>4 DEF TypeOK
<1>6. Coherent(list)' /\ RepliesWhole'
  BY <1>1, <1>3, CoherentStays, SendKeepsReplies DEF Inv
<1>7. Named' /\ Downloads' /\ DownloadedIsCurrent'
  BY <1>1, <1>3 DEF Named, Downloads, DownloadedIsCurrent, Inv
<1> QED
  BY <1>5, <1>6, <1>7 DEF Inv

\* The drill-down forgets what was retrieved for the session before.
LEMMA DrilldownStep == ASSUME Inv, NEW s \in Session, Drilldown(s) PROVE Inv'
<1>1. /\ TypeOK /\ overlay = "hidden"
      /\ drilled' = TRUE /\ currentSessionId' = s /\ currentSessionReportsDownloaded' = FALSE
      /\ UNCHANGED <<created, stage, deleted, onDisk, list, shown, repopulateNeeded, container, overlay>>
  BY DEF Inv, Drilldown, Covered, serverVars, listVars
<1>2. Send("session", s)
  BY DEF Drilldown
<1>3. PICK c \in Slot :
        /\ call'[c].kind = "session" /\ call'[c].id = s /\ ~call'[c].answered
        /\ \A d \in Slot \ {c} : call'[d] = call[d]
  BY <1>1, <1>2, SendFacts
<1>4. call' \in [Slot -> Call] /\ failures' = failures
  BY <1>1, <1>2, SendFacts
<1>5. TypeOK'
  BY <1>1, <1>4 DEF TypeOK
<1>6. Coherent(list)' /\ RepliesWhole'
  BY <1>1, <1>3, CoherentStays, SendKeepsReplies DEF Inv
<1>7. s # None
  BY SessionIsInt DEF Session, None
<1>8. Named'
  BY <1>1, <1>3, <1>7 DEF Named, Inv
<1>9. \A d \in Slot : call'[d].kind # "download"
  BY <1>1, <1>3 DEF Inv, Downloads
<1>10. Downloads' /\ DownloadedIsCurrent'
  BY <1>1, <1>9 DEF Downloads, DownloadedIsCurrent
<1> QED
  BY <1>5, <1>6, <1>8, <1>10 DEF Inv

\* The overlay comes with the only request for reports.
LEMMA OpenReportLinkStep == ASSUME Inv, NEW r \in Session, OpenReportLink(r) PROVE Inv'
<1>1. /\ TypeOK /\ drilled /\ overlay = "hidden" /\ overlay' = "waiting"
      /\ ~currentSessionReportsDownloaded
      /\ UNCHANGED <<created, stage, deleted, onDisk, list, shown, repopulateNeeded, drilled,
           currentSessionId, container, currentSessionReportsDownloaded>>
  BY DEF Inv, OpenReportLink, Covered, serverVars, listVars, drillVars
<1>2. Send("download", currentSessionId) /\ currentSessionId \in {None} \cup Session
  BY <1>1 DEF OpenReportLink, TypeOK
<1>3. PICK c \in Slot :
        /\ call'[c].kind = "download" /\ call'[c].id = currentSessionId /\ ~call'[c].answered
        /\ \A d \in Slot \ {c} : call'[d] = call[d]
  BY <1>1, <1>2, SendFacts
<1>4. call' \in [Slot -> Call] /\ failures' = failures
  BY <1>1, <1>2, SendFacts
<1>5. TypeOK'
  BY <1>1, <1>4 DEF TypeOK
<1>6. Coherent(list)' /\ RepliesWhole'
  BY <1>1, <1>3, CoherentStays, SendKeepsReplies DEF Inv
<1>7. Named'
  BY <1>1, <1>3 DEF Named, Inv
<1>8. \A d \in Slot \ {c} : call'[d].kind # "download"
  BY <1>1, <1>3 DEF Inv, Downloads
<1>9. Downloads' /\ DownloadedIsCurrent'
  BY <1>1, <1>3, <1>8 DEF Downloads, DownloadedIsCurrent
<1> QED
  BY <1>5, <1>6, <1>7, <1>9 DEF Inv

\* The settings, the arrow and the overlay.
LEMMA ClickStep == Inv /\ (ChangeSettings \/ Back \/ CloseOverlay) => Inv'
<1> SUFFICES ASSUME Inv, ChangeSettings \/ Back \/ CloseOverlay PROVE Inv'
  OBVIOUS
<1>1. /\ TypeOK
      /\ UNCHANGED <<created, stage, deleted, onDisk, call, failures, list, shown,
           currentSessionId, container, currentSessionReportsDownloaded>>
      /\ repopulateNeeded' \in BOOLEAN
      /\ drilled' \in BOOLEAN /\ (drilled' => drilled)
      /\ overlay' = overlay \/ (overlay \in {"retrieved", "failed"} /\ overlay' = "hidden")
  <2> USE DEF Inv, TypeOK, serverVars, callVars, listVars, drillVars, reportVars
  <2>1. CASE ChangeSettings
    BY <2>1 DEF ChangeSettings
  <2>2. CASE Back
    BY <2>2 DEF Back
  <2>3. CASE CloseOverlay
    BY <2>3 DEF CloseOverlay
  <2> QED
    BY <2>1, <2>2, <2>3
<1>2. TypeOK'
  BY <1>1 DEF TypeOK
<1>3. Coherent(list)'
  BY <1>1, CoherentStays DEF Inv
<1>4. RepliesWhole' /\ Named' /\ DownloadedIsCurrent'
  BY <1>1 DEF RepliesWhole, WholeReply, OnServer, Named, DownloadedIsCurrent, Inv
<1>5. Downloads'
  BY <1>1 DEF Downloads, Inv
<1> QED
  BY <1>2, <1>3, <1>4, <1>5 DEF Inv

\* What a reply finds when it is delivered, and leaves: one request less.
LEMMA DeliverFacts ==
  ASSUME Inv, NEW c \in Slot, Deliver(c)
  PROVE  /\ call[c] \in Call /\ call[c].answered /\ call' \in [Slot -> Call] /\ call'[c] = Idle
         /\ \A d \in Slot \ {c} : call'[d] = call[d]
         /\ UNCHANGED <<created, stage, deleted, onDisk, failures>>
         /\ RepliesWhole'
<1>1. call \in [Slot -> Call]
  BY DEF Inv, TypeOK
<1>2. /\ call' = [call EXCEPT ![c] = Idle] /\ call[c].answered
      /\ UNCHANGED <<created, stage, deleted, onDisk, failures>>
  BY DEF Deliver, serverVars
<1>3. /\ call' \in [Slot -> Call] /\ call'[c] = Idle
      /\ \A d \in Slot \ {c} : call'[d] = call[d]
  BY <1>1, <1>2, IdleType
<1>4. ~call'[c].answered
  BY <1>3 DEF Idle
<1>5. RepliesWhole'
  BY <1>2, <1>3, <1>4, SendKeepsReplies DEF Inv
<1> QED
  BY <1>1, <1>2, <1>3, <1>5

\* The names and the downloads are left alone by a reply that is not about them.
LEMMA OtherReply ==
  ASSUME Inv, NEW c \in Slot, Deliver(c),
         UNCHANGED <<drilled, currentSessionId, currentSessionReportsDownloaded, overlay>>
  PROVE  Named' /\ Downloads' /\ DownloadedIsCurrent'
<1>1. /\ call'[c].kind = "idle" /\ \A d \in Slot \ {c} : call'[d] = call[d]
      /\ UNCHANGED onDisk
  BY DeliverFacts DEF Idle
<1> QED
  BY <1>1 DEF Named, Downloads, DownloadedIsCurrent, Inv

\* The entries of a list that was refreshed.
LEMMA RefreshEntriesType ==
  ASSUME TypeOK, NEW body \in Snapshot, NEW kept
  PROVE  RefreshEntries(body, kept) \in Snapshot
<1>1. \A s \in Session : body[s] \in {Absent} \cup 0..MaxStage /\ shown[s] \in {Absent} \cup 0..MaxStage
  BY DEF Snapshot, TypeOK
<1> QED
  BY <1>1 DEF RefreshEntries, Snapshot

\* A refresh that failed adds nothing.
LEMMA NothingIsWhole == WholeReply(Nothing)
BY DEF WholeReply, Nothing

\* RefreshViewer, with whatever reply.
LEMMA RefreshViewerStep ==
  ASSUME Inv, NEW c \in Slot, Deliver(c), call[c].kind = "refresh" PROVE Inv'
<1> DEFINE r == call[c]
           kept == IF repopulateNeeded THEN <<>> ELSE list
           reply == IF r.ok THEN r.body ELSE Nothing
<1>1. /\ TypeOK /\ r \in Call /\ r.answered /\ call' \in [Slot -> Call]
      /\ UNCHANGED <<created, stage, deleted, onDisk, failures>>
      /\ RepliesWhole'
  BY DeliverFacts DEF Inv
<1>2. RefreshViewer(r.body, r.ok)
  BY DEF Deliver
<1>3. /\ repopulateNeeded' = FALSE
      /\ list' = AddMissing(reply, kept) /\ shown' = RefreshEntries(reply, kept)
      /\ container' = IF r.ok THEN RefreshSessionInDrilldown(r.body) ELSE container
      /\ UNCHANGED <<drilled, currentSessionId, currentSessionReportsDownloaded, overlay>>
  BY <1>2 DEF RefreshViewer, reportVars
<1>4. reply \in Snapshot /\ WholeReply(reply)
  <2>1. r.body \in Snapshot /\ r.ok \in BOOLEAN
    BY <1>1 DEF Call
  <2>2. r.ok => WholeReply(r.body)
    BY <1>1 DEF Inv, RepliesWhole
  <2> QED
    BY <2>1, <2>2, IdleType, NothingIsWhole
<1>5. kept \in Seq(Session) /\ Coherent(kept)
  BY <1>1, EmptyIsCoherent DEF Inv, TypeOK
<1>6. list' \in Seq(Session) /\ Coherent(list')
  <2> HIDE DEF kept, reply
  <2> QED
    BY <1>1, <1>3, <1>4, <1>5, AddMissingIsCoherent
<1>7. Coherent(list)'
  <2>1. Ids(list)' = Ids(list')
    BY DEF Ids
  <2> QED
    BY <1>1, <1>6, <2>1 DEF Coherent, OnServer
<1>8. shown' \in Snapshot
  BY <1>1, <1>3, <1>4, RefreshEntriesType
<1>9. container' \in [of : {None} \cup Session, reports : SUBSET Session]
  <2>1. \A body : RefreshSessionInDrilldown(body) \in [of : {None} \cup Session, reports : SUBSET Session]
    BY <1>1 DEF RefreshSessionInDrilldown, TypeOK
  <2> QED
    BY <1>1, <1>3, <2>1 DEF TypeOK
<1>10. TypeOK'
  BY <1>1, <1>3, <1>6, <1>8, <1>9 DEF TypeOK
<1> QED
  BY <1>1, <1>3, <1>7, <1>10, OtherReply DEF Inv

\* The first reply makes the list out of nothing.
LEMMA IdsOfIsAddMissing ==
  ASSUME NEW body PROVE IdsOf(body, {}) = AddMissing(body, <<>>)
<1> DEFINE S == {s \in Session : body[s] # Absent}
<1>1. IdsOf(body, {}) = Descending(S) /\ AddMissing(body, <<>>) = Descending(S) \o <<>>
  <2>1. S \ {} = S
    OBVIOUS
  <2> QED
    BY <2>1, EmptyIsCoherent DEF IdsOf, AddMissing
<1>2. Descending(S) \in Seq(S)
  BY DescendingFacts
<1> QED
  BY <1>1, <1>2, ConcatEmptySeq

\* PopulateSessionsView, with whatever reply.
LEMMA PopulateSessionsViewStep ==
  ASSUME Inv, NEW c \in Slot, Deliver(c), call[c].kind = "populate" PROVE Inv'
<1> DEFINE r == call[c]
<1>1. /\ TypeOK /\ r \in Call /\ r.answered /\ call' \in [Slot -> Call]
      /\ UNCHANGED <<created, stage, deleted, onDisk, failures>>
      /\ RepliesWhole'
  BY DeliverFacts DEF Inv
<1>2. /\ list' = IF r.ok THEN IdsOf(r.body, {}) ELSE list
      /\ shown' = IF r.ok THEN r.body ELSE shown
      /\ UNCHANGED <<repopulateNeeded, drilled, currentSessionId, container,
           currentSessionReportsDownloaded, overlay>>
  BY DEF Deliver, PopulateSessionsView, drillVars, reportVars
<1>3. r.body \in Snapshot /\ r.ok \in BOOLEAN
  BY <1>1 DEF Call
<1>4. list' \in Seq(Session) /\ Coherent(list')
  <2>1. CASE r.ok
    <3>1. WholeReply(r.body)
      BY <2>1, <1>1 DEF Inv, RepliesWhole
    <3>2. list' = AddMissing(r.body, <<>>)
      BY <1>2, <2>1, IdsOfIsAddMissing
    <3> QED
      BY <1>1, <1>3, <3>1, <3>2, EmptyIsCoherent, AddMissingIsCoherent
  <2>2. CASE ~r.ok
    BY <2>2, <1>1, <1>2 DEF Inv, TypeOK
  <2> QED
    BY <2>1, <2>2
<1>5. Coherent(list)'
  <2>1. Ids(list)' = Ids(list')
    BY DEF Ids
  <2> QED
    BY <1>1, <1>4, <2>1 DEF Coherent, OnServer
<1>6. TypeOK'
  BY <1>1, <1>2, <1>3, <1>4 DEF TypeOK
<1> QED
  BY <1>1, <1>2, <1>5, <1>6, OtherReply DEF Inv

\* The reply about one session, current or not.
LEMMA PopulateSessionViewStep ==
  ASSUME Inv, NEW c \in Slot, Deliver(c), call[c].kind = "session" PROVE Inv'
<1> DEFINE r == call[c]
<1>1. /\ TypeOK /\ r \in Call /\ r.answered /\ call' \in [Slot -> Call]
      /\ UNCHANGED <<created, stage, deleted, onDisk, failures>>
      /\ RepliesWhole'
  BY DeliverFacts DEF Inv
<1>2. /\ container' = IF ~r.ok THEN container
                      ELSE IF r.body[r.id] = Absent THEN Empty
                      ELSE [of |-> r.id, reports |-> IF r.body[r.id] > 0 THEN {r.id} ELSE {}]
      /\ UNCHANGED <<list, shown, repopulateNeeded, drilled, currentSessionId,
           currentSessionReportsDownloaded, overlay>>
  BY DEF Deliver, PopulateSessionView, listVars, reportVars
<1>3. r.id \in Session
  BY <1>1 DEF Inv, Named, Call
<1>4. container' \in [of : {None} \cup Session, reports : SUBSET Session]
  BY <1>1, <1>2, <1>3 DEF TypeOK, Empty
<1>5. TypeOK'
  BY <1>1, <1>2, <1>4 DEF TypeOK
<1>6. Coherent(list)'
  BY <1>1, <1>2, CoherentStays DEF Inv
<1> QED
  BY <1>1, <1>2, <1>5, <1>6, OtherReply DEF Inv

\* The reply of downloadreports finds the session it was asked for.
LEMMA ReportsRetrievedStep ==
  ASSUME Inv, NEW c \in Slot, Deliver(c), call[c].kind = "download" PROVE Inv'
<1> DEFINE r == call[c]
<1>1. /\ TypeOK /\ r \in Call /\ r.answered /\ call' \in [Slot -> Call] /\ call'[c] = Idle
      /\ \A d \in Slot \ {c} : call'[d] = call[d]
      /\ UNCHANGED <<created, stage, deleted, onDisk, failures>>
      /\ RepliesWhole'
  BY DeliverFacts DEF Inv
<1>2. /\ overlay' = IF r.ok THEN "retrieved" ELSE "failed"
      /\ currentSessionReportsDownloaded' = (r.ok \/ currentSessionReportsDownloaded)
      /\ UNCHANGED <<list, shown, repopulateNeeded, drilled, currentSessionId, container>>
  BY DEF Deliver, ReportsRetrieved, listVars, drillVars
<1>3. r.ok \in BOOLEAN
  BY <1>1 DEF Call
<1>4. TypeOK'
  BY <1>1, <1>2, <1>3 DEF TypeOK
<1>5. Coherent(list)'
  BY <1>1, <1>2, CoherentStays DEF Inv
<1>6. \A d \in Slot : call'[d].kind # "download"
  BY <1>1 DEF Inv, Downloads, Idle
<1>7. Named' /\ Downloads'
  BY <1>1, <1>2, <1>6 DEF Named, Downloads, Inv, Idle
<1>8. DownloadedIsCurrent'
  BY <1>1, <1>2 DEF Inv, Downloads, DownloadedIsCurrent
<1> QED
  BY <1>1, <1>4, <1>5, <1>7, <1>8 DEF Inv

\* One of the four replies.
LEMMA DeliverStep == ASSUME Inv, NEW c \in Slot, Deliver(c) PROVE Inv'
<1>1. call[c].kind \in {"refresh", "populate", "session", "download"}
  BY DEF Deliver
<1> QED
  BY <1>1, RefreshViewerStep, PopulateSessionsViewStep, PopulateSessionViewStep, ReportsRetrievedStep

-----------------------------------------------------------------------------
(* The theorems                                                            *)

\* Every step keeps the invariant.
LEMMA NextInv == Inv /\ [Next]_vars => Inv'
<1> SUFFICES ASSUME Inv, [Next]_vars PROVE Inv'
  OBVIOUS
<1>1. CASE Next
  BY <1>1, SubmitStep, ProgressDeleteStep, DrilldownStep, OpenReportLinkStep, AnswerStep, FailStep,
     DeliverStep, AskSessionsStep, ClickStep DEF Next
<1>2. CASE UNCHANGED vars
  <2>1. UNCHANGED <<created, stage, deleted, onDisk, call, failures, list, shown, repopulateNeeded,
          drilled, currentSessionId, container, currentSessionReportsDownloaded, overlay>>
    BY <1>2 DEF vars, serverVars, listVars, drillVars, reportVars, callVars
  <2>2. TypeOK'
    BY <2>1 DEF Inv, TypeOK
  <2>3. Coherent(list)'
    BY <2>1, CoherentStays DEF Inv
  <2> QED
    BY <2>1, <2>2, <2>3
       DEF Inv, RepliesWhole, WholeReply, OnServer, Named, Downloads, DownloadedIsCurrent
<1> QED
  BY <1>1, <1>2

\* The invariant holds in every behaviour of the viewer.
THEOREM InvariantHolds == Spec => []Inv
BY InitInv, NextInv, PTL DEF Spec

\* The page stays in states its code can handle: no reply is taken for a session that
\* is not one, and no link opens without a session.
THEOREM TypeCorrect == Spec => []TypeOK
<1>1. Inv => TypeOK
  BY DEF Inv
<1> QED
  BY <1>1, InvariantHolds, PTL

\* RefreshViewer and PopulateSessionsView keep the list a list of the sessions of the
\* server, once each, with no holes, the newest first, whatever the order in which the
\* replies arrive.
THEOREM ListStaysCoherent == Spec => []ListCoherent
<1>1. Inv => ListCoherent
  BY CoherentIsListCoherent DEF Inv
<1> QED
  BY <1>1, InvariantHolds, PTL

\* OpenReportLink opens a report at once only when the reports of the session on the
\* screen are on the disk: the overlay keeps the reply of one session from vouching
\* for the next.
THEOREM LinksOpenWhatIsThere == Spec => []DownloadedIsCurrent
<1>1. Inv => DownloadedIsCurrent
  BY DEF Inv
<1> QED
  BY <1>1, InvariantHolds, PTL

=============================================================================
