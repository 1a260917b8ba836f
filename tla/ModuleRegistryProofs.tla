------------------------ MODULE ModuleRegistryProofs ------------------------
(***************************************************************************)
(* ModuleRegistry for every set of modules, every assignment of names and  *)
(* dependencies and every way of handing modules over: records and         *)
(* ownership, the order startup_all computes, what its loop and            *)
(* shutdown_all leave behind, and the lifecycle of a module.               *)
(***************************************************************************)
EXTENDS ModuleRegistry, SequenceTheorems, WellFoundedInduction, TLAPS

-----------------------------------------------------------------------------
(* What makes the invariants of the registry inductive, the last ones for a *)
(* careful client.                                                         *)

RecordInv ==
  /\ records \in Seq(Module)
  /\ given \subseteq Owned
  /\ Registered \cap Owned \subseteq given
  /\ OneRecordPerName
  /\ OwnershipExact

Starting == {"PreInit", "Init", "PostInit"}
StartingUp == at \in {"order", "next", "pre_init", "startup", "post_init"}
Dealt == {order[i] : i \in 1 .. cursor}
Ordered == {order[i] : i \in 1 .. Len(order)}
ReadyOnes == {m \in Registered : phase[m] = "Ready"}

\* a module has a phase as long as it has a record
PhaseTracked == \A m \in Module : phase[m] = "Unregistered" <=> m \notin Registered

\* During start-up only the module whose call back is under way is on its way up.
OneStarting ==
  /\ at \in {"order", "next"} => \A m \in Module : phase[m] \notin Starting
  /\ at \in {"pre_init", "startup", "post_init"} =>
       /\ cursor < Len(order)
       /\ phase[Entry] = CASE at = "pre_init"  -> "PreInit"
                           [] at = "startup"   -> "Init"
                           [] at = "post_init" -> "PostInit"
       /\ \A m \in Module : m # Entry => phase[m] \notin Starting
       /\ DepsReady(Entry)

\* No ready modules depend on one another in a circle, so start-up finds each of
\* them a place in its order.
ReadyFounded ==
  at \notin {"stop", "dtor"} =>
    \A S \in SUBSET ReadyOnes : S # {} => \E m \in S : DepsOf(m) \cap S = {}

\* The order is one of registered modules, none twice and each after all its
\* dependencies; while it grows it has every module whose dependencies are dealt
\* with, and then every module that has not failed.
OrderSound ==
  StartingUp =>
    /\ \A i, j \in 1 .. Len(order) : order[i] = order[j] => i = j
    /\ \A i \in 1 .. Len(order) :
         /\ order[i] \in Registered /\ ~MissesDep(order[i])
         /\ \A d \in DepsOf(order[i]) :
              \E j \in 1 .. (i - 1) : order[j] = d /\ (at = "order" => j <= cursor)
         /\ at = "order" \/ i > cursor => phase[order[i]] # "Failed"
    /\ at = "order" =>
         \A m \in Registered : phase[m] # "Failed" =>
           ~MissesDep(m) /\ (DepsOf(m) \subseteq Dealt => m \in Ordered)
    /\ at # "order" =>
         /\ \A m \in Dealt : phase[m] \in {"Ready", "Failed"}
         /\ \A m \in Registered : phase[m] # "Failed" => m \in Ordered

\* what shutdown has dealt with is down
StopSound ==
  at \in {"stop", "dtor"} =>
    /\ order = Reverse(records)
    /\ \A m \in Dealt : phase[m] \notin Live \cup {"PreInit"}

RegistryInv ==
  /\ RecordInv /\ TypeOK
  /\ PhaseTracked /\ RunningTracked /\ OneStarting
  /\ ReadyNeedsReady /\ ReadyFounded
  /\ OrderSound /\ StopSound

\* Erasing entry i of a sequence shifts the entries behind it.
LEMMA RemoveAtEntries ==
  ASSUME NEW S, NEW s \in Seq(S), NEW i \in DOMAIN s
  PROVE  /\ RemoveAt(s, i) \in Seq(S)
         /\ Len(RemoveAt(s, i)) = Len(s) - 1
         /\ \A j \in 1 .. (Len(s) - 1) :
              RemoveAt(s, i)[j] = IF j < i THEN s[j] ELSE s[j + 1]
<1>1. i \in 1 .. Len(s) /\ Len(s) \in Nat
  OBVIOUS
<1> DEFINE front == SubSeq(s, 1, i - 1)
           back == SubSeq(s, i + 1, Len(s))
<1>2. front \in Seq(S) /\ Len(front) = i - 1 /\ \A j \in 1 .. (i - 1) : front[j] = s[j]
  BY <1>1
<1>3. /\ back \in Seq(S) /\ Len(back) = Len(s) - i
      /\ \A j \in 1 .. (Len(s) - i) : back[j] = s[i + j]
  BY <1>1
<1>4. RemoveAt(s, i) = front \o back
  BY DEF RemoveAt
<1> HIDE DEF front, back
<1>5. QED
  BY <1>1, <1>2, <1>3, <1>4

\* A record that goes takes its module with it: no other entry holds it.
LEMMA RemovedModule ==
  ASSUME RecordInv, NEW i \in DOMAIN records, records' = RemoveAt(records, i)
  PROVE  /\ records' \in Seq(Module)
         /\ OneRecordPerName'
         /\ Registered' = Registered \ {records[i]}
<1>1. /\ records \in Seq(Module)
      /\ \A j, k \in 1 .. Len(records) :
           NameOf[records[j]] = NameOf[records[k]] => j = k
  BY DEF RecordInv, OneRecordPerName
<1>2. /\ records' \in Seq(Module)
      /\ Len(records') = Len(records) - 1
      /\ \A j \in 1 .. (Len(records) - 1) :
           records'[j] = IF j < i THEN records[j] ELSE records[j + 1]
  BY <1>1, RemoveAtEntries
<1>3. i \in 1 .. Len(records) /\ Len(records) \in Nat /\ i \in Nat
  BY <1>1
<1>4. DOMAIN records' = 1 .. (Len(records) - 1)
  BY <1>2, <1>3
<1>5. OneRecordPerName'
  <2> SUFFICES ASSUME NEW j \in 1 .. (Len(records) - 1), NEW k \in 1 .. (Len(records) - 1),
                      NameOf[records'[j]] = NameOf[records'[k]]
               PROVE  j = k
    BY <1>4 DEF OneRecordPerName
  <2>1. \A n \in 1 .. (Len(records) - 1) :
          \/ n < i /\ records'[n] = records[n] /\ n \in 1 .. Len(records)
          \/ n >= i /\ records'[n] = records[n + 1] /\ n + 1 \in 1 .. Len(records)
    BY <1>2, <1>3
  <2>2. QED
    BY <1>1, <1>3, <2>1
<1>6. Registered' = Registered \ {records[i]}
  <2>1. ASSUME NEW j \in DOMAIN records'
        PROVE  records'[j] \in Registered \ {records[i]}
    <3>1. \/ j < i /\ records'[j] = records[j] /\ j \in 1 .. Len(records)
          \/ j >= i /\ records'[j] = records[j + 1] /\ j + 1 \in 1 .. Len(records)
      BY <1>2, <1>3, <1>4
    <3>2. PICK k \in 1 .. Len(records) : records'[j] = records[k] /\ k # i
      BY <1>3, <1>4, <3>1
    <3>3. records[k] # records[i]
      BY <1>1, <1>3, <3>2
    <3>4. QED
      BY <1>1, <3>2, <3>3 DEF Registered
  <2>2. ASSUME NEW k \in DOMAIN records, k # i
        PROVE  \E j \in DOMAIN records' : records'[j] = records[k]
    <3>1. k \in 1 .. Len(records)
      BY <1>1
    <3>2. CASE k < i
      <4>1. k \in 1 .. (Len(records) - 1) /\ records'[k] = records[k]
        BY <1>2, <1>3, <3>1, <3>2
      <4>2. QED
        BY <1>4, <4>1
    <3>3. CASE k > i
      <4>1. k - 1 \in 1 .. (Len(records) - 1) /\ records'[k - 1] = records[k]
        BY <1>2, <1>3, <3>1, <3>3
      <4>2. QED
        BY <1>4, <4>1
    <3>4. QED
      BY <1>3, <2>2, <3>1, <3>2, <3>3
  <2>3. Registered' \subseteq Registered \ {records[i]}
    BY <2>1 DEF Registered
  <2>4. Registered \ {records[i]} \subseteq Registered'
    BY <2>2 DEF Registered
  <2>5. QED
    BY <2>3, <2>4
<1>7. QED
  BY <1>2, <1>5, <1>6

\* Steps that touch neither records nor ownership: the loops of start-up and
\* shutdown.
LEMMA LoopsKeepRecords ==
  ASSUME RecordInv, UNCHANGED <<records, given, destroyed>>
  PROVE  RecordInv'
BY DEF RecordInv, OneRecordPerName, OwnershipExact, Registered

LEMMA RegisterKeepsRecords ==
  ASSUME RecordInv, NEW m \in Module, NEW D, InsertRecord(m, D)
  PROVE  RecordInv'
<1>1. /\ records \in Seq(Module)
      /\ records' = Append(records, m)
      /\ given' = given \cup ({m} \cap Owned)
      /\ destroyed' = destroyed
      /\ m \notin given
  BY DEF RecordInv, InsertRecord, HandsOver
<1>2. /\ records' \in Seq(Module)
      /\ DOMAIN records = 1 .. Len(records)
      /\ DOMAIN records' = 1 .. (Len(records) + 1)
      /\ Len(records) \in Nat
      /\ records'[Len(records) + 1] = m
      /\ \A i \in 1 .. Len(records) : records'[i] = records[i]
  BY <1>1
<1>3. \A i \in 1 .. Len(records) : NameOf[records[i]] # NameOf[m]
  BY <1>2 DEF InsertRecord, Accepts, Present, Registered
<1>4. OneRecordPerName'
  <2>1. \A i, j \in 1 .. Len(records) :
          NameOf[records[i]] = NameOf[records[j]] => i = j
    BY <1>2 DEF RecordInv, OneRecordPerName
  <2>2. \A i \in 1 .. (Len(records) + 1) :
          \/ i \in 1 .. Len(records) /\ records'[i] = records[i]
          \/ i = Len(records) + 1 /\ records'[i] = m
    BY <1>2
  <2>3. QED
    BY <1>2, <1>3, <2>1, <2>2 DEF OneRecordPerName
<1>5. Registered' = Registered \cup {m}
  <2>1. Registered' \subseteq Registered \cup {m}
    BY <1>2 DEF Registered
  <2>2. Registered \cup {m} \subseteq Registered'
    <3>1. m \in Registered'
      BY <1>2 DEF Registered
    <3>2. ASSUME NEW i \in DOMAIN records
          PROVE  records[i] \in Registered'
      BY <1>2 DEF Registered
    <3>3. QED
      BY <3>1, <3>2 DEF Registered
  <2>3. QED
    BY <2>1, <2>2
<1>6. OwnershipExact'
  BY <1>1, <1>5 DEF RecordInv, OwnershipExact
<1>7. given' \subseteq Owned /\ Registered' \cap Owned \subseteq given'
  BY <1>1, <1>5 DEF RecordInv
<1>8. QED
  BY <1>2, <1>4, <1>6, <1>7 DEF RecordInv

LEMMA RefuseKeepsRecords ==
  ASSUME RecordInv, NEW m \in Module, RefuseRecord(m)
  PROVE  RecordInv'
<1>1. /\ given' = given \cup {m}
      /\ m \in Owned \ given
      /\ destroyed' = destroyed \cup {m}
      /\ records' = records
  BY DEF RefuseRecord, HandsOver
<1>2. m \notin Registered
  BY <1>1 DEF RecordInv
<1>3. Registered' = Registered /\ OneRecordPerName'
  BY <1>1 DEF RecordInv, Registered, OneRecordPerName
<1>4. QED
  BY <1>1, <1>2, <1>3 DEF RecordInv, OwnershipExact

\* Erasing the records of S destroys the instances owned among them.
LEMMA EraseKeepsOwnership ==
  ASSUME RecordInv, NEW S \in SUBSET Registered, Erase(S), UNCHANGED given,
         Registered' = Registered \ S
  PROVE  /\ given' \subseteq Owned
         /\ Registered' \cap Owned \subseteq given'
         /\ OwnershipExact'
<1>1. destroyed' = destroyed \cup (S \cap Owned)
  BY DEF Erase
<1>2. QED
  BY <1>1 DEF RecordInv, OwnershipExact

LEMMA NextKeepsRecords ==
  ASSUME RecordInv, [Next]_vars
  PROVE  RecordInv'
<1>1. CASE Register
  BY <1>1, RegisterKeepsRecords DEF Register
<1>2. CASE \E m \in Module : RefuseRecord(m)
  BY <1>2, RefuseKeepsRecords
<1>3. CASE \E i \in DOMAIN records : Unregister(i)
  <2>1. PICK i \in DOMAIN records : Unregister(i)
    BY <1>3
  <2>2. records' = RemoveAt(records, i) /\ Erase({records[i]}) /\ UNCHANGED given
    BY <2>1 DEF Unregister
  <2>3. /\ records' \in Seq(Module)
        /\ OneRecordPerName'
        /\ Registered' = Registered \ {records[i]}
    BY <2>2, RemovedModule
  <2>4. {records[i]} \in SUBSET Registered
    BY DEF Registered
  <2>5. QED
    BY <2>2, <2>3, <2>4, EraseKeepsOwnership DEF RecordInv
<1>4. CASE Destroy
  <2>1. records' = <<>> /\ Erase(Registered) /\ UNCHANGED given
    BY <1>4 DEF Destroy
  <2>2. records' \in Seq(Module) /\ OneRecordPerName' /\ Registered' = {}
    BY <2>1 DEF OneRecordPerName, Registered
  <2>3. QED
    BY <2>1, <2>2, EraseKeepsOwnership DEF RecordInv
<1>5. CASE StartupAll \/ OrderNext \/ OrderDone
  BY <1>5, LoopsKeepRecords DEF StartupAll, OrderNext, OrderDone, recordVars
<1>6. CASE PassReady \/ RefuseUnready \/ Begin
  BY <1>6, LoopsKeepRecords DEF PassReady, RefuseUnready, Begin, recordVars
<1>7. CASE PreInitOk \/ StartupOk \/ PostInitOk
  BY <1>7, LoopsKeepRecords DEF PreInitOk, StartupOk, PostInitOk, Advance
<1>8. CASE CallBackFails \/ CallBackThrows \/ StartupReturn
  BY <1>8, LoopsKeepRecords DEF CallBackFails, CallBackThrows, StartupReturn, recordVars
<1>9. CASE ShutdownAll \/ StopNext \/ ShutdownReturn
  BY <1>9, LoopsKeepRecords DEF ShutdownAll, StopNext, ShutdownReturn, recordVars
<1>10. CASE UNCHANGED vars
  BY <1>10, LoopsKeepRecords DEF vars
<1>11. QED
  BY <1>1, <1>2, <1>3, <1>4, <1>5, <1>6, <1>7, <1>8, <1>9, <1>10 DEF Next

\* The inductive invariant: records are a sequence of modules with distinct names,
\* what is registered and owned was given away, and ownership is exact.
THEOREM RegistryRecords == Spec => []RecordInv
<1>1. Init => RecordInv
  <2> SUFFICES ASSUME Init PROVE RecordInv
    OBVIOUS
  <2>1. records \in Seq(Module) /\ OneRecordPerName
    <3>1. records = <<>>
      BY DEF Init
    <3>2. <<>> \in Seq(Module) /\ DOMAIN <<>> = {}
      OBVIOUS
    <3>3. QED
      BY <3>1, <3>2 DEF OneRecordPerName
  <2>2. given = {} /\ destroyed = {} /\ Registered = {}
    <3>1. records = <<>> /\ given = {} /\ destroyed = {}
      BY DEF Init
    <3>2. DOMAIN <<>> = {}
      OBVIOUS
    <3>3. Registered = {}
      BY <3>1, <3>2 DEF Registered
    <3>4. QED
      BY <3>1, <3>3
  <2>3. QED
    BY <2>1, <2>2 DEF RecordInv, OwnershipExact
<1>2. RecordInv /\ [Next]_vars => RecordInv'
  BY NextKeepsRecords
<1>3. QED
  BY <1>1, <1>2, PTL DEF Spec

\* insert_record never lets two records share a name, so that find_record, on
\* which dependencies, phases and unregister depend, has one answer.
THEOREM RegistryOneRecordPerName == Spec => []OneRecordPerName
<1>1. RecordInv => OneRecordPerName
  BY DEF RecordInv
<1>2. QED
  BY <1>1, RegistryRecords, PTL

\* The registry destroys exactly the owned instances without a record: through
\* refusals, unregister and the destructor, none twice, none leaked, none raw.
THEOREM RegistryOwnershipExact == Spec => []OwnershipExact
<1>1. RecordInv => OwnershipExact
  BY DEF RecordInv
<1>2. QED
  BY <1>1, RegistryRecords, PTL

-----------------------------------------------------------------------------
(* Listing records in the order of their registration.  The induction over *)
(* the records goes by the least position at which a claim would fail.     *)

\* a set of naturals that is not empty has a least one
LEMMA LeastNatural ==
  ASSUME NEW T \in SUBSET Nat, T # {}
  PROVE  \E x \in T : \A y \in T : x <= y
<1>1. PICK x \in T : \A y \in T : <<y, x>> \notin OpToRel(<, Nat)
  BY NatLessThanWellFounded, WFMin
<1>2. ASSUME NEW y \in T, y < x
      PROVE  <<y, x>> \in OpToRel(<, Nat)
  <2>1. <<y, x>> \in Nat \X Nat /\ <<y, x>>[1] = y /\ <<y, x>>[2] = x
    OBVIOUS
  <2>2. QED
    BY <1>2, <2>1 DEF OpToRel
<1>3. \A y \in T : x \in Nat /\ y \in Nat /\ ~(y < x)
  BY <1>1, <1>2
<1>4. QED
  BY <1>3

ListingUpTo(S, g) ==
  [i \in 0 .. Len(records) |->
     IF i = 0 THEN <<>>
     ELSE IF records[i] \in S THEN Append(g[i - 1], records[i]) ELSE g[i - 1]]

LEMMA ListedByRecursion ==
  ASSUME NEW S
  PROVE  Listed(S) = (CHOOSE g : g = ListingUpTo(S, g))[Len(records)]
BY DEF Listed, ListingUpTo

\* g is the recursive function up to n
ListedNext(S, q, i) == IF records[i] \in S THEN Append(q, records[i]) ELSE q
ListsTo(S, g, n) ==
  /\ g \in [0 .. n -> Seq(Module)]
  /\ g[0] = <<>>
  /\ \A i \in 1 .. n : g[i] = ListedNext(S, g[i - 1], i)

LEMMA ListingExists ==
  ASSUME records \in Seq(Module), NEW S
  PROVE  \E g : ListsTo(S, g, Len(records))
<1> DEFINE N == Len(records)
           T == {n \in 0 .. N : ~ \E g : ListsTo(S, g, n)}
<1>1. N \in Nat /\ T \in SUBSET Nat
  OBVIOUS
<1>2. SUFFICES ASSUME T # {} PROVE FALSE
  BY <1>1
<1>3. PICK n \in T : \A m \in T : n <= m
  BY <1>1, <1>2, LeastNatural
<1>4. CASE n = 0
  <2> DEFINE g == [i \in 0 .. 0 |-> <<>>]
  <2>1. g \in [0 .. 0 -> Seq(Module)] /\ g[0] = <<>>
    OBVIOUS
  <2>2. ListsTo(S, g, 0)
    BY <2>1 DEF ListsTo
  <2>3. QED
    BY <1>3, <1>4, <2>2
<1>5. CASE n # 0
  <2>1. n - 1 \in 0 .. N /\ n - 1 \notin T /\ n \in 1 .. N
    BY <1>1, <1>3, <1>5
  <2>2. PICK g : ListsTo(S, g, n - 1)
    BY <2>1
  <2> DEFINE last == ListedNext(S, g[n - 1], n)
             h == [i \in 0 .. n |-> IF i = n THEN last ELSE g[i]]
  <2>3. last \in Seq(Module)
    <3>1. g[n - 1] \in Seq(Module) /\ records[n] \in Module
      BY <2>1, <2>2 DEF ListsTo
    <3>2. QED
      BY <3>1 DEF ListedNext
  <2>4. h \in [0 .. n -> Seq(Module)]
    BY <2>1, <2>2, <2>3 DEF ListsTo
  <2> HIDE DEF last
  <2>5. /\ h[n] = last /\ h[n - 1] = g[n - 1]
        /\ \A i \in 0 .. (n - 1) : h[i] = g[i]
        /\ \A i \in 1 .. (n - 1) : h[i - 1] = g[i - 1]
    BY <2>1
  <2> HIDE DEF h
  <2>6. h[0] = <<>> /\ \A i \in 1 .. n : h[i] = ListedNext(S, h[i - 1], i)
    <3>1. h[0] = <<>>
      <4>1. 0 \in 0 .. (n - 1)
        BY <1>1, <2>1
      <4>2. QED
        BY <2>2, <2>5, <4>1 DEF ListsTo
    <3>2. h[n] = ListedNext(S, h[n - 1], n)
      BY <2>5 DEF last
    <3>3. ASSUME NEW i \in 1 .. (n - 1)
          PROVE  h[i] = ListedNext(S, h[i - 1], i)
      <4>1. i \in 0 .. (n - 1) /\ h[i] = g[i] /\ h[i - 1] = g[i - 1]
        BY <1>1, <2>1, <2>5
      <4>2. QED
        BY <2>2, <4>1 DEF ListsTo
    <3>4. \A i \in 1 .. n : i = n \/ i \in 1 .. (n - 1)
      BY <2>1
    <3>5. QED
      BY <3>1, <3>2, <3>3, <3>4
  <2>7. ListsTo(S, h, n)
    BY <2>4, <2>6 DEF ListsTo
  <2>8. QED
    BY <1>3, <2>7
<1>6. QED
  BY <1>4, <1>5

LEMMA ListedIsListing ==
  ASSUME records \in Seq(Module), NEW S
  PROVE  \E g : ListsTo(S, g, Len(records)) /\ Listed(S) = g[Len(records)]
<1> DEFINE N == Len(records)
           f == CHOOSE g : g = ListingUpTo(S, g)
<1>1. N \in Nat
  OBVIOUS
<1>2. ASSUME NEW g, ListsTo(S, g, N)
      PROVE  g = ListingUpTo(S, g)
  <2>1. g = [i \in 0 .. N |-> g[i]]
    BY <1>2 DEF ListsTo
  <2>2. ASSUME NEW i \in 0 .. N
        PROVE  g[i] = IF i = 0 THEN <<>>
                      ELSE IF records[i] \in S THEN Append(g[i - 1], records[i]) ELSE g[i - 1]
    <3>1. CASE i = 0
      BY <1>2, <3>1 DEF ListsTo
    <3>2. CASE i # 0
      <4>1. i \in 1 .. N
        BY <1>1, <3>2
      <4>2. g[i] = ListedNext(S, g[i - 1], i)
        BY <1>2, <4>1 DEF ListsTo
      <4>3. QED
        BY <3>2, <4>2 DEF ListedNext
    <3>3. QED
      BY <3>1, <3>2
  <2>3. QED
    BY <2>1, <2>2 DEF ListingUpTo
<1>3. f = ListingUpTo(S, f)
  <2>1. \E g : g = ListingUpTo(S, g)
    BY <1>2, ListingExists
  <2>2. QED
    BY <2>1
<1>4. /\ f = [i \in 0 .. N |-> f[i]]
      /\ f[0] = <<>>
      /\ \A i \in 1 .. N : f[i] = ListedNext(S, f[i - 1], i)
  <2>1. f = [i \in 0 .. N |->
             IF i = 0 THEN <<>>
             ELSE IF records[i] \in S THEN Append(f[i - 1], records[i]) ELSE f[i - 1]]
    BY <1>3 DEF ListingUpTo
  <2> HIDE DEF f
  <2>2. f[0] = <<>>
    BY <1>1, <2>1
  <2>3. ASSUME NEW i \in 1 .. N
        PROVE  f[i] = IF records[i] \in S THEN Append(f[i - 1], records[i]) ELSE f[i - 1]
    <3>1. i \in 0 .. N /\ i # 0
      BY <1>1
    <3>2. QED
      BY <2>1, <3>1
  <2>4. DOMAIN f = 0 .. N /\ f = [i \in DOMAIN f |-> f[i]]
    BY <2>1
  <2>5. QED
    BY <2>2, <2>3, <2>4 DEF ListedNext
<1> HIDE DEF f
<1>5. \A i \in 0 .. N : f[i] \in Seq(Module)
  <2> DEFINE T == {i \in 0 .. N : f[i] \notin Seq(Module)}
  <2>1. SUFFICES ASSUME T # {} PROVE FALSE
    OBVIOUS
  <2>2. T \in SUBSET Nat
    BY <1>1
  <2>3. PICK n \in T : \A m \in T : n <= m
    BY <2>1, <2>2, LeastNatural
  <2>4. n # 0 /\ n - 1 \in 0 .. N /\ n \in 1 .. N
    <3>1. f[0] \in Seq(Module)
      BY <1>4
    <3>2. n \in 0 .. N /\ n # 0
      BY <2>3, <3>1
    <3>3. QED
      BY <1>1, <3>2
  <2>5. f[n - 1] \in Seq(Module)
    BY <2>3, <2>4
  <2>6. f[n] \in Seq(Module)
    <3>1. f[n] = ListedNext(S, f[n - 1], n)
      BY <1>4, <2>4
    <3>2. records[n] \in Module
      BY <2>4
    <3>3. QED
      BY <2>5, <3>1, <3>2 DEF ListedNext
  <2>7. QED
    BY <2>3, <2>6
<1>6. ListsTo(S, f, N)
  BY <1>4, <1>5 DEF ListsTo
<1>7. QED
  BY <1>6, ListedByRecursion DEF f

\* The listing of a set of registered modules has each of them once.
LEMMA ListedOnce ==
  ASSUME records \in Seq(Module), NEW S \in SUBSET Registered,
         \A i, j \in DOMAIN records : records[i] = records[j] => i = j
  PROVE  /\ Listed(S) \in Seq(Module)
         /\ \A i \in 1 .. Len(Listed(S)) : Listed(S)[i] \in S
         /\ \A m \in S : \E i \in 1 .. Len(Listed(S)) : Listed(S)[i] = m
         /\ \A i, j \in 1 .. Len(Listed(S)) : Listed(S)[i] = Listed(S)[j] => i = j
<1> DEFINE N == Len(records)
           Early(n) == {records[k] : k \in 1 .. n} \cap S
           Fine(q, n) == /\ q \in Seq(Module)
                         /\ \A i \in 1 .. Len(q) : q[i] \in Early(n)
                         /\ \A m \in Early(n) : \E i \in 1 .. Len(q) : q[i] = m
                         /\ \A i, j \in 1 .. Len(q) : q[i] = q[j] => i = j
<1>1. PICK g : ListsTo(S, g, N) /\ Listed(S) = g[N]
  BY ListedIsListing
<1>2. /\ N \in Nat /\ DOMAIN records = 1 .. N
      /\ \A i \in 1 .. N : records[i] \in Module
  OBVIOUS
<1>3. Fine(g[0], 0)
  <2>1. g[0] = <<>> /\ Early(0) = {}
    BY <1>1 DEF ListsTo
  <2>2. QED
    BY <2>1
<1>4. ASSUME NEW n \in 1 .. N, Fine(g[n - 1], n - 1)
      PROVE  Fine(g[n], n)
  <2>1. g[n] = ListedNext(S, g[n - 1], n)
    BY <1>1 DEF ListsTo
  <2>2. Early(n) = Early(n - 1) \cup ({records[n]} \cap S)
    BY <1>2
  <2>3. records[n] \notin Early(n - 1)
    BY <1>2
  <2> DEFINE q == g[n - 1]
  <2>4. CASE records[n] \notin S
    <3>1. g[n] = q /\ Early(n) = Early(n - 1)
      BY <2>1, <2>2, <2>4 DEF ListedNext
    <3> HIDE DEF Early
    <3>2. QED
      BY <1>4, <3>1
  <2>5. CASE records[n] \in S
    <3>1. g[n] = Append(q, records[n]) /\ Early(n) = Early(n - 1) \cup {records[n]}
      BY <2>1, <2>2, <2>5 DEF ListedNext
    <3> DEFINE r == g[n]
    <3>2. q \in Seq(Module) /\ records[n] \in Module
      BY <1>2, <1>4
    <3>3. /\ r \in Seq(Module) /\ Len(q) \in Nat /\ Len(r) = Len(q) + 1
          /\ \A i \in 1 .. Len(q) : r[i] = q[i]
          /\ r[Len(q) + 1] = records[n]
      BY <3>1, <3>2, AppendProperties
    <3>4. /\ \A i \in 1 .. Len(q) : q[i] \in Early(n - 1)
          /\ \A m \in Early(n - 1) : \E i \in 1 .. Len(q) : q[i] = m
          /\ \A i, j \in 1 .. Len(q) : q[i] = q[j] => i = j
      BY <1>4
    <3> HIDE DEF Early, q, r
    <3>5. \A i \in 1 .. Len(r) : i \in 1 .. Len(q) \/ i = Len(q) + 1
      BY <3>3
    <3>6. \A i \in 1 .. Len(r) : r[i] \in Early(n)
      BY <3>1, <3>3, <3>4, <3>5
    <3>7. \A m \in Early(n) : \E i \in 1 .. Len(r) : r[i] = m
      BY <3>1, <3>3, <3>4
    <3>8. \A i, j \in 1 .. Len(r) : r[i] = r[j] => i = j
      BY <2>3, <3>3, <3>4, <3>5
    <3>9. QED
      BY <3>3, <3>6, <3>7, <3>8 DEF r
  <2>6. QED
    BY <2>4, <2>5
<1> HIDE DEF Fine
<1>5. \A n \in 0 .. N : Fine(g[n], n)
  <2> DEFINE T == {n \in 0 .. N : ~Fine(g[n], n)}
  <2>1. SUFFICES ASSUME T # {} PROVE FALSE
    OBVIOUS
  <2>2. T \in SUBSET Nat
    BY <1>2
  <2>3. PICK n \in T : \A m \in T : n <= m
    BY <2>1, <2>2, LeastNatural
  <2>4. n # 0 /\ n - 1 \in 0 .. N /\ n \in 1 .. N
    BY <1>2, <1>3, <2>2, <2>3
  <2>5. Fine(g[n - 1], n - 1)
    BY <2>3, <2>4
  <2>6. QED
    BY <1>4, <2>3, <2>4, <2>5
<1>6. Fine(Listed(S), N)
  BY <1>1, <1>2, <1>5
<1>7. Early(N) = S
  BY <1>2 DEF Registered
<1>8. QED
  BY <1>6, <1>7 DEF Fine
-----------------------------------------------------------------------------
(* Frames *)

\* what every lemma below knows of the types
LEMMA RegistryTypes ==
  ASSUME RegistryInv
  PROVE  /\ records \in Seq(Module) /\ Len(records) \in Nat /\ DOMAIN records = 1 .. Len(records)
         /\ order \in Seq(Module) /\ Len(order) \in Nat
         /\ cursor \in Nat /\ cursor <= Len(order)
         /\ phase \in [Module -> Phase] /\ deps \in [Module -> SUBSET (Name \ {NoName})]
         /\ Registered \subseteq Module
         /\ \A i \in 1 .. Len(order) : order[i] \in Module
         /\ \A i, j \in DOMAIN records : records[i] = records[j] => i = j
         /\ \A a, b \in Registered : NameOf[a] = NameOf[b] => a = b
<1>1. records \in Seq(Module) /\ OneRecordPerName /\ TypeOK
  BY DEF RegistryInv, RecordInv
<1>2. Registered \subseteq Module
  BY <1>1 DEF Registered
<1>3. \A i, j \in DOMAIN records : records[i] = records[j] => i = j
  BY <1>1 DEF OneRecordPerName
<1>4. \A a, b \in Registered : NameOf[a] = NameOf[b] => a = b
  BY <1>1 DEF OneRecordPerName, Registered
<1>5. QED
  BY <1>1, <1>2, <1>3, <1>4 DEF TypeOK

LEMMA DepsFrame ==
  ASSUME UNCHANGED <<records, deps>>
  PROVE  /\ Registered' = Registered
         /\ \A m \in Module : DepsOf(m)' = DepsOf(m)
         /\ \A m \in Module : MissesDep(m)' <=> MissesDep(m)
BY DEF Registered, DepsOf, MissesDep, Present

\* the dependencies of a module are the modules DepsReady finds by name
LEMMA DepsReadyMeans ==
  ASSUME RegistryInv, NEW m \in Module
  PROVE  /\ DepsReady(m) => ~MissesDep(m) /\ \A d \in DepsOf(m) : phase[d] = "Ready"
         /\ ~MissesDep(m) /\ ~DepsReady(m) => \E d \in DepsOf(m) : phase[d] # "Ready"
<1>1. ASSUME DepsReady(m)
      PROVE  ~MissesDep(m) /\ \A d \in DepsOf(m) : phase[d] = "Ready"
  <2>1. ~MissesDep(m)
    BY <1>1 DEF DepsReady, MissesDep, Present
  <2>2. ASSUME NEW d \in DepsOf(m)
        PROVE  phase[d] = "Ready"
    <3>1. d \in Registered /\ NameOf[d] \in deps[m]
      BY DEF DepsOf
    <3>2. PICK r \in Registered : NameOf[r] = NameOf[d] /\ phase[r] = "Ready"
      BY <1>1, <3>1 DEF DepsReady
    <3>3. QED
      BY <3>1, <3>2, RegistryTypes
  <2>3. QED
    BY <2>1, <2>2
<1>2. ASSUME ~MissesDep(m), ~DepsReady(m)
      PROVE  \E d \in DepsOf(m) : phase[d] # "Ready"
  <2>1. PICK n \in deps[m] : \A d \in Registered : NameOf[d] = n => phase[d] # "Ready"
    BY <1>2 DEF DepsReady
  <2>2. PICK d \in Registered : NameOf[d] = n
    BY <1>2 DEF MissesDep, Present
  <2>3. QED
    BY <2>1, <2>2 DEF DepsOf
<1>3. QED
  BY <1>1, <1>2

\* the phase of m alone changes
PhaseMoves(m, to) ==
  /\ phase' \in [Module -> Phase]
  /\ phase'[m] = to
  /\ \A o \in Module : o # m => phase'[o] = phase[o]

\* Start-up and shutdown need nothing more of the lists than this, outside them.
LEMMA NotInLoop ==
  ASSUME at' \in {"idle", "gone"}
  PROVE  OneStarting' /\ OrderSound' /\ StopSound'
BY DEF OneStarting, OrderSound, StopSound, StartingUp

-----------------------------------------------------------------------------
(* Records come and go *)

LEMMA RegisterKeepsInv ==
  ASSUME RegistryInv, RecordInv', NEW m \in Module, NEW D \in SUBSET Name, InsertRecord(m, D)
  PROVE  RegistryInv'
<1>1. /\ at = "idle" /\ at' = "idle"
      /\ records' = Append(records, m)
      /\ phase' = [phase EXCEPT ![m] = "Registered"]
      /\ error' = [error EXCEPT ![m] = ""]
      /\ deps' = [deps EXCEPT ![m] = D \ {NoName}]
      /\ UNCHANGED <<order, cursor, running, destroyed>> /\ strays' = strays \ {m}
      /\ ~Present(NameOf[m])
  BY DEF InsertRecord, HandsOver, Accepts
<1>2. /\ m \notin Registered
      /\ Registered' = Registered \cup {m}
  <2>1. m \notin Registered
    BY <1>1 DEF Present
  <2>2. records \in Seq(Module) /\ records' = Append(records, m)
    BY <1>1, RegistryTypes
  <2>3. /\ DOMAIN records = 1 .. Len(records) /\ Len(records) \in Nat
        /\ DOMAIN records' = 1 .. (Len(records) + 1)
        /\ records'[Len(records) + 1] = m
        /\ \A i \in 1 .. Len(records) : records'[i] = records[i]
    BY <2>2
  <2>4. Registered' \subseteq Registered \cup {m}
    BY <2>3 DEF Registered
  <2>5. m \in Registered' /\ Registered \subseteq Registered'
    BY <2>3 DEF Registered
  <2>6. QED
    BY <2>1, <2>4, <2>5
<1>3. /\ phase'[m] = "Registered" /\ deps'[m] = D \ {NoName}
      /\ \A o \in Module : o # m => phase'[o] = phase[o] /\ deps'[o] = deps[o]
  BY <1>1, RegistryTypes
<1>4. TypeOK'
  BY <1>1, RegistryTypes DEF RegistryInv, RecordInv, TypeOK, Phase
<1>5. PhaseTracked' /\ RunningTracked'
  BY <1>1, <1>2, <1>3 DEF RegistryInv, PhaseTracked, RunningTracked, Live
<1>6. /\ ReadyOnes' = ReadyOnes
      /\ \A r \in ReadyOnes : /\ ~MissesDep(r) /\ ~MissesDep(r)'
                              /\ DepsOf(r)' = DepsOf(r)
                              /\ \A d \in DepsOf(r) : phase'[d] = "Ready"
  <2>1. ReadyOnes' = ReadyOnes
    BY <1>2, <1>3, RegistryTypes DEF ReadyOnes
  <2>2. ASSUME NEW r \in ReadyOnes
        PROVE  /\ ~MissesDep(r) /\ ~MissesDep(r)'
               /\ DepsOf(r)' = DepsOf(r)
               /\ \A d \in DepsOf(r) : phase'[d] = "Ready"
    <3>1. /\ r \in Module /\ r # m /\ deps'[r] = deps[r]
          /\ ~MissesDep(r) /\ \A d \in DepsOf(r) : phase[d] = "Ready"
      BY <1>1, <1>2, <1>3, RegistryTypes DEF RegistryInv, ReadyNeedsReady, ReadyOnes
    <3>2. NameOf[m] \notin deps[r]
      BY <1>1, <3>1 DEF MissesDep
    <3>3. DepsOf(r)' = DepsOf(r)
      BY <1>2, <3>1, <3>2 DEF DepsOf
    <3>4. ~MissesDep(r)'
      BY <1>2, <3>1 DEF MissesDep, Present
    <3>5. \A d \in DepsOf(r) : d \in Module /\ d # m
      BY <1>2, RegistryTypes DEF DepsOf
    <3>6. QED
      BY <1>3, <3>1, <3>3, <3>4, <3>5
  <2>3. QED
    BY <2>1, <2>2
<1>7. ReadyNeedsReady'
  BY <1>6 DEF ReadyNeedsReady, ReadyOnes
<1>8. ReadyFounded'
  BY <1>1, <1>6 DEF RegistryInv, ReadyFounded
<1>9. OneStarting' /\ OrderSound' /\ StopSound'
  BY <1>1, NotInLoop
<1>10. QED
  BY <1>4, <1>5, <1>7, <1>8, <1>9 DEF RegistryInv

LEMMA RefuseKeepsInv ==
  ASSUME RegistryInv, RecordInv', NEW m \in Module, RefuseRecord(m)
  PROVE  RegistryInv'
<1>1. /\ at = "idle" /\ at' = "idle"
      /\ UNCHANGED <<records, phase, error, deps, order, cursor, running, strays>>
      /\ destroyed' = destroyed \cup {m} /\ m \in Owned
  BY DEF RefuseRecord, HandsOver
<1>2. TypeOK'
  BY <1>1, RegistryTypes DEF RegistryInv, RecordInv, TypeOK
<1>3. /\ Registered' = Registered
      /\ \A o \in Module : DepsOf(o)' = DepsOf(o)
      /\ \A o \in Module : MissesDep(o)' <=> MissesDep(o)
  BY <1>1, DepsFrame
<1>4. PhaseTracked' /\ RunningTracked'
  BY <1>1, <1>3 DEF RegistryInv, PhaseTracked, RunningTracked
<1>5. ReadyNeedsReady' /\ ReadyFounded'
  <2>1. ReadyOnes' = ReadyOnes /\ ReadyOnes \subseteq Module
    BY <1>1, <1>3, RegistryTypes DEF ReadyOnes
  <2>2. ReadyFounded'
    BY <1>1, <1>3, <2>1 DEF RegistryInv, ReadyFounded
  <2>3. ReadyNeedsReady'
    BY <1>1, <1>3, RegistryTypes DEF RegistryInv, ReadyNeedsReady
  <2>4. QED
    BY <2>2, <2>3
<1>6. OneStarting' /\ OrderSound' /\ StopSound'
  BY <1>1, NotInLoop
<1>7. QED
  BY <1>2, <1>4, <1>5, <1>6 DEF RegistryInv

\* a careful client unregisters no module another depends on
LEMMA UnregisterKeepsInv ==
  ASSUME Careful, RegistryInv, RecordInv', NEW i \in DOMAIN records, Unregister(i)
  PROVE  RegistryInv'
<1> DEFINE m == records[i]
<1>1. /\ at = "idle" /\ at' = "idle" /\ UNCHANGED <<order, cursor, given>>
      /\ records' = RemoveAt(records, i)
      /\ \A d \in Registered \ {m} : NameOf[m] \notin deps[d]
      /\ ShutDown({r \in {m} : phase[r] \in Live \cup {"PreInit"}})
      /\ Erase({m})
  BY DEF Unregister
<1>2. /\ m \in Module /\ m \in Registered
      /\ Registered' = Registered \ {m}
      /\ Registered \subseteq Module
  BY <1>1, RegistryTypes, RemovedModule DEF RegistryInv, Registered
<1> HIDE DEF m
<1>3. /\ phase' \in [Module -> Phase] /\ DOMAIN error' = Module
      /\ deps' \in [Module -> SUBSET (Name \ {NoName})]
      /\ destroyed' = destroyed \cup ({m} \cap Owned)
      /\ phase'[m] = "Unregistered"
      /\ \A o \in Module : o # m => phase'[o] = phase[o] /\ deps'[o] = deps[o]
  <2>1. phase \in [Module -> Phase] /\ deps \in [Module -> SUBSET (Name \ {NoName})]
    BY RegistryTypes
  <2>2. /\ phase' = [o \in Module |-> IF o \in {m} THEN "Unregistered" ELSE phase[o]]
        /\ deps' = [o \in Module |-> IF o \in {m} THEN {} ELSE deps[o]]
        /\ DOMAIN error' = Module
        /\ destroyed' = destroyed \cup ({m} \cap Owned)
    BY <1>1 DEF Erase
  <2>3. /\ phase'[m] = "Unregistered"
        /\ \A o \in Module : o # m => phase'[o] = phase[o] /\ deps'[o] = deps[o]
    BY <1>2, <2>2
  <2>4. phase' \in [Module -> Phase] /\ deps' \in [Module -> SUBSET (Name \ {NoName})]
    BY <2>1, <2>2 DEF Phase
  <2>5. QED
    BY <2>2, <2>3, <2>4
<1>4. TypeOK'
  <2>1. running' \subseteq Module /\ strays' \subseteq Module
    BY <1>1, <1>2 DEF RegistryInv, TypeOK, ShutDown
  <2>2. QED
    BY <1>1, <1>3, <2>1, RegistryTypes DEF RegistryInv, RecordInv, TypeOK
<1>5. PhaseTracked'
  BY <1>2, <1>3 DEF RegistryInv, PhaseTracked
<1>6. RunningTracked'
  BY <1>1, <1>2, <1>3 DEF RegistryInv, RunningTracked, Live, ShutDown
<1>7. ASSUME NEW r \in Registered'
      PROVE  /\ r \in Registered /\ phase'[r] = phase[r]
             /\ DepsOf(r)' = DepsOf(r)
             /\ ~MissesDep(r) => ~MissesDep(r)'
  <2>1. r \in Registered /\ r \in Module /\ r # m /\ NameOf[m] \notin deps[r] /\ deps'[r] = deps[r]
    BY <1>1, <1>2, <1>3
  <2>2. DepsOf(r)' = DepsOf(r)
    BY <1>2, <2>1 DEF DepsOf
  <2>3. ~MissesDep(r) => ~MissesDep(r)'
    BY <1>2, <2>1 DEF MissesDep, Present
  <2>4. QED
    BY <1>3, <2>1, <2>2, <2>3
<1>8. ReadyNeedsReady'
  <2>1. ASSUME NEW r \in Registered', phase'[r] = "Ready"
        PROVE  ~MissesDep(r)' /\ \A d \in DepsOf(r)' : phase'[d] = "Ready"
    <3>1. ~MissesDep(r) /\ \A d \in DepsOf(r) : phase[d] = "Ready"
      BY <1>1, <1>7, <2>1 DEF RegistryInv, ReadyNeedsReady
    <3>2. \A d \in DepsOf(r) : d \in Module /\ d # m
      BY <1>1, <1>2 DEF DepsOf
    <3>3. QED
      BY <1>3, <1>7, <3>1, <3>2
  <2>2. QED
    BY <2>1 DEF ReadyNeedsReady
<1>9. ReadyFounded'
  <2>1. ReadyOnes' \subseteq ReadyOnes /\ ReadyOnes' \subseteq Registered'
    BY <1>7 DEF ReadyOnes
  <2>2. \A S \in SUBSET ReadyOnes : S # {} => \E r \in S : DepsOf(r) \cap S = {}
    BY <1>1 DEF RegistryInv, ReadyFounded
  <2>3. ASSUME NEW S \in SUBSET ReadyOnes', S # {}
        PROVE  \E r \in S : DepsOf(r)' \cap S = {}
    <3>1. PICK r \in S : DepsOf(r) \cap S = {}
      BY <2>1, <2>2, <2>3
    <3>2. QED
      BY <1>7, <2>1, <3>1
  <2>4. QED
    BY <2>3 DEF ReadyFounded
<1>10. OneStarting' /\ OrderSound' /\ StopSound'
  BY <1>1, NotInLoop
<1>11. QED
  BY <1>4, <1>5, <1>6, <1>8, <1>9, <1>10 DEF RegistryInv

\* shutdown, when it has dealt with every record, has stopped every module
LEMMA AllDown ==
  ASSUME RegistryInv, at \in {"stop", "dtor"}, cursor = Len(order)
  PROVE  \A m \in Registered : m \notin running /\ phase[m] \notin Live \cup {"PreInit"}
<1>1. /\ order = Reverse(records)
      /\ \A m \in Dealt : phase[m] \notin Live \cup {"PreInit"}
  BY DEF RegistryInv, StopSound
<1>2. Registered \subseteq Dealt
  <2>1. SUFFICES ASSUME NEW i \in 1 .. Len(records)
                 PROVE  \E j \in 1 .. cursor : order[j] = records[i]
    BY RegistryTypes DEF Registered, Dealt
  <2>2. /\ Len(records) \in Nat
        /\ order = [k \in 1 .. Len(records) |-> records[(Len(records) - k) + 1]]
    BY <1>1, RegistryTypes DEF Reverse
  <2>3. Len(order) = Len(records)
    BY <2>2, RegistryTypes
  <2> DEFINE j == (Len(records) - i) + 1
  <2>4. j \in 1 .. Len(records) /\ (Len(records) - j) + 1 = i
    BY <2>2
  <2>5. order[j] = records[i]
    BY <2>2, <2>4
  <2>6. QED
    BY <2>3, <2>4, <2>5
<1>3. \A m \in Registered : phase[m] \notin Live \cup {"PreInit"} /\ m \in Module
  BY <1>1, <1>2, RegistryTypes
<1>4. QED
  BY <1>3 DEF RegistryInv, RunningTracked

LEMMA DestroyKeepsInv ==
  ASSUME RegistryInv, RecordInv', Destroy
  PROVE  RegistryInv'
<1>1. /\ at' = "gone" /\ order' = <<>> /\ cursor' = 0 /\ records' = <<>>
      /\ UNCHANGED <<running, strays, given>> /\ Erase(Registered)
  BY DEF Destroy, Loop
<1>2. /\ phase' \in [Module -> Phase] /\ DOMAIN error' = Module
      /\ deps' \in [Module -> SUBSET (Name \ {NoName})]
      /\ destroyed' = destroyed \cup (Registered \cap Owned)
      /\ \A o \in Module : phase'[o] = IF o \in Registered THEN "Unregistered" ELSE phase[o]
  BY <1>1, RegistryTypes DEF Erase, Phase
<1>3. Registered' = {} /\ ReadyOnes' = {}
  <2>1. DOMAIN <<>> = {}
    OBVIOUS
  <2>2. QED
    BY <1>1, <2>1 DEF Registered, ReadyOnes
<1>4. TypeOK'
  BY <1>1, <1>2, RegistryTypes DEF RegistryInv, RecordInv, TypeOK
<1>5. PhaseTracked'
  BY <1>2, <1>3 DEF RegistryInv, PhaseTracked
<1>6. RunningTracked'
  BY <1>1, <1>3, AllDown DEF RegistryInv, RunningTracked, Destroy
<1>7. ReadyNeedsReady' /\ ReadyFounded'
  BY <1>3 DEF ReadyNeedsReady, ReadyFounded
<1>8. OneStarting' /\ OrderSound' /\ StopSound'
  BY <1>1, NotInLoop
<1>9. QED
  BY <1>4, <1>5, <1>6, <1>7, <1>8 DEF RegistryInv

-----------------------------------------------------------------------------
(* compute_order *)

\* the parts that a step of start-up over the same records can disturb
LEMMA ReadyKept ==
  ASSUME RegistryInv, at \notin {"stop", "dtor"}, UNCHANGED <<records, deps>>, ReadyOnes' = ReadyOnes
  PROVE  ReadyNeedsReady' /\ ReadyFounded'
<1>1. /\ Registered' = Registered /\ Registered \subseteq Module
      /\ \A m \in Module : DepsOf(m)' = DepsOf(m)
      /\ \A m \in Module : MissesDep(m)' <=> MissesDep(m)
  BY DepsFrame, RegistryTypes
<1>2. \A m \in ReadyOnes : ~MissesDep(m) /\ DepsOf(m) \subseteq ReadyOnes
  BY DEF RegistryInv, ReadyNeedsReady, ReadyOnes, DepsOf
<1>3. \A m \in ReadyOnes : m \in Module /\ ~MissesDep(m)' /\ DepsOf(m)' \subseteq ReadyOnes'
  BY <1>1, <1>2 DEF ReadyOnes
<1>4. ReadyNeedsReady'
  BY <1>3 DEF ReadyNeedsReady, ReadyOnes
<1>5. \A S \in SUBSET ReadyOnes : S # {} => \E m \in S : DepsOf(m) \cap S = {}
  BY DEF RegistryInv, ReadyFounded
<1>6. ASSUME NEW S \in SUBSET ReadyOnes', S # {}
      PROVE  \E m \in S : DepsOf(m)' \cap S = {}
  <2>1. PICK m \in S : DepsOf(m) \cap S = {}
    BY <1>5, <1>6
  <2>2. m \in Module
    BY <1>3
  <2>3. QED
    BY <1>1, <2>1, <2>2
<1>7. ReadyFounded'
  BY <1>6 DEF ReadyFounded
<1>8. QED
  BY <1>4, <1>7

\* Fail gives up modules that are not running; the others keep their phase.
LEMMA FailKeeps ==
  ASSUME RegistryInv, at \notin {"stop", "dtor"}, NEW S \in SUBSET Registered, NEW why,
         Fail(S, why), UNCHANGED <<records, deps, running>>,
         \A m \in S : phase[m] \notin Live
  PROVE  /\ phase' \in [Module -> Phase] /\ DOMAIN error' = Module
         /\ \A m \in S : phase'[m] = "Failed"
         /\ \A m \in Module \ S : phase'[m] = phase[m]
         /\ PhaseTracked' /\ RunningTracked'
         /\ ReadyNeedsReady' /\ ReadyFounded'
<1>1. phase' = [m \in Module |-> IF m \in S THEN "Failed" ELSE phase[m]]
  BY DEF Fail
<1>2. phase \in [Module -> Phase] /\ Registered \subseteq Module
  BY RegistryTypes
<1>3. /\ phase' \in [Module -> Phase] /\ DOMAIN error' = Module
      /\ \A m \in S : phase'[m] = "Failed"
      /\ \A m \in Module \ S : phase'[m] = phase[m]
  BY <1>1, <1>2 DEF Fail, Phase
<1>4. Registered' = Registered
  BY DepsFrame
<1>5. PhaseTracked'
  BY <1>2, <1>3, <1>4 DEF RegistryInv, PhaseTracked
<1>6. RunningTracked'
  BY <1>2, <1>3, <1>4 DEF RegistryInv, RunningTracked, Live
<1>7. ReadyOnes' = ReadyOnes
  BY <1>2, <1>3, <1>4 DEF ReadyOnes, Live
<1>8. QED
  BY <1>3, <1>5, <1>6, <1>7, ReadyKept

\* what the order must be after a step, said of the modules in it
LEMMA OrderSoundNext ==
  ASSUME order' \in Seq(Module),
         \A i, j \in 1 .. Len(order') : order'[i] = order'[j] => i = j,
         \A m \in Module : \A i \in 1 .. Len(order') : order'[i] = m =>
           /\ m \in Registered' /\ ~MissesDep(m)'
           /\ \A d \in DepsOf(m)' :
                \E j \in 1 .. (i - 1) : order'[j] = d /\ (at' = "order" => j <= cursor')
           /\ at' = "order" \/ i > cursor' => phase'[m] # "Failed",
         at' = "order" =>
           \A m \in Registered' : phase'[m] # "Failed" =>
             ~MissesDep(m)' /\ (DepsOf(m)' \subseteq Dealt' => m \in Ordered'),
         StartingUp' /\ at' # "order" =>
           /\ \A m \in Dealt' : phase'[m] \in {"Ready", "Failed"}
           /\ \A m \in Registered' : phase'[m] # "Failed" => m \in Ordered'
  PROVE  OrderSound'
<1>1. ASSUME NEW i \in 1 .. Len(order')
      PROVE  /\ order'[i] \in Registered' /\ ~MissesDep(order[i])'
             /\ \A d \in DepsOf(order[i])' :
                  \E j \in 1 .. (i - 1) : order'[j] = d /\ (at' = "order" => j <= cursor')
             /\ at' = "order" \/ i > cursor' => phase'[order'[i]] # "Failed"
  <2>1. PICK m \in Module : m = order'[i]
    OBVIOUS
  <2>2. MissesDep(order[i])' <=> MissesDep(m)'
    BY <2>1 DEF MissesDep
  <2>3. DepsOf(order[i])' = DepsOf(m)'
    BY <2>1 DEF DepsOf
  <2>4. QED
    BY <2>1, <2>2, <2>3
<1>2. QED
  BY <1>1 DEF OrderSound

\* modules on their way up are none of those shutdown has to deal with
LEMMA CarefulStartup ==
  ASSUME Careful, RegistryInv, RecordInv', StartupAll
  PROVE  RegistryInv'
<1> DEFINE missing == {m \in Registered : MissesDep(m)}
           first == {m \in Registered : DepsOf(m) = {} /\ ~MissesDep(m) /\ phase[m] # "Failed"}
<1>1. /\ at = "idle" /\ at' = "order" /\ order' = Listed(first) /\ cursor' = 0
      /\ \A m \in Module : phase[m] \notin Starting
      /\ Fail(missing, "missing dependency")
      /\ UNCHANGED <<records, deps, running, strays, given, destroyed>>
  BY DEF StartupAll, Loop, Starting
<1>2. \A m \in missing : phase[m] \notin Live
  BY <1>1, RegistryTypes DEF RegistryInv, ReadyNeedsReady, Live, Starting
<1>3. /\ phase' \in [Module -> Phase] /\ DOMAIN error' = Module
      /\ \A m \in missing : phase'[m] = "Failed"
      /\ \A m \in Module \ missing : phase'[m] = phase[m]
      /\ PhaseTracked' /\ RunningTracked' /\ ReadyNeedsReady' /\ ReadyFounded'
  BY <1>1, <1>2, FailKeeps
<1>4. /\ order' \in Seq(Module)
      /\ \A i \in 1 .. Len(order') : order'[i] \in first
      /\ \A m \in first : \E i \in 1 .. Len(order') : order'[i] = m
      /\ \A i, j \in 1 .. Len(order') : order'[i] = order'[j] => i = j
  <2>1. first \in SUBSET Registered
    OBVIOUS
  <2>2. /\ records \in Seq(Module)
        /\ \A i, j \in DOMAIN records : records[i] = records[j] => i = j
    BY RegistryTypes
  <2>3. order' = Listed(first)
    BY <1>1
  <2> HIDE DEF first
  <2>4. QED
    BY <2>1, <2>2, <2>3, ListedOnce
<1>5. /\ Registered' = Registered /\ Registered \subseteq Module
      /\ \A m \in Module : DepsOf(m)' = DepsOf(m)
      /\ \A m \in Module : MissesDep(m)' <=> MissesDep(m)
  BY <1>1, DepsFrame, RegistryTypes
<1>6. TypeOK'
  <2> HIDE DEF first, missing
  <2>1. cursor' \in 0 .. Len(order')
    <3>1. cursor' = 0 /\ order' \in Seq(Module)
      BY <1>1, <1>4
    <3>2. QED
      BY <3>1
  <2>2. QED
    BY <1>1, <1>3, <1>4, <2>1 DEF RegistryInv, TypeOK
<1>7. OneStarting'
  BY <1>1, <1>3, <1>5 DEF OneStarting, Starting
<1>8. Dealt' = {} /\ Ordered' = first
  <2>1. Dealt' = {}
    <3> HIDE DEF first, missing
    <3>1. cursor' = 0
      BY <1>1
    <3>2. 1 .. cursor' = {}
      BY <3>1
    <3>3. QED
      BY <3>2 DEF Dealt
  <2>2. Ordered' \subseteq first /\ first \subseteq Ordered'
    <3> HIDE DEF first
    <3>1. QED
      BY <1>4 DEF Ordered
  <2>3. QED
    BY <2>1, <2>2
<1>9. \A m \in first : /\ m \in Registered' /\ DepsOf(m)' = {} /\ ~MissesDep(m)'
                       /\ phase'[m] # "Failed"
  BY <1>3, <1>5
<1>10. \A m \in Registered' : phase'[m] # "Failed" =>
         ~MissesDep(m)' /\ (DepsOf(m)' \subseteq Dealt' => m \in Ordered')
  BY <1>3, <1>5, <1>8
<1> HIDE DEF first, missing
<1>11. OrderSound'
  <2>1. \A m \in Module : \A i \in 1 .. Len(order') : order'[i] = m =>
          /\ m \in Registered' /\ ~MissesDep(m)'
          /\ DepsOf(m)' = {}
          /\ phase'[m] # "Failed"
    BY <1>4, <1>9
  <2>2. at' = "order"
    BY <1>1
  <2>3. QED
    BY <1>4, <1>10, <2>1, <2>2, OrderSoundNext
<1>12. StopSound'
  BY <1>1 DEF StopSound
<1>13. QED
  BY <1>3, <1>6, <1>7, <1>11, <1>12 DEF RegistryInv

\* A module is listed when the last of its dependencies has been dealt with, behind
\* all of them and once.
LEMMA OrderNextKeepsInv ==
  ASSUME RegistryInv, RecordInv', OrderNext
  PROVE  RegistryInv'
<1> DEFINE e == order[cursor + 1]
           freed == {m \in Registered :
                       /\ e \in DepsOf(m)
                       /\ DepsOf(m) \subseteq {order[i] : i \in 1 .. (cursor + 1)}
                       /\ phase[m] # "Failed"}
           N == Len(order)
<1>1. /\ at = "order" /\ at' = "order" /\ cursor < N /\ cursor' = cursor + 1
      /\ order' = order \o Listed(freed)
      /\ UNCHANGED <<records, phase, error, deps, running, strays, given, destroyed>>
  BY DEF OrderNext, recordVars
<1>2. /\ Registered' = Registered /\ Registered \subseteq Module
      /\ \A m \in Module : DepsOf(m)' = DepsOf(m)
      /\ \A m \in Module : MissesDep(m)' <=> MissesDep(m)
  BY <1>1, DepsFrame, RegistryTypes
<1>3. /\ \A i, j \in 1 .. N : order[i] = order[j] => i = j
      /\ \A i \in 1 .. N :
           /\ order[i] \in Registered /\ ~MissesDep(order[i])
           /\ \A d \in DepsOf(order[i]) : \E j \in 1 .. (i - 1) : order[j] = d /\ j <= cursor
           /\ phase[order[i]] # "Failed"
      /\ \A m \in Registered : phase[m] # "Failed" =>
           ~MissesDep(m) /\ (DepsOf(m) \subseteq Dealt => m \in Ordered)
  BY <1>1 DEF RegistryInv, OrderSound, StartingUp
<1>4. /\ N \in Nat /\ cursor \in Nat /\ cursor + 1 \in 1 .. N
      /\ order \in Seq(Module) /\ records \in Seq(Module)
      /\ \A i, j \in DOMAIN records : records[i] = records[j] => i = j
  BY <1>1, RegistryTypes
<1> DEFINE L == Listed(freed)
<1>5. /\ L \in Seq(Module)
      /\ \A i \in 1 .. Len(L) : L[i] \in freed
      /\ \A m \in freed : \E i \in 1 .. Len(L) : L[i] = m
      /\ \A i, j \in 1 .. Len(L) : L[i] = L[j] => i = j
  <2>1. freed \in SUBSET Registered
    OBVIOUS
  <2> HIDE DEF freed
  <2>2. QED
    BY <1>4, <2>1, ListedOnce
<1>6. \A m \in freed :
        /\ m \in Registered /\ phase[m] # "Failed" /\ e \in DepsOf(m)
        /\ \A d \in DepsOf(m) : \E j \in 1 .. (cursor + 1) : order[j] = d
  OBVIOUS
<1>7. \A m \in Registered : phase[m] # "Failed" /\ e \in DepsOf(m)
        /\ DepsOf(m) \subseteq {order[i] : i \in 1 .. (cursor + 1)} => m \in freed
  OBVIOUS
<1> HIDE DEF L, freed, N
<1>8. /\ order' \in Seq(Module) /\ Len(L) \in Nat /\ Len(order') = N + Len(L)
      /\ \A i \in 1 .. N : order'[i] = order[i]
      /\ \A i \in (N + 1) .. Len(order') : i - N \in 1 .. Len(L) /\ order'[i] = L[i - N]
      /\ \A k \in 1 .. Len(L) : N + k \in 1 .. Len(order') /\ order'[N + k] = L[k]
  <2>1. order' = order \o L
    BY <1>1 DEF L
  <2>2. QED
    BY <1>4, <1>5, <2>1, ConcatProperties DEF N
<1>9. \A i \in 1 .. Len(order') : i \in 1 .. N \/ i \in (N + 1) .. Len(order')
  BY <1>4, <1>8
<1>10. Ordered \subseteq Ordered' /\ freed \subseteq Ordered'
  <2>1. Ordered \subseteq Ordered'
    BY <1>4, <1>8 DEF Ordered, N
  <2>2. freed \subseteq Ordered'
    BY <1>5, <1>8 DEF Ordered
  <2>3. QED
    BY <2>1, <2>2
<1>11. Dealt' = {order[i] : i \in 1 .. (cursor + 1)} /\ Dealt' = Dealt \cup {e}
  <2>1. /\ cursor' = cursor + 1
        /\ \A i \in 1 .. (cursor + 1) : i \in 1 .. N /\ order'[i] = order[i]
    BY <1>1, <1>4, <1>8
  <2>2. Dealt' = {order[i] : i \in 1 .. (cursor + 1)}
    BY <2>1 DEF Dealt
  <2>3. \A i \in 1 .. (cursor + 1) : i \in 1 .. cursor \/ i = cursor + 1
    BY <1>4
  <2>4. {order[i] : i \in 1 .. (cursor + 1)} = Dealt \cup {e}
    BY <1>4, <2>3 DEF Dealt, e
  <2>5. QED
    BY <2>2, <2>4
<1>12. \A m \in freed : \A i \in 1 .. N : order[i] # m
  <2> SUFFICES ASSUME NEW m \in freed, NEW i \in 1 .. N, order[i] = m
               PROVE  FALSE
    OBVIOUS
  <2>1. PICK j \in 1 .. (i - 1) : order[j] = e /\ j <= cursor
    BY <1>3, <1>6
  <2>2. j \in 1 .. N /\ j # cursor + 1
    BY <1>4, <2>1
  <2>3. QED
    BY <1>3, <1>4, <2>1, <2>2
<1>13. \A i, j \in 1 .. Len(order') : order'[i] = order'[j] => i = j
  <2> SUFFICES ASSUME NEW i \in 1 .. Len(order'), NEW j \in 1 .. Len(order'),
                      order'[i] = order'[j]
               PROVE  i = j
    OBVIOUS
  <2>1. CASE i \in 1 .. N /\ j \in 1 .. N
    BY <1>3, <1>8, <2>1
  <2>2. CASE i \in (N + 1) .. Len(order') /\ j \in (N + 1) .. Len(order')
    <3>1. i - N = j - N
      BY <1>5, <1>8, <2>2
    <3>2. QED
      BY <1>4, <1>8, <3>1
  <2>3. CASE i \in 1 .. N /\ j \in (N + 1) .. Len(order')
    <3>1. order'[i] = order[i] /\ order'[j] \in freed
      BY <1>5, <1>8, <2>3
    <3>2. QED
      BY <1>12, <2>3, <3>1
  <2>4. CASE i \in (N + 1) .. Len(order') /\ j \in 1 .. N
    <3>1. order'[j] = order[j] /\ order'[i] \in freed
      BY <1>5, <1>8, <2>4
    <3>2. QED
      BY <1>12, <2>4, <3>1
  <2>5. QED
    BY <1>9, <2>1, <2>2, <2>3, <2>4
<1>14. ASSUME NEW i \in 1 .. Len(order')
       PROVE  /\ order'[i] \in Registered /\ ~MissesDep(order'[i])
              /\ \A d \in DepsOf(order'[i]) :
                   \E j \in 1 .. (i - 1) : order'[j] = d /\ j <= cursor'
              /\ phase[order'[i]] # "Failed"
  <2>1. CASE i \in 1 .. N
    <3>1. order'[i] = order[i] /\ \A j \in 1 .. (i - 1) : j \in 1 .. N /\ order'[j] = order[j]
      BY <1>4, <1>8, <2>1
    <3>2. \A j \in 1 .. (i - 1) : j <= cursor => j <= cursor'
      BY <1>1, <1>4
    <3>3. QED
      BY <1>3, <2>1, <3>1, <3>2
  <2>2. CASE i \in (N + 1) .. Len(order')
    <3>1. order'[i] \in freed
      BY <1>5, <1>8, <2>2
    <3>2. \A j \in 1 .. (cursor + 1) :
            j \in 1 .. (i - 1) /\ j <= cursor' /\ order'[j] = order[j]
      BY <1>1, <1>4, <1>8, <2>2
    <3>3. ~MissesDep(order'[i])
      BY <1>3, <1>6, <3>1
    <3>4. QED
      BY <1>6, <3>1, <3>2, <3>3
  <2>3. QED
    BY <1>9, <2>1, <2>2
<1>15. ASSUME NEW m \in Registered, phase[m] # "Failed"
       PROVE  ~MissesDep(m) /\ (DepsOf(m) \subseteq Dealt' => m \in Ordered')
  <2>1. CASE e \in DepsOf(m)
    BY <1>3, <1>7, <1>10, <1>11, <1>15, <2>1
  <2>2. CASE e \notin DepsOf(m)
    BY <1>3, <1>10, <1>11, <1>15, <2>2
  <2>3. QED
    BY <2>1, <2>2
<1>16. OrderSound'
  <2>1. ASSUME NEW m \in Module, NEW i \in 1 .. Len(order'), order'[i] = m
        PROVE  /\ m \in Registered' /\ ~MissesDep(m)'
               /\ \A d \in DepsOf(m)' :
                    \E j \in 1 .. (i - 1) : order'[j] = d /\ j <= cursor'
               /\ phase'[m] # "Failed"
    <3>1. /\ m \in Registered /\ ~MissesDep(m) /\ phase[m] # "Failed"
          /\ \A d \in DepsOf(m) : \E j \in 1 .. (i - 1) : order'[j] = d /\ j <= cursor'
      BY <1>14, <2>1
    <3>2. phase' = phase
      BY <1>1
    <3>3. QED
      BY <1>2, <3>1, <3>2
  <2>2. \A m \in Registered' : phase'[m] # "Failed" =>
          ~MissesDep(m)' /\ (DepsOf(m)' \subseteq Dealt' => m \in Ordered')
    BY <1>1, <1>2, <1>15
  <2>3. at' = "order"
    BY <1>1
  <2>4. QED
    BY <1>8, <1>13, <2>1, <2>2, <2>3, OrderSoundNext
<1>17. TypeOK'
  <2>1. cursor' \in 0 .. Len(order')
    BY <1>1, <1>4, <1>8
  <2>2. QED
    BY <1>1, <1>8, <2>1 DEF RegistryInv, TypeOK
<1>18. PhaseTracked' /\ RunningTracked' /\ OneStarting' /\ StopSound'
  BY <1>1, <1>2 DEF RegistryInv, PhaseTracked, RunningTracked, OneStarting, StopSound
<1>19. ReadyNeedsReady' /\ ReadyFounded'
  <2>1. ReadyOnes' = ReadyOnes
    BY <1>1, <1>2 DEF ReadyOnes
  <2>2. QED
    BY <1>1, <2>1, ReadyKept
<1>20. QED
  BY <1>16, <1>17, <1>18, <1>19 DEF RegistryInv

\* When all that is listed has been dealt with, what is left waits: for another that
\* is left or for one that has failed.
LEMMA LeftWait ==
  ASSUME RegistryInv, at = "order", cursor = Len(order),
         NEW m \in Registered, phase[m] # "Failed", ~Contains(order, m)
  PROVE  \E d \in DepsOf(m) : \/ phase[d] = "Failed"
                              \/ d \in Registered /\ ~Contains(order, d)
<1>1. \A o \in Registered : phase[o] # "Failed" => (DepsOf(o) \subseteq Dealt => o \in Ordered)
  BY DEF RegistryInv, OrderSound, StartingUp
<1>2. Dealt = Ordered /\ \A o : o \in Ordered <=> Contains(order, o)
  BY DEF Dealt, Ordered, Contains
<1>3. PICK d \in DepsOf(m) : d \notin Dealt
  BY <1>1, <1>2
<1>4. d \in Registered
  BY DEF DepsOf
<1>5. QED
  BY <1>2, <1>3, <1>4

\* So no ready module is left: the ready ones among them would wait for one another.
LEMMA LeftNotReady ==
  ASSUME RegistryInv, at = "order", cursor = Len(order)
  PROVE  \A m \in Registered :
           phase[m] # "Failed" /\ ~Contains(order, m) => phase[m] # "Ready"
<1> DEFINE both == {m \in ReadyOnes : ~Contains(order, m)}
<1> SUFFICES ASSUME both # {} PROVE FALSE
  BY DEF ReadyOnes
<1>1. \A S \in SUBSET ReadyOnes : S # {} => \E m \in S : DepsOf(m) \cap S = {}
  BY DEF RegistryInv, ReadyFounded
<1>2. PICK m \in both : DepsOf(m) \cap both = {}
  <2>1. both \in SUBSET ReadyOnes
    OBVIOUS
  <2> HIDE DEF both
  <2>2. QED
    BY <1>1, <2>1
<1>3. m \in Registered /\ phase[m] = "Ready" /\ phase[m] # "Failed" /\ ~Contains(order, m)
  BY DEF ReadyOnes
<1>4. PICK d \in DepsOf(m) : \/ phase[d] = "Failed"
                             \/ d \in Registered /\ ~Contains(order, d)
  BY <1>3, LeftWait
<1>5. phase[d] = "Ready"
  BY <1>3 DEF RegistryInv, ReadyNeedsReady
<1>6. d \in both
  BY <1>4, <1>5 DEF ReadyOnes
<1>7. QED
  BY <1>2, <1>6

LEMMA OrderDoneKeepsInv ==
  ASSUME RegistryInv, RecordInv', OrderDone
  PROVE  RegistryInv'
<1> DEFINE left == {m \in Registered : phase[m] # "Failed" /\ ~Contains(order, m)}
<1>1. /\ at = "order" /\ at' = "next" /\ cursor = Len(order) /\ cursor' = 0
      /\ Fail(left, "dependency cycle")
      /\ UNCHANGED <<records, deps, order, running, strays, given, destroyed>>
  BY DEF OrderDone
<1>2. left \cap ReadyOnes = {}
  BY <1>1, LeftNotReady DEF ReadyOnes
<1>3. /\ \A m \in Module : phase[m] \notin Starting
      /\ \A i, j \in 1 .. Len(order) : order[i] = order[j] => i = j
      /\ \A i \in 1 .. Len(order) :
           /\ order[i] \in Registered /\ ~MissesDep(order[i])
           /\ \A d \in DepsOf(order[i]) : \E j \in 1 .. (i - 1) : order[j] = d
           /\ phase[order[i]] # "Failed"
  BY <1>1 DEF RegistryInv, OrderSound, OneStarting, StartingUp
<1>4. \A m \in left : phase[m] \notin Live
  BY <1>2, <1>3, RegistryTypes DEF Live, Starting, ReadyOnes
<1>5. /\ phase' \in [Module -> Phase] /\ DOMAIN error' = Module
      /\ \A m \in left : phase'[m] = "Failed"
      /\ \A m \in Module \ left : phase'[m] = phase[m]
      /\ PhaseTracked' /\ RunningTracked' /\ ReadyNeedsReady' /\ ReadyFounded'
  <2>1. left \in SUBSET Registered
    OBVIOUS
  <2> HIDE DEF left
  <2>2. QED
    BY <1>1, <1>4, <2>1, FailKeeps
<1>6. /\ Registered' = Registered /\ Registered \subseteq Module
      /\ \A m \in Module : DepsOf(m)' = DepsOf(m)
      /\ \A m \in Module : MissesDep(m)' <=> MissesDep(m)
  <2> HIDE DEF left
  <2>1. QED
    BY <1>1, DepsFrame, RegistryTypes
<1>7. \A i \in 1 .. Len(order) : order[i] \notin left
  BY DEF Contains
<1>8. \A m \in Registered : m \notin left /\ phase[m] # "Failed" => \E i \in 1 .. Len(order) : order[i] = m
  BY DEF Contains
<1> HIDE DEF left
<1>9. order' = order /\ cursor' = 0 /\ at' = "next" /\ order \in Seq(Module) /\ Len(order) \in Nat
  BY <1>1, RegistryTypes
<1>10. TypeOK'
  <2>1. cursor' \in 0 .. Len(order')
    BY <1>9
  <2>2. UNCHANGED <<records, deps, order, running, strays, given, destroyed>>
    BY <1>1
  <2>3. QED
    BY <1>5, <1>9, <2>1, <2>2 DEF RegistryInv, TypeOK
<1>11. OneStarting'
  BY <1>3, <1>5, <1>9 DEF OneStarting, Starting
<1>12. Dealt' = {} /\ Ordered' = Ordered
  <2>1. 1 .. cursor' = {}
    BY <1>9
  <2>2. QED
    BY <1>9, <2>1 DEF Dealt, Ordered
<1>13. OrderSound'
  <2>1. ASSUME NEW m \in Module, NEW i \in 1 .. Len(order), order[i] = m
        PROVE  /\ m \in Registered' /\ ~MissesDep(m)'
               /\ \A d \in DepsOf(m)' : \E j \in 1 .. (i - 1) : order[j] = d
               /\ phase'[m] # "Failed"
    BY <1>3, <1>5, <1>6, <1>7, <2>1
  <2>2. \A m \in Registered' : phase'[m] # "Failed" => m \in Ordered'
    BY <1>5, <1>6, <1>8, <1>12 DEF Ordered
  <2>3. QED
    BY <1>3, <1>9, <1>12, <2>1, <2>2, OrderSoundNext
<1>14. StopSound'
  BY <1>9 DEF StopSound
<1>15. QED
  BY <1>5, <1>10, <1>11, <1>13, <1>14 DEF RegistryInv

-----------------------------------------------------------------------------
(* The loop over the order *)

\* The entry whose turn it is takes a step: into its next call back, which needs its
\* dependencies ready, or out of start-up.
LEMMA EntryStep ==
  ASSUME RegistryInv, RecordInv', at \in {"next", "pre_init", "startup", "post_init"},
         NEW e \in Module, cursor < Len(order), e = Entry, NEW to,
         phase[e] = "Ready" => to = "Ready", PhaseMoves(e, to), DOMAIN error' = Module,
         UNCHANGED <<records, deps, order, given, destroyed>>,
         running' \subseteq Module /\ strays' \subseteq Module,
         \A m \in Module : m \in running' <=> IF m = e THEN to \in Live ELSE m \in running,
         to = "Failed" \/ DepsReady(e),
         \/ to \in {"Ready", "Failed"} /\ at' = "next" /\ cursor' = cursor + 1
         \/ /\ cursor' = cursor
            /\ \/ to = "PreInit" /\ at' = "pre_init"
               \/ to = "Init" /\ at' = "startup"
               \/ to = "PostInit" /\ at' = "post_init"
  PROVE  RegistryInv'
<1>1. /\ Registered' = Registered /\ Registered \subseteq Module
      /\ \A m \in Module : DepsOf(m)' = DepsOf(m)
      /\ \A m \in Module : MissesDep(m)' <=> MissesDep(m)
  BY DepsFrame, RegistryTypes
<1>2. /\ phase' \in [Module -> Phase] /\ phase'[e] = to
      /\ \A o \in Module : o # e => phase'[o] = phase[o]
  BY DEF PhaseMoves
<1>3. /\ \A i, j \in 1 .. Len(order) : order[i] = order[j] => i = j
      /\ \A i \in 1 .. Len(order) :
           /\ order[i] \in Registered /\ ~MissesDep(order[i])
           /\ \A d \in DepsOf(order[i]) : \E j \in 1 .. (i - 1) : order[j] = d
           /\ i > cursor => phase[order[i]] # "Failed"
      /\ \A m \in Dealt : phase[m] \in {"Ready", "Failed"}
      /\ \A m \in Registered : phase[m] # "Failed" => m \in Ordered
  <2>1. StartingUp /\ OrderSound /\ at # "order"
    BY DEF RegistryInv, StartingUp
  <2>2. ASSUME NEW i \in 1 .. Len(order)
        PROVE  /\ order[i] \in Registered /\ ~MissesDep(order[i])
               /\ \A d \in DepsOf(order[i]) : \E j \in 1 .. (i - 1) : order[j] = d
               /\ i > cursor => phase[order[i]] # "Failed"
    <3>1. /\ order[i] \in Registered /\ ~MissesDep(order[i])
          /\ \A d \in DepsOf(order[i]) :
               \E j \in 1 .. (i - 1) : order[j] = d /\ (at = "order" => j <= cursor)
          /\ at = "order" \/ i > cursor => phase[order[i]] # "Failed"
      BY <2>1 DEF OrderSound
    <3>2. QED
      BY <3>1
  <2>3. /\ \A i, j \in 1 .. Len(order) : order[i] = order[j] => i = j
        /\ \A m \in Dealt : phase[m] \in {"Ready", "Failed"}
        /\ \A m \in Registered : phase[m] # "Failed" => m \in Ordered
    BY <2>1 DEF OrderSound
  <2>4. QED
    BY <2>2, <2>3
<1>4. /\ order \in Seq(Module) /\ Len(order) \in Nat /\ cursor \in Nat
      /\ cursor + 1 \in 1 .. Len(order) /\ e = order[cursor + 1] /\ e \in Registered
  BY <1>3, RegistryTypes DEF Entry
<1>5. \A m \in Module : m # e => phase[m] \notin Starting
  <2>1. Entry = e /\ OneStarting
    BY DEF RegistryInv
  <2>2. QED
    BY <2>1 DEF OneStarting
<1>6. TypeOK'
  <2>1. cursor' \in 0 .. Len(order')
    BY <1>4
  <2>2. QED
    BY <1>2, <1>4, <2>1 DEF RegistryInv, TypeOK
<1>7. PhaseTracked' /\ RunningTracked'
  BY <1>1, <1>2, <1>4 DEF RegistryInv, PhaseTracked, RunningTracked
<1>8. OneStarting'
  <2>1. CASE to \in {"Ready", "Failed"} /\ at' = "next" /\ cursor' = cursor + 1
    BY <1>2, <1>5, <2>1 DEF OneStarting, Starting
  <2>2. CASE /\ cursor' = cursor
             /\ \/ to = "PreInit" /\ at' = "pre_init"
                \/ to = "Init" /\ at' = "startup"
                \/ to = "PostInit" /\ at' = "post_init"
    <3>1. Entry' = e /\ cursor' < Len(order')
      BY <1>4, <2>2 DEF Entry
    <3>2. DepsReady(Entry)'
      <4>1. \A n \in deps[e] : \E d \in Registered : NameOf[d] = n /\ phase[d] = "Ready"
        BY <2>2 DEF DepsReady
      <4>2. \A n \in deps'[e] : \E d \in Registered' : NameOf[d] = n /\ phase'[d] = "Ready"
        BY <1>1, <1>2, <4>1
      <4>3. QED
        BY <3>1, <4>2 DEF DepsReady
    <3>3. \A m \in Module : m # Entry' => phase'[m] \notin Starting
      BY <1>2, <1>5, <3>1
    <3>4. QED
      BY <1>2, <2>2, <3>1, <3>2, <3>3 DEF OneStarting
  <2>3. QED
    BY <2>1, <2>2
<1>9. /\ ReadyOnes' = IF to = "Ready" THEN ReadyOnes \cup {e} ELSE ReadyOnes
      /\ e \in ReadyOnes => ReadyOnes' = ReadyOnes
  BY <1>1, <1>2, <1>4 DEF ReadyOnes
<1>10. \A m \in ReadyOnes : m \in Module /\ ~MissesDep(m) /\ DepsOf(m) \subseteq ReadyOnes
  BY <1>1 DEF RegistryInv, ReadyNeedsReady, ReadyOnes, DepsOf
<1>11. to = "Ready" => ~MissesDep(e) /\ DepsOf(e) \subseteq ReadyOnes
  BY DepsReadyMeans DEF ReadyOnes, DepsOf
<1>12. ReadyNeedsReady'
  <2>1. ASSUME NEW m \in ReadyOnes'
        PROVE  ~MissesDep(m)' /\ \A d \in DepsOf(m)' : d \in ReadyOnes'
    BY <1>1, <1>9, <1>10, <1>11, <2>1
  <2>2. QED
    BY <2>1 DEF ReadyNeedsReady, ReadyOnes
<1>13. ReadyFounded'
  <2>1. \A S \in SUBSET ReadyOnes : S # {} => \E m \in S : DepsOf(m) \cap S = {}
    BY DEF RegistryInv, ReadyFounded
  <2>2. ASSUME ReadyOnes' # ReadyOnes, NEW S \in SUBSET ReadyOnes', S # {}
        PROVE  \E m \in S : DepsOf(m)' \cap S = {}
    <3>1. CASE S = {e}
      <4>1. DepsOf(e) \cap S = {}
        BY <1>9, <1>11, <2>2, <3>1
      <4>2. QED
        BY <1>1, <3>1, <4>1
    <3>2. CASE S # {e}
      <4> DEFINE old == S \ {e}
      <4>1. old \in SUBSET ReadyOnes /\ old # {}
        BY <1>9, <2>2, <3>2
      <4>2. PICK m \in old : DepsOf(m) \cap old = {}
        BY <2>1, <4>1
      <4>3. e \notin DepsOf(m)
        BY <1>9, <1>10, <2>2, <4>1
      <4>4. DepsOf(m)' = DepsOf(m)
        BY <1>1, <1>10, <4>1
      <4>5. QED
        BY <4>2, <4>3, <4>4
    <3>3. QED
      BY <3>1, <3>2
  <2>3. CASE ReadyOnes' = ReadyOnes
    BY <2>3, ReadyKept
  <2>4. QED
    BY <2>2, <2>3 DEF ReadyFounded
<1>14. OrderSound'
  <2>1. ASSUME NEW m \in Module, NEW i \in 1 .. Len(order), order[i] = m
        PROVE  /\ m \in Registered' /\ ~MissesDep(m)'
               /\ \A d \in DepsOf(m)' : \E j \in 1 .. (i - 1) : order[j] = d
               /\ i > cursor' => phase'[m] # "Failed"
    <3>1. i > cursor' => phase'[m] # "Failed"
      <4>1. CASE i = cursor + 1
        BY <1>2, <1>4, <2>1, <4>1
      <4>2. CASE i # cursor + 1
        <5>1. m # e
          BY <1>3, <1>4, <2>1, <4>2
        <5>2. i > cursor' => i > cursor
          BY <1>4
        <5>3. QED
          BY <1>2, <1>3, <2>1, <5>1, <5>2
      <4>3. QED
        BY <4>1, <4>2
    <3>2. QED
      BY <1>1, <1>3, <2>1, <3>1
  <2>2. ASSUME NEW m \in Dealt'
        PROVE  phase'[m] \in {"Ready", "Failed"}
    <3>1. PICK i \in 1 .. cursor' : m = order[i]
      BY DEF Dealt
    <3>2. CASE i = cursor + 1
      BY <1>2, <1>4, <3>1, <3>2
    <3>3. CASE i # cursor + 1
      <4>1. i \in 1 .. cursor /\ i \in 1 .. Len(order)
        BY <1>4, <3>1, <3>3
      <4>2. m \in Dealt /\ m \in Module /\ m # e
        BY <1>1, <1>3, <1>4, <3>1, <3>3, <4>1 DEF Dealt
      <4>3. QED
        BY <1>2, <1>3, <4>2
    <3>4. QED
      BY <3>2, <3>3
  <2>3. Ordered' = Ordered /\ e \in Ordered
    BY <1>4 DEF Ordered
  <2>4. \A m \in Registered' : phase'[m] # "Failed" => m \in Ordered'
    BY <1>1, <1>2, <1>3, <2>3
  <2>5. at' # "order"
    OBVIOUS
  <2>6. QED
    BY <1>3, <1>4, <2>1, <2>2, <2>4, <2>5, OrderSoundNext
<1>15. StopSound'
  BY DEF StopSound
<1>16. QED
  BY <1>6, <1>7, <1>8, <1>12, <1>13, <1>14, <1>15 DEF RegistryInv

\* the entry of the order whose turn it is
LEMMA EntryFacts ==
  ASSUME RegistryInv, at \in {"next", "pre_init", "startup", "post_init"},
         at = "next" => cursor < Len(order)
  PROVE  /\ Entry \in Module /\ Entry \in Registered /\ cursor < Len(order)
         /\ Entry \in running <=> phase[Entry] \in Live
         /\ at = "next" => phase[Entry] \notin Starting \cup {"Failed"}
         /\ at = "pre_init" => phase[Entry] = "PreInit" /\ DepsReady(Entry)
         /\ at = "startup" => phase[Entry] = "Init" /\ DepsReady(Entry)
         /\ at = "post_init" => phase[Entry] = "PostInit" /\ DepsReady(Entry)
<1>1. cursor < Len(order)
  BY DEF RegistryInv, OneStarting
<1>2. Entry \in Module /\ cursor + 1 \in 1 .. Len(order) /\ cursor + 1 > cursor
  BY <1>1, RegistryTypes DEF Entry
<1>3. StartingUp /\ OrderSound
  BY DEF RegistryInv, StartingUp
<1>4. Entry \in Registered /\ phase[Entry] # "Failed"
  BY <1>2, <1>3 DEF OrderSound, Entry
<1>5. Entry \in running <=> phase[Entry] \in Live
  BY <1>2, <1>4 DEF RegistryInv, RunningTracked
<1>6. /\ at = "next" => phase[Entry] \notin Starting
      /\ at = "pre_init" => phase[Entry] = "PreInit" /\ DepsReady(Entry)
      /\ at = "startup" => phase[Entry] = "Init" /\ DepsReady(Entry)
      /\ at = "post_init" => phase[Entry] = "PostInit" /\ DepsReady(Entry)
  BY <1>2 DEF RegistryInv, OneStarting
<1>7. QED
  BY <1>1, <1>2, <1>4, <1>5, <1>6

LEMMA PassReadyKeepsInv ==
  ASSUME RegistryInv, RecordInv', PassReady
  PROVE  RegistryInv'
<1> DEFINE e == Entry
<1>1. /\ at = "next" /\ at' = "next" /\ cursor < Len(order) /\ cursor' = cursor + 1
      /\ phase[e] = "Ready"
      /\ UNCHANGED <<records, phase, error, deps, order, running, strays, given, destroyed>>
  BY DEF PassReady, Turn, NextEntry, recordVars
<1>2. e \in Module /\ e \in Registered /\ e \in running
  BY <1>1, EntryFacts DEF Live
<1>3. DepsReady(e)
  <2>1. ~MissesDep(e) /\ \A d \in DepsOf(e) : phase[d] = "Ready"
    BY <1>1, <1>2 DEF RegistryInv, ReadyNeedsReady
  <2>2. QED
    BY <1>2, <2>1, DepsReadyMeans
<1>4. /\ PhaseMoves(e, "Ready") /\ DOMAIN error' = Module
      /\ running' \subseteq Module /\ strays' \subseteq Module
  BY <1>1, RegistryTypes DEF PhaseMoves, RegistryInv, TypeOK
<1>5. \A m \in Module : m \in running' <=> IF m = e THEN "Ready" \in Live ELSE m \in running
  BY <1>1, <1>2 DEF Live
<1>6. Entry = e
  OBVIOUS
<1> HIDE DEF e
<1>7. QED
  BY <1>1, <1>2, <1>3, <1>4, <1>5, <1>6, EntryStep

LEMMA RefuseUnreadyKeepsInv ==
  ASSUME RegistryInv, RecordInv', RefuseUnready
  PROVE  RegistryInv'
<1> DEFINE e == Entry
<1>1. /\ at = "next" /\ at' = "next" /\ cursor < Len(order) /\ cursor' = cursor + 1
      /\ phase[e] # "Ready" /\ Fail({e}, "dependency not ready")
      /\ UNCHANGED <<records, deps, order, running, strays, given, destroyed>>
  BY DEF RefuseUnready, Turn, NextEntry
<1>2. /\ e \in Module /\ e \in Registered /\ (e \in running <=> phase[e] \in Live)
      /\ phase[e] \notin Starting
  BY <1>1, EntryFacts
<1>3. e \notin running
  BY <1>1, <1>2 DEF Live, Starting
<1>4. /\ PhaseMoves(e, "Failed") /\ DOMAIN error' = Module
      /\ running' \subseteq Module /\ strays' \subseteq Module
  BY <1>1, <1>2, RegistryTypes DEF PhaseMoves, Fail, Phase, RegistryInv, TypeOK
<1>5. \A m \in Module : m \in running' <=> IF m = e THEN "Failed" \in Live ELSE m \in running
  BY <1>1, <1>3 DEF Live
<1>6. Entry = e
  OBVIOUS
<1> HIDE DEF e
<1>7. QED
  BY <1>1, <1>2, <1>4, <1>5, <1>6, EntryStep

LEMMA BeginKeepsInv ==
  ASSUME RegistryInv, RecordInv', Begin
  PROVE  RegistryInv'
<1> DEFINE e == Entry
<1>1. /\ at = "next" /\ at' = "pre_init" /\ cursor < Len(order) /\ cursor' = cursor
      /\ phase[e] # "Ready" /\ DepsReady(e)
      /\ phase' = [phase EXCEPT ![e] = "PreInit"]
      /\ error' = [error EXCEPT ![e] = ""]
      /\ UNCHANGED <<records, deps, order, running, strays, given, destroyed>>
  BY DEF Begin, Turn
<1>2. /\ e \in Module /\ e \in Registered /\ (e \in running <=> phase[e] \in Live)
      /\ phase[e] \notin Starting
  BY <1>1, EntryFacts
<1>3. e \notin running
  BY <1>1, <1>2 DEF Live, Starting
<1>4. /\ PhaseMoves(e, "PreInit") /\ DOMAIN error' = Module
      /\ running' \subseteq Module /\ strays' \subseteq Module
  BY <1>1, <1>2, RegistryTypes DEF PhaseMoves, Phase, RegistryInv, TypeOK
<1>5. \A m \in Module : m \in running' <=> IF m = e THEN "PreInit" \in Live ELSE m \in running
  BY <1>1, <1>3 DEF Live
<1>6. Entry = e
  OBVIOUS
<1> HIDE DEF e
<1>7. QED
  BY <1>1, <1>2, <1>4, <1>5, <1>6, EntryStep

\* a call back that returned true
LEMMA CallBackOkKeepsInv ==
  ASSUME RegistryInv, RecordInv', PreInitOk \/ StartupOk \/ PostInitOk
  PROVE  RegistryInv'
<1> DEFINE e == Entry
<1>1. at \in {"pre_init", "startup", "post_init"}
  BY DEF PreInitOk, StartupOk, PostInitOk
<1>2. /\ e \in Module /\ e \in Registered /\ cursor < Len(order)
      /\ e \in running <=> phase[e] \in Live
      /\ DepsReady(e) /\ phase[e] # "Ready"
      /\ at = "pre_init" => phase[e] = "PreInit"
      /\ at = "startup" => phase[e] = "Init"
      /\ at = "post_init" => phase[e] = "PostInit"
  BY <1>1, EntryFacts
<1>3. /\ phase \in [Module -> Phase] /\ DOMAIN error = Module
      /\ running \subseteq Module /\ strays \subseteq Module
  BY DEF RegistryInv, TypeOK
<1>4. Entry = e
  OBVIOUS
<1>5. CASE PreInitOk
  <2>1. /\ at = "pre_init" /\ at' = "startup" /\ cursor' = cursor
        /\ phase' = [phase EXCEPT ![e] = "Init"]
        /\ UNCHANGED <<records, error, deps, order, given, destroyed>>
        /\ running' = running \cup {e} /\ strays' = strays
    BY <1>5 DEF PreInitOk, Advance
  <2> HIDE DEF e
  <2>2. /\ PhaseMoves(e, "Init") /\ DOMAIN error' = Module
        /\ running' \subseteq Module /\ strays' \subseteq Module
    BY <1>2, <1>3, <2>1 DEF PhaseMoves, Phase
  <2>3. \A m \in Module : m \in running' <=> IF m = e THEN "Init" \in Live ELSE m \in running
    BY <2>1 DEF Live
  <2>4. QED
    BY <1>2, <1>4, <2>1, <2>2, <2>3, EntryStep
<1>6. CASE StartupOk
  <2>1. /\ at = "startup" /\ at' = "post_init" /\ cursor' = cursor
        /\ phase' = [phase EXCEPT ![e] = "PostInit"]
        /\ UNCHANGED <<records, error, deps, order, running, strays, given, destroyed>>
    BY <1>6 DEF StartupOk, Advance
  <2> HIDE DEF e
  <2>2. /\ PhaseMoves(e, "PostInit") /\ DOMAIN error' = Module
        /\ running' \subseteq Module /\ strays' \subseteq Module
    BY <1>2, <1>3, <2>1 DEF PhaseMoves, Phase
  <2>3. \A m \in Module : m \in running' <=> IF m = e THEN "PostInit" \in Live ELSE m \in running
    BY <1>2, <2>1 DEF Live
  <2>4. QED
    BY <1>2, <1>4, <2>1, <2>2, <2>3, EntryStep
<1>7. CASE PostInitOk
  <2>1. /\ at = "post_init" /\ at' = "next" /\ cursor' = cursor + 1
        /\ phase' = [phase EXCEPT ![e] = "Ready"]
        /\ UNCHANGED <<records, error, deps, order, running, strays, given, destroyed>>
    BY <1>7 DEF PostInitOk, NextEntry
  <2> HIDE DEF e
  <2>2. /\ PhaseMoves(e, "Ready") /\ DOMAIN error' = Module
        /\ running' \subseteq Module /\ strays' \subseteq Module
    BY <1>2, <1>3, <2>1 DEF PhaseMoves, Phase
  <2>3. \A m \in Module : m \in running' <=> IF m = e THEN "Ready" \in Live ELSE m \in running
    BY <1>2, <2>1 DEF Live
  <2>4. QED
    BY <1>2, <1>4, <2>1, <2>2, <2>3, EntryStep
<1>8. QED
  BY <1>5, <1>6, <1>7

\* one that returned false: a module that was started is shut down first
LEMMA CallBackFailsKeepsInv ==
  ASSUME RegistryInv, RecordInv', CallBackFails
  PROVE  RegistryInv'
<1> DEFINE e == Entry
<1>1. /\ at \in {"pre_init", "startup", "post_init"} /\ at' = "next"
      /\ cursor' = cursor + 1
      /\ UNCHANGED <<records, deps, order, given, destroyed>>
      /\ \E why : Fail({e}, why)
      /\ ShutDown(IF at = "pre_init" THEN {} ELSE {e})
  <2>1. /\ cursor' = cursor + 1 /\ at' = "next"
        /\ UNCHANGED <<records, deps, order, given, destroyed>>
    BY DEF CallBackFails, NextEntry
  <2>2. /\ at \in {"pre_init", "startup", "post_init"}
        /\ \E why : Fail({e}, why)
        /\ ShutDown(IF at = "pre_init" THEN {} ELSE {e})
    <3>1. \/ at = "pre_init" /\ Fail({e}, "pre_init failed") /\ ShutDown({})
          \/ at = "startup" /\ Fail({e}, "startup failed") /\ ShutDown({e})
          \/ at = "post_init" /\ Fail({e}, "post_init failed") /\ ShutDown({e})
      BY DEF CallBackFails
    <3> HIDE DEF e
    <3>2. QED
      BY <3>1
  <2>3. QED
    BY <2>1, <2>2
<1>2. /\ e \in Module /\ e \in Registered /\ cursor < Len(order)
      /\ e \in running <=> phase[e] \in Live
      /\ phase[e] # "Ready"
      /\ at = "pre_init" => phase[e] = "PreInit"
  BY <1>1, EntryFacts
<1>3. /\ phase \in [Module -> Phase] /\ running \subseteq Module /\ strays \subseteq Module
  BY DEF RegistryInv, TypeOK
<1>4. Entry = e
  OBVIOUS
<1> HIDE DEF e
<1>5. PhaseMoves(e, "Failed") /\ DOMAIN error' = Module
  <2>1. PICK why : Fail({e}, why)
    BY <1>1
  <2>2. QED
    BY <1>2, <1>3, <2>1 DEF Fail, PhaseMoves, Phase
<1>6. /\ running' \subseteq Module /\ strays' \subseteq Module
      /\ \A m \in Module : m \in running' <=> IF m = e THEN "Failed" \in Live ELSE m \in running
  BY <1>1, <1>2, <1>3 DEF Live, ShutDown
<1>7. QED
  BY <1>1, <1>2, <1>4, <1>5, <1>6, EntryStep

-----------------------------------------------------------------------------
(* The calls return; shutdown *)

\* leaving startup_all, after its loop or by an exception
LEMMA StartupLeavesInv ==
  ASSUME RegistryInv, RecordInv', CallBackThrows \/ StartupReturn
  PROVE  RegistryInv'
<1>1. /\ at \notin {"stop", "dtor"} /\ at' = "idle" /\ order' = <<>> /\ cursor' = 0
      /\ UNCHANGED <<records, phase, error, deps, running, strays, given, destroyed>>
  BY DEF CallBackThrows, StartupReturn, Loop, recordVars
<1>2. Registered' = Registered
  BY <1>1, DepsFrame
<1>3. TypeOK'
  BY <1>1 DEF RegistryInv, TypeOK
<1>4. PhaseTracked' /\ RunningTracked'
  BY <1>1, <1>2 DEF RegistryInv, PhaseTracked, RunningTracked
<1>5. ReadyOnes' = ReadyOnes
  BY <1>1, <1>2 DEF ReadyOnes
<1>6. QED
  BY <1>1, <1>3, <1>4, <1>5, ReadyKept, NotInLoop DEF RegistryInv

LEMMA ShutdownAllKeepsInv ==
  ASSUME RegistryInv, RecordInv', ShutdownAll
  PROVE  RegistryInv'
<1>1. /\ at = "idle" /\ at' \in {"stop", "dtor"} /\ order' = Reverse(records) /\ cursor' = 0
      /\ UNCHANGED <<records, phase, error, deps, running, strays, given, destroyed>>
  BY DEF ShutdownAll, Loop, recordVars
<1>2. Registered' = Registered
  BY <1>1, DepsFrame
<1>3. Reverse(records) \in Seq(Module)
  <2>1. \A i \in 1 .. Len(records) : (Len(records) - i) + 1 \in 1 .. Len(records)
    BY RegistryTypes
  <2>2. QED
    BY <2>1, RegistryTypes DEF Reverse
<1>4. TypeOK'
  <2>1. cursor' \in 0 .. Len(order')
    BY <1>1, <1>3
  <2>2. QED
    BY <1>1, <1>3, <2>1 DEF RegistryInv, TypeOK
<1>5. PhaseTracked' /\ RunningTracked'
  BY <1>1, <1>2 DEF RegistryInv, PhaseTracked, RunningTracked
<1>6. StopSound'
  <2>1. Dealt' = {}
    <3>1. 1 .. cursor' = {}
      BY <1>1
    <3>2. QED
      BY <3>1 DEF Dealt
  <2>2. order' = Reverse(records')
    BY <1>1
  <2>3. QED
    BY <2>1, <2>2 DEF StopSound
<1>7. OneStarting' /\ ReadyNeedsReady' /\ ReadyFounded' /\ OrderSound'
  BY <1>1 DEF OneStarting, ReadyNeedsReady, ReadyFounded, OrderSound, StartingUp
<1>8. QED
  BY <1>4, <1>5, <1>6, <1>7 DEF RegistryInv

\* the record shutdown_all is at
LEMMA StopEntry ==
  ASSUME RegistryInv, at \in {"stop", "dtor"}, cursor < Len(order)
  PROVE  Entry \in Module /\ Entry \in Registered
<1>1. /\ cursor \in Nat /\ Len(order) \in Nat /\ cursor + 1 \in 1 .. Len(order)
      /\ Entry = order[cursor + 1] /\ Entry \in Module
  BY RegistryTypes DEF Entry
<1>2. /\ DOMAIN records = 1 .. Len(records) /\ Len(records) \in Nat
      /\ order = [i \in 1 .. Len(records) |-> records[(Len(records) - i) + 1]]
  BY RegistryTypes DEF Reverse, RegistryInv, StopSound
<1>3. Len(order) = Len(records)
  BY <1>2, <1>1
<1>4. (Len(records) - (cursor + 1)) + 1 \in DOMAIN records
  BY <1>1, <1>2, <1>3
<1>5. Entry = records[(Len(records) - (cursor + 1)) + 1]
  BY <1>1, <1>2, <1>3
<1>6. QED
  BY <1>1, <1>4, <1>5 DEF Registered

LEMMA StopNextKeepsInv ==
  ASSUME RegistryInv, RecordInv', StopNext
  PROVE  RegistryInv'
<1> DEFINE e == Entry
           to == IF phase[e] \in Live \cup {"PreInit"} THEN "Shutdown" ELSE phase[e]
<1>1. /\ at \in {"stop", "dtor"} /\ at' = at /\ cursor < Len(order) /\ cursor' = cursor + 1
      /\ ShutDown({m \in {e} : phase[m] \in Live})
      /\ UNCHANGED <<records, error, deps, order, given, destroyed>>
      /\ phase' = [phase EXCEPT ![e] = IF phase[e] \in Live \cup {"PreInit"} THEN "Shutdown" ELSE @]
  BY DEF StopNext
<1>2. /\ cursor \in Nat /\ Len(order) \in Nat /\ cursor + 1 \in 1 .. Len(order)
      /\ e = order[cursor + 1] /\ e \in Module
  BY <1>1, RegistryTypes DEF Entry
<1>3. /\ phase \in [Module -> Phase] /\ running \subseteq Module /\ strays \subseteq Module
      /\ order = Reverse(records)
      /\ \A m \in Dealt : phase[m] \notin Live \cup {"PreInit"}
  BY <1>1 DEF RegistryInv, TypeOK, StopSound
<1> HIDE DEF e
<1>4. /\ phase' \in [Module -> Phase] /\ phase'[e] = to
      /\ \A m \in Module : m # e => phase'[m] = phase[m]
  <2>1. phase' = [phase EXCEPT ![e] = to]
    BY <1>1, <1>2, <1>3
  <2>2. to \in Phase
    BY <1>2, <1>3 DEF Phase
  <2> HIDE DEF to
  <2>3. QED
    BY <1>2, <1>3, <2>1, <2>2
<1>5. Registered' = Registered
  BY <1>1, DepsFrame
<1>6. e \in Registered
  BY <1>1, StopEntry DEF e
<1>7. TypeOK'
  <2>1. cursor' \in 0 .. Len(order')
    BY <1>1, <1>2
  <2>2. /\ UNCHANGED <<records, error, deps, at, order, given, destroyed>>
        /\ running' \subseteq Module /\ strays' \subseteq Module
    BY <1>1, <1>2, <1>3 DEF ShutDown
  <2>3. QED
    BY <1>4, <2>1, <2>2 DEF RegistryInv, TypeOK
<1>8. PhaseTracked'
  <2>1. to = "Unregistered" <=> phase[e] = "Unregistered"
    BY DEF Live
  <2>2. QED
    BY <1>2, <1>4, <1>5, <2>1 DEF RegistryInv, PhaseTracked
<1>9. RunningTracked'
  <2>1. to \notin Live
    BY DEF Live
  <2>2. e \in running <=> phase[e] \in Live
    BY <1>2, <1>6 DEF RegistryInv, RunningTracked
  <2>3. e \notin running' /\ \A m \in Module : m # e => (m \in running' <=> m \in running)
    BY <1>1, <2>2 DEF ShutDown
  <2>4. QED
    BY <1>2, <1>4, <1>5, <2>1, <2>3 DEF RegistryInv, RunningTracked
<1>10. StopSound'
  <2>1. ASSUME NEW m \in Dealt'
        PROVE  phase'[m] \notin Live \cup {"PreInit"}
    <3>1. PICK i \in 1 .. (cursor + 1) : m = order[i]
      BY <1>1 DEF Dealt
    <3>2. CASE m = e
      <4>1. to \notin Live \cup {"PreInit"}
        BY DEF Live
      <4>2. QED
        BY <1>4, <3>2, <4>1
    <3>3. CASE m # e
      <4>1. i \in 1 .. cursor /\ i \in 1 .. Len(order)
        BY <1>2, <3>1, <3>3
      <4>2. m \in Dealt /\ m \in Module
        BY <3>1, <4>1, RegistryTypes DEF Dealt
      <4>3. QED
        BY <1>3, <1>4, <3>3, <4>2
    <3>4. QED
      BY <3>2, <3>3
  <2>2. QED
    BY <1>1, <1>3, <2>1 DEF StopSound
<1>11. OneStarting' /\ ReadyNeedsReady' /\ ReadyFounded' /\ OrderSound'
  BY <1>1 DEF OneStarting, ReadyNeedsReady, ReadyFounded, OrderSound, StartingUp
<1>12. QED
  BY <1>7, <1>8, <1>9, <1>10, <1>11 DEF RegistryInv

LEMMA ShutdownReturnKeepsInv ==
  ASSUME RegistryInv, RecordInv', ShutdownReturn
  PROVE  RegistryInv'
<1>1. /\ at = "stop" /\ at' = "idle" /\ cursor = Len(order) /\ order' = <<>> /\ cursor' = 0
      /\ UNCHANGED <<records, phase, error, deps, running, strays, given, destroyed>>
  BY DEF ShutdownReturn, Loop, recordVars
<1>2. Registered' = Registered
  BY <1>1, DepsFrame
<1>3. TypeOK'
  BY <1>1 DEF RegistryInv, TypeOK
<1>4. PhaseTracked' /\ RunningTracked'
  BY <1>1, <1>2 DEF RegistryInv, PhaseTracked, RunningTracked
<1>5. \A m \in Registered : phase[m] # "Ready"
  BY <1>1, AllDown DEF Live
<1>6. ReadyNeedsReady' /\ ReadyFounded'
  BY <1>1, <1>2, <1>5 DEF ReadyNeedsReady, ReadyFounded, ReadyOnes
<1>7. QED
  BY <1>1, <1>3, <1>4, <1>6, NotInLoop DEF RegistryInv

LEMMA NextKeepsInv ==
  ASSUME Careful, RegistryInv, [Next]_vars
  PROVE  RegistryInv'
<1>1. RecordInv'
  BY NextKeepsRecords DEF RegistryInv
<1>2. CASE Register
  <2>1. PICK m \in Module : \E D \in SUBSET Name : InsertRecord(m, D)
    BY <1>2 DEF Register
  <2>2. PICK D \in SUBSET Name : InsertRecord(m, D)
    BY <2>1
  <2>3. QED
    BY <1>1, <2>2, RegisterKeepsInv
<1>3. CASE \E m \in Module : RefuseRecord(m)
  BY <1>1, <1>3, RefuseKeepsInv
<1>4. CASE \E i \in DOMAIN records : Unregister(i)
  BY <1>1, <1>4, UnregisterKeepsInv
<1>5. CASE StartupAll
  BY <1>1, <1>5, CarefulStartup
<1>6. CASE OrderNext
  BY <1>1, <1>6, OrderNextKeepsInv
<1>7. CASE OrderDone
  BY <1>1, <1>7, OrderDoneKeepsInv
<1>8. CASE PassReady
  BY <1>1, <1>8, PassReadyKeepsInv
<1>9. CASE RefuseUnready
  BY <1>1, <1>9, RefuseUnreadyKeepsInv
<1>10. CASE Begin
  BY <1>1, <1>10, BeginKeepsInv
<1>11. CASE PreInitOk \/ StartupOk \/ PostInitOk
  BY <1>1, <1>11, CallBackOkKeepsInv
<1>12. CASE CallBackFails
  BY <1>1, <1>12, CallBackFailsKeepsInv
<1>13. CASE CallBackThrows \/ StartupReturn
  BY <1>1, <1>13, StartupLeavesInv
<1>14. CASE ShutdownAll
  BY <1>1, <1>14, ShutdownAllKeepsInv
<1>15. CASE StopNext
  BY <1>1, <1>15, StopNextKeepsInv
<1>16. CASE ShutdownReturn
  BY <1>1, <1>16, ShutdownReturnKeepsInv
<1>17. CASE Destroy
  BY <1>1, <1>17, DestroyKeepsInv
<1>18. CASE UNCHANGED vars
  <2>1. UNCHANGED <<records, phase, error, deps, at, order, cursor, running, strays, given, destroyed>>
    BY <1>18 DEF vars
  <2>2. TypeOK' /\ PhaseTracked' /\ RunningTracked'
    BY <2>1 DEF RegistryInv, TypeOK, PhaseTracked, RunningTracked, Registered
  <2>3. OneStarting'
    <3>1. Entry' = Entry /\ Len(order') = Len(order) /\ (DepsReady(Entry)' <=> DepsReady(Entry))
      BY <2>1 DEF Entry, DepsReady, Registered
    <3>2. QED
      BY <2>1, <3>1 DEF RegistryInv, OneStarting
  <2>4. ReadyNeedsReady' /\ ReadyFounded'
    <3>1. ReadyOnes' = ReadyOnes
      BY <2>1 DEF ReadyOnes, Registered
    <3>2. CASE at \in {"stop", "dtor"}
      BY <2>1, <3>2 DEF ReadyNeedsReady, ReadyFounded
    <3>3. CASE at \notin {"stop", "dtor"}
      BY <2>1, <3>1, <3>3, ReadyKept
    <3>4. QED
      BY <3>2, <3>3
  <2>5. OrderSound' /\ StopSound'
    BY <2>1 DEF RegistryInv, OrderSound, StopSound, StartingUp, Dealt, Ordered,
                Registered, DepsOf, MissesDep, Present
  <2>6. QED
    BY <1>1, <2>2, <2>3, <2>4, <2>5 DEF RegistryInv
<1>19. QED
  BY <1>2, <1>3, <1>4, <1>5, <1>6, <1>7, <1>8, <1>9, <1>10, <1>11, <1>12, <1>13,
     <1>14, <1>15, <1>16, <1>17, <1>18 DEF Next

LEMMA InitRegistryInv ==
  ASSUME RecordInv, Init
  PROVE  RegistryInv
<1>1. /\ records = <<>> /\ at = "idle" /\ order = <<>> /\ cursor = 0
      /\ running = {} /\ strays = {} /\ given = {} /\ destroyed = {}
      /\ phase = [m \in Module |-> "Unregistered"]
      /\ error = [m \in Module |-> ""]
      /\ deps = [m \in Module |-> {}]
  BY DEF Init
<1>2. Registered = {}
  <2>1. DOMAIN <<>> = {}
    OBVIOUS
  <2>2. QED
    BY <1>1, <2>1 DEF Registered
<1>3. TypeOK
  <2>1. records \in Seq(Module) /\ order \in Seq(Module) /\ cursor \in 0 .. Len(order)
    <3>1. <<>> \in Seq(Module) /\ Len(<<>>) = 0 /\ 0 \in 0 .. 0
      OBVIOUS
    <3>2. QED
      BY <1>1, <3>1
  <2>2. phase \in [Module -> Phase] /\ DOMAIN error = Module
    BY <1>1 DEF Phase
  <2>3. deps \in [Module -> SUBSET (Name \ {NoName})]
    BY <1>1
  <2>4. QED
    BY <1>1, <2>1, <2>2, <2>3 DEF TypeOK
<1>4. PhaseTracked /\ RunningTracked /\ ReadyNeedsReady /\ ReadyFounded
  BY <1>1, <1>2 DEF PhaseTracked, RunningTracked, ReadyNeedsReady, ReadyFounded, ReadyOnes
<1>5. OneStarting /\ OrderSound /\ StopSound
  BY <1>1 DEF OneStarting, OrderSound, StopSound, StartingUp
<1>6. QED
  BY <1>3, <1>4, <1>5 DEF RegistryInv

\* The inductive invariant of start-up and shutdown, for a client that unregisters no
\* module another depends on and that shuts down after an exception.
THEOREM RegistryInduction ==
  ASSUME Careful
  PROVE  Spec => []RegistryInv
<1>1. Init /\ RecordInv => RegistryInv
  BY InitRegistryInv
<1>2. RegistryInv /\ [Next]_vars => RegistryInv'
  BY NextKeepsInv
<1>3. QED
  BY <1>1, <1>2, RegistryRecords, PTL DEF Spec

-----------------------------------------------------------------------------
(* What the invariant says at the ends of the calls *)

\* The modules whose startup() was called and shutdown() not since are exactly those with
\* a record in Init, PostInit or Ready: none is started twice or left running.
THEOREM RegistryTracksRunning ==
  ASSUME Careful
  PROVE  Spec => []RunningTracked
<1>1. RegistryInv => RunningTracked
  BY DEF RegistryInv
<1>2. QED
  BY <1>1, RegistryInduction, PTL

\* shutdown() answers a startup(), whoever calls it, but for unregister and a module
\* whose pre_init threw.
THEOREM RegistryShutdownOwed ==
  ASSUME Careful
  PROVE  Spec => ShutdownOwed
<1>1. ASSUME RegistryInv, [Next]_vars, NEW m \in strays' \ strays
      PROVE  phase[m] = "PreInit" /\ m \notin Registered'
  <2>1. CASE \E i \in DOMAIN records : Unregister(i)
    <3>1. PICK i \in DOMAIN records : Unregister(i)
      BY <2>1
    <3>2. /\ ShutDown({r \in {records[i]} : phase[r] \in Live \cup {"PreInit"}})
          /\ records' = RemoveAt(records, i)
      BY <3>1 DEF Unregister
    <3>3. m = records[i] /\ m \notin running /\ phase[m] \in Live \cup {"PreInit"}
      BY <1>1, <3>2 DEF ShutDown
    <3>4. m \in Module /\ m \in Registered /\ Registered' = Registered \ {m}
      BY <1>1, <3>2, <3>3, RegistryTypes, RemovedModule DEF RegistryInv, Registered
    <3>5. QED
      BY <1>1, <3>3, <3>4 DEF RegistryInv, RunningTracked
  <2>2. CASE CallBackFails
    <3>1. at # "pre_init" /\ m = Entry /\ m \notin running /\ at \in {"startup", "post_init"}
      BY <1>1, <2>2 DEF CallBackFails, ShutDown
    <3>2. QED
      BY <1>1, <3>1, EntryFacts DEF Live
  <2>3. CASE StopNext
    <3>1. /\ m = Entry /\ m \notin running /\ phase[m] \in Live
          /\ at \in {"stop", "dtor"} /\ cursor < Len(order)
      BY <1>1, <2>3 DEF StopNext, ShutDown
    <3>2. m \in Module /\ m \in Registered
      BY <1>1, <3>1, StopEntry
    <3>3. QED
      BY <1>1, <3>1, <3>2 DEF RegistryInv, RunningTracked
  <2>4. CASE Register
    BY <1>1, <2>4 DEF Register, InsertRecord
  <2>5. CASE (\E r \in Module : RefuseRecord(r)) \/ StartupAll \/ OrderNext \/ OrderDone
    BY <1>1, <2>5 DEF RefuseRecord, StartupAll, OrderNext, OrderDone
  <2>6. CASE PassReady \/ RefuseUnready \/ Begin \/ PreInitOk \/ StartupOk \/ PostInitOk
    BY <1>1, <2>6 DEF PassReady, RefuseUnready, Begin, PreInitOk, StartupOk, PostInitOk
  <2>7. CASE CallBackThrows \/ StartupReturn \/ ShutdownAll \/ ShutdownReturn \/ Destroy
             \/ UNCHANGED vars
    BY <1>1, <2>7 DEF CallBackThrows, StartupReturn, ShutdownAll, ShutdownReturn, Destroy, vars
  <2>8. QED
    BY <1>1, <2>1, <2>2, <2>3, <2>4, <2>5, <2>6, <2>7 DEF Next
<1>2. RegistryInv /\ [Next]_vars =>
        [\A m \in strays' \ strays : phase[m] = "PreInit" /\ m \notin Registered']_vars
  BY <1>1
<1>3. QED
  BY <1>2, RegistryInduction, PTL DEF Spec, ShutdownOwed

\* The dependencies of a ready module are registered and ready, through failures,
\* exceptions, restarts and later registrations.
THEOREM RegistryReadyNeedsReady ==
  ASSUME Careful
  PROVE  Spec => []ReadyNeedsReady
<1>1. RegistryInv => ReadyNeedsReady
  BY DEF RegistryInv
<1>2. QED
  BY <1>1, RegistryInduction, PTL

\* startup_all leaves every module ready or failed, and shutdown_all none running, those
\* that threw half way up included; and every variable keeps its type.
THEOREM RegistryCallsComplete ==
  ASSUME Careful
  PROVE  Spec => []CallsComplete
<1>1. ASSUME RegistryInv
      PROVE  StartupDecides
  <2>1. SUFFICES ASSUME at = "next", cursor = Len(order), NEW m \in Registered,
                        phase[m] # "Failed"
                 PROVE  phase[m] = "Ready"
    BY DEF StartupDecides
  <2>2. OrderSound /\ StartingUp
    BY <1>1, <2>1 DEF RegistryInv, StartingUp
  <2>3. m \in Ordered /\ \A o \in Dealt : phase[o] \in {"Ready", "Failed"}
    BY <2>1, <2>2 DEF OrderSound
  <2>4. Ordered = Dealt
    BY <2>1 DEF Ordered, Dealt
  <2>5. QED
    BY <2>1, <2>3, <2>4
<1>2. RegistryInv => TypeOK /\ ShutdownCompletes
  BY AllDown DEF RegistryInv, ShutdownCompletes
<1>3. RegistryInv => CallsComplete
  BY <1>1, <1>2 DEF CallsComplete
<1>4. QED
  BY <1>3, RegistryInduction, PTL

-----------------------------------------------------------------------------
(* What a step does to a phase *)

\* Only its turn in the loop of shutdown_all takes a module to Shutdown.
LEMMA OnlyStopNextStops ==
  ASSUME RegistryInv, [Next]_vars, NEW m \in Module,
         phase[m] # "Shutdown", phase'[m] = "Shutdown"
  PROVE  StopNext /\ m = Entry
<1>1. phase \in [Module -> Phase]
  BY RegistryTypes
<1>2. CASE Register \/ \E i \in DOMAIN records : Unregister(i)
  <2>1. CASE Register
    <3>1. PICK o \in Module : phase' = [phase EXCEPT ![o] = "Registered"]
      BY <2>1 DEF Register, InsertRecord
    <3>2. QED
      BY <1>1, <3>1
  <2>2. CASE \E i \in DOMAIN records : Unregister(i)
    <3>1. PICK i \in DOMAIN records : Erase({records[i]})
      BY <2>2 DEF Unregister
    <3>2. phase'[m] = IF m \in {records[i]} THEN "Unregistered" ELSE phase[m]
      BY <3>1 DEF Erase
    <3>3. QED
      BY <3>2
  <2>3. QED
    BY <1>2, <2>1, <2>2
<1>3. CASE \E o \in Module : RefuseRecord(o)
  BY <1>3 DEF RefuseRecord
<1>4. CASE StartupAll \/ OrderNext \/ OrderDone
  BY <1>1, <1>4 DEF StartupAll, OrderNext, OrderDone, Fail, recordVars
<1>5. CASE PassReady \/ RefuseUnready \/ Begin
  BY <1>1, <1>5 DEF PassReady, RefuseUnready, Begin, Fail, recordVars
<1>6. CASE PreInitOk \/ StartupOk \/ PostInitOk
  BY <1>1, <1>6 DEF PreInitOk, StartupOk, PostInitOk, Advance
<1>7. CASE CallBackFails
  BY <1>1, <1>7 DEF CallBackFails, Fail
<1>8. CASE CallBackThrows \/ StartupReturn \/ ShutdownAll \/ ShutdownReturn
  BY <1>8 DEF CallBackThrows, StartupReturn, ShutdownAll, ShutdownReturn, recordVars
<1>9. CASE StopNext
  BY <1>1, <1>9 DEF StopNext
<1>10. CASE Destroy
  BY <1>1, <1>10 DEF Destroy, Erase
<1>11. CASE UNCHANGED vars
  BY <1>11 DEF vars
<1>12. QED
  BY <1>2, <1>3, <1>4, <1>5, <1>6, <1>7, <1>8, <1>9, <1>10, <1>11 DEF Next

\* If the modules were registered after what they depend on, shutdown_all, which goes
\* through the records backwards, has dealt with a module's dependents before it.
LEMMA DependentsDealtWith ==
  ASSUME RegistryInv, RegisteredInOrder, at \in {"stop", "dtor"}, cursor < Len(order),
         NEW d \in Registered, Entry \in DepsOf(d)
  PROVE  d \in Dealt
<1>1. /\ order = [i \in 1 .. Len(records) |-> records[(Len(records) - i) + 1]]
      /\ DOMAIN records = 1 .. Len(records) /\ Len(records) \in Nat /\ cursor \in Nat
  BY RegistryTypes DEF RegistryInv, StopSound, Reverse
<1>2. Len(order) = Len(records)
  BY <1>1, RegistryTypes
<1>3. Len(records) - cursor \in DOMAIN records /\ Entry = records[Len(records) - cursor]
  BY <1>1, <1>2 DEF Entry
<1>4. PICK q \in DOMAIN records : records[q] = d
  BY DEF Registered
<1>5. Len(records) - cursor < q
  BY <1>3, <1>4 DEF RegisteredInOrder
<1> DEFINE i == (Len(records) - q) + 1
<1>6. i \in 1 .. cursor /\ i \in 1 .. Len(records) /\ (Len(records) - i) + 1 = q
  BY <1>1, <1>2, <1>4, <1>5
<1>7. order[i] = d
  BY <1>1, <1>4, <1>6
<1>8. QED
  BY <1>6, <1>7 DEF Dealt

\* Modules registered after their dependencies are shut down before them.
THEOREM RegistryStopsInReverse ==
  ASSUME Careful
  PROVE  Spec => StopsInReverse
<1>1. ASSUME RegistryInv, [Next]_vars, RegisteredInOrder, NEW m \in Module, StopsWhileNeeded(m)
      PROVE  FALSE
  <2>1. /\ phase[m] # "Shutdown" /\ phase'[m] = "Shutdown"
        /\ \E d \in Registered : m \in DepsOf(d) /\ phase[d] = "Ready"
    BY <1>1 DEF StopsWhileNeeded, Live
  <2>2. StopNext /\ m = Entry
    BY <1>1, <2>1, OnlyStopNextStops
  <2>3. at \in {"stop", "dtor"} /\ cursor < Len(order)
    BY <2>2 DEF StopNext
  <2>4. PICK d \in Registered : m \in DepsOf(d) /\ phase[d] = "Ready"
    BY <2>1
  <2>5. d \in Dealt
    BY <1>1, <2>2, <2>3, <2>4, DependentsDealtWith
  <2>6. QED
    BY <1>1, <2>3, <2>4, <2>5 DEF RegistryInv, StopSound, Live
<1>2. RegistryInv /\ [Next]_vars
        => [RegisteredInOrder => \A m \in Module : ~StopsWhileNeeded(m)]_vars
  BY <1>1
<1>3. QED
  BY <1>2, RegistryInduction, PTL DEF Spec, StopsInReverse

\* When a module's turn comes, what it depends on has had its turn; so if that is not
\* ready it has failed.
LEMMA UnreadyHasFailed ==
  ASSUME RegistryInv, at = "next", cursor < Len(order), ~DepsReady(Entry)
  PROVE  \E d \in DepsOf(Entry) : phase[d] = "Failed"
<1>1. StartingUp /\ OrderSound /\ Entry \in Module
  BY EntryFacts DEF RegistryInv, StartingUp
<1>2. cursor + 1 \in 1 .. Len(order) /\ Entry = order[cursor + 1] /\ cursor \in Nat
  BY RegistryTypes DEF Entry
<1>3. /\ ~MissesDep(Entry)
      /\ \A d \in DepsOf(Entry) : \E j \in 1 .. ((cursor + 1) - 1) : order[j] = d
  BY <1>1, <1>2 DEF OrderSound
<1>4. \A m \in Dealt : phase[m] \in {"Ready", "Failed"}
  BY <1>1 DEF OrderSound
<1>5. PICK d \in DepsOf(Entry) : phase[d] # "Ready"
  BY <1>1, <1>3, DepsReadyMeans
<1>6. d \in Dealt
  BY <1>2, <1>3 DEF Dealt
<1>7. QED
  BY <1>4, <1>5, <1>6

\* Start-up gives a module up only because of its own call back, a dependency that is
\* absent, one that has failed, or a cycle of those that wait.
THEOREM RegistryFailuresHaveCause ==
  ASSUME Careful
  PROVE  Spec => FailureHasCause
<1> DEFINE Cause(m) ==
       \/ error'[m] = "missing dependency" /\ MissesDep(m)
       \/ error'[m] = "dependency not ready" /\ \E d \in DepsOf(m) : phase[d] = "Failed"
       \/ error'[m] = "dependency cycle" /\ Stuck(m)
       \/ error'[m] \in {"pre_init failed", "startup failed", "post_init failed"}
<1>1. ASSUME RegistryInv, [Next]_vars, NEW m \in Registered,
             phase[m] # "Failed", phase'[m] = "Failed"
      PROVE  Cause(m)
  <2>1. phase \in [Module -> Phase] /\ m \in Module
    BY <1>1, RegistryTypes
  <2>2. CASE StartupAll
    BY <1>1, <2>1, <2>2 DEF StartupAll, Fail
  <2>3. CASE OrderDone
    <3> DEFINE left == {o \in Registered : phase[o] # "Failed" /\ ~Contains(order, o)}
    <3>1. at = "order" /\ cursor = Len(order) /\ Fail(left, "dependency cycle")
      BY <2>3 DEF OrderDone
    <3>2. m \in left /\ error'[m] = "dependency cycle"
      <4> HIDE DEF left
      <4>1. QED
        BY <1>1, <2>1, <3>1 DEF Fail
    <3>3. \A w \in left : \E d \in DepsOf(w) : d \in left \/ phase[d] = "Failed"
      BY <1>1, <3>1, LeftWait
    <3>4. left \in SUBSET Registered
      OBVIOUS
    <3> HIDE DEF left
    <3>5. Stuck(m)
      BY <3>2, <3>3, <3>4 DEF Stuck
    <3>6. QED
      BY <3>2, <3>5
  <2>4. CASE RefuseUnready
    <3>1. at = "next" /\ cursor < Len(order) /\ ~DepsReady(Entry)
      BY <2>4 DEF RefuseUnready, Turn
    <3>2. m = Entry /\ error'[m] = "dependency not ready"
      BY <1>1, <2>1, <2>4 DEF RefuseUnready, Fail
    <3>3. QED
      BY <1>1, <3>1, <3>2, UnreadyHasFailed
  <2>5. CASE CallBackFails
    BY <1>1, <2>1, <2>5 DEF CallBackFails, Fail
  <2>6. CASE Register \/ \E i \in DOMAIN records : Unregister(i)
    BY <1>1, <2>1, <2>6 DEF Register, InsertRecord, Unregister, Erase
  <2>7. CASE OrderNext \/ PassReady \/ Begin \/ \E o \in Module : RefuseRecord(o)
    BY <1>1, <2>1, <2>7 DEF OrderNext, PassReady, Begin, RefuseRecord, recordVars
  <2>8. CASE PreInitOk \/ StartupOk \/ PostInitOk \/ StopNext
    BY <1>1, <2>1, <2>8 DEF PreInitOk, StartupOk, PostInitOk, Advance, StopNext
  <2>9. CASE CallBackThrows \/ StartupReturn \/ ShutdownAll \/ ShutdownReturn
    BY <1>1, <2>9 DEF CallBackThrows, StartupReturn, ShutdownAll, ShutdownReturn, recordVars
  <2>10. CASE Destroy
    BY <1>1, <2>1, <2>10 DEF Destroy, Erase
  <2>11. CASE UNCHANGED vars
    BY <1>1, <2>11 DEF vars
  <2>12. QED
    BY <1>1, <2>2, <2>3, <2>4, <2>5, <2>6, <2>7, <2>8, <2>9, <2>10, <2>11 DEF Next
<1>2. RegistryInv /\ [Next]_vars
        => [\A m \in Registered : phase[m] # "Failed" /\ phase'[m] = "Failed" => Cause(m)]_vars
  BY <1>1
<1>3. QED
  BY <1>2, RegistryInduction, PTL DEF Spec, FailureHasCause

-----------------------------------------------------------------------------
(* The registry implements the lifecycle of its modules *)

\* each step of the registry is a step of the lifecycle or changes nothing in it
LEMMA StepInLifecycle ==
  ASSUME Careful, RegistryInv, [Next]_vars
  PROVE  [Lifecycle!Next]_(Lifecycle!vars)
<1>1. /\ phase \in [Module -> Phase] /\ deps \in [Module -> SUBSET (Name \ {NoName})]
      /\ Registered \subseteq Module
  BY RegistryTypes
<1>2. /\ \A m \in Module : phase[m] = "Unregistered" <=> m \notin Registered
      /\ at \in {"order", "next"} => \A m \in Module : phase[m] \notin Starting
  BY DEF RegistryInv, PhaseTracked, OneStarting
<1>3. ASSUME UNCHANGED <<phase, deps>>
      PROVE  UNCHANGED Lifecycle!vars
  BY <1>3 DEF Lifecycle!vars
<1>4. ASSUME NEW S \in SUBSET Module, UNCHANGED deps,
             phase' = [m \in Module |-> IF m \in S THEN "Failed" ELSE phase[m]],
             \A m \in S : phase[m] \notin {"Unregistered", "Ready"}
      PROVE  Lifecycle!Next
  <2>1. \A m \in S : phase[m] \in {"Registered", "Shutdown", "Failed"} \cup Lifecycle!Starting
    BY <1>1, <1>4 DEF Phase, Lifecycle!Starting
  <2>2. Lifecycle!Fail(S)
    BY <1>4, <2>1 DEF Lifecycle!Fail
  <2>3. QED
    BY <2>2 DEF Lifecycle!Next
<1>5. CASE Register
  <2>1. PICK m \in Module : \E D \in SUBSET Name : InsertRecord(m, D)
    BY <1>5 DEF Register
  <2>2. PICK D \in SUBSET Name : InsertRecord(m, D)
    BY <2>1
  <2>3. /\ ~Present(NameOf[m])
        /\ phase' = [phase EXCEPT ![m] = "Registered"]
        /\ deps' = [deps EXCEPT ![m] = D \ {NoName}]
    BY <2>2 DEF InsertRecord, Accepts
  <2>4. \A d \in Module : NameOf[d] = NameOf[m] => phase[d] = "Unregistered"
    BY <1>2, <2>3 DEF Present
  <2>5. Lifecycle!Register(m)
    BY <2>3, <2>4 DEF Lifecycle!Register
  <2>6. QED
    BY <2>5 DEF Lifecycle!Next
<1>6. CASE \E i \in DOMAIN records : Unregister(i)
  <2>1. PICK i \in DOMAIN records : Erase({records[i]})
    BY <1>6 DEF Unregister
  <2>2. {records[i]} \in SUBSET Module
    BY <1>1 DEF Registered
  <2>3. Lifecycle!Drop({records[i]})
    BY <2>1 DEF Erase, Lifecycle!Drop
  <2>4. QED
    BY <2>2, <2>3 DEF Lifecycle!Next
<1>7. CASE Destroy
  <2>1. Lifecycle!Drop(Registered)
    BY <1>7 DEF Destroy, Erase, Lifecycle!Drop
  <2>2. QED
    BY <1>1, <2>1 DEF Lifecycle!Next
<1>8. CASE StartupAll
  <2> DEFINE S == {m \in Registered : MissesDep(m)}
  <2>1. /\ at = "idle" /\ UNCHANGED deps
        /\ phase' = [m \in Module |-> IF m \in S THEN "Failed" ELSE phase[m]]
    BY <1>8 DEF StartupAll, Fail
  <2>2. \A m \in S : phase[m] # "Ready"
    BY <2>1 DEF RegistryInv, ReadyNeedsReady
  <2>3. S \in SUBSET Module /\ \A m \in S : phase[m] # "Unregistered"
    BY <1>1, <1>2
  <2> HIDE DEF S
  <2>4. QED
    BY <1>4, <2>1, <2>2, <2>3
<1>9. CASE OrderDone
  <2> DEFINE S == {m \in Registered : phase[m] # "Failed" /\ ~Contains(order, m)}
  <2>1. /\ at = "order" /\ cursor = Len(order) /\ UNCHANGED deps
        /\ phase' = [m \in Module |-> IF m \in S THEN "Failed" ELSE phase[m]]
    BY <1>9 DEF OrderDone, Fail
  <2>2. \A m \in S : phase[m] # "Ready"
    BY <2>1, LeftNotReady
  <2>3. S \in SUBSET Module /\ \A m \in S : phase[m] # "Unregistered"
    BY <1>1, <1>2
  <2> HIDE DEF S
  <2>4. QED
    BY <1>4, <2>1, <2>2, <2>3
<1>10. CASE RefuseUnready
  <2>1. /\ at = "next" /\ cursor < Len(order) /\ phase[Entry] # "Ready" /\ UNCHANGED deps
        /\ phase' = [m \in Module |-> IF m \in {Entry} THEN "Failed" ELSE phase[m]]
    BY <1>10 DEF RefuseUnready, Turn, Fail
  <2>2. Entry \in Registered
    BY <2>1, EntryFacts
  <2>3. {Entry} \in SUBSET Module /\ \A m \in {Entry} : phase[m] \notin {"Unregistered", "Ready"}
    BY <1>1, <1>2, <2>1, <2>2
  <2>4. QED
    BY <1>4, <2>1, <2>3
<1>11. CASE CallBackFails
  <2>1. /\ at \in {"pre_init", "startup", "post_init"} /\ UNCHANGED deps
        /\ phase' = [m \in Module |-> IF m \in {Entry} THEN "Failed" ELSE phase[m]]
    BY <1>11 DEF CallBackFails, Fail
  <2>2. Entry \in Registered /\ phase[Entry] \in {"PreInit", "Init", "PostInit"}
    BY <2>1, EntryFacts
  <2>3. {Entry} \in SUBSET Module /\ \A m \in {Entry} : phase[m] \notin {"Unregistered", "Ready"}
    BY <1>1, <2>2
  <2>4. QED
    BY <1>4, <2>1, <2>3
<1>12. CASE Begin
  <2>1. /\ at = "next" /\ cursor < Len(order) /\ phase[Entry] # "Ready" /\ DepsReady(Entry)
        /\ UNCHANGED deps /\ phase' = [phase EXCEPT ![Entry] = "PreInit"]
    BY <1>12 DEF Begin, Turn
  <2>2. Entry \in Registered /\ phase[Entry] \notin Starting \cup {"Failed"}
    BY <2>1, EntryFacts
  <2>3. Entry \in Module /\ phase[Entry] \in {"Registered", "Shutdown"}
    BY <1>1, <1>2, <2>1, <2>2 DEF Phase, Starting
  <2>4. \A n \in deps[Entry] : \E d \in Module : NameOf[d] = n /\ phase[d] = "Ready"
    BY <1>1, <2>1 DEF DepsReady
  <2>5. Lifecycle!Begin(Entry)
    BY <2>1, <2>3, <2>4 DEF Lifecycle!Begin
  <2>6. QED
    BY <2>3, <2>5 DEF Lifecycle!Next
<1>13. CASE PreInitOk \/ StartupOk \/ PostInitOk
  <2>1. /\ at \in {"pre_init", "startup", "post_init"} /\ UNCHANGED deps
        /\ \/ at = "pre_init" /\ phase' = [phase EXCEPT ![Entry] = "Init"]
           \/ at = "startup" /\ phase' = [phase EXCEPT ![Entry] = "PostInit"]
           \/ at = "post_init" /\ phase' = [phase EXCEPT ![Entry] = "Ready"]
    BY <1>13 DEF PreInitOk, StartupOk, PostInitOk, Advance
  <2>2. /\ Entry \in Module
        /\ at = "pre_init" => phase[Entry] = "PreInit"
        /\ at = "startup" => phase[Entry] = "Init"
        /\ at = "post_init" => phase[Entry] = "PostInit"
    BY <2>1, EntryFacts
  <2>3. Lifecycle!Advance(Entry)
    BY <2>1, <2>2 DEF Lifecycle!Advance
  <2>4. QED
    BY <2>2, <2>3 DEF Lifecycle!Next
<1>14. CASE StopNext
  <2>1. /\ cursor < Len(order) /\ UNCHANGED deps
        /\ phase' = [phase EXCEPT ![Entry] =
                       IF phase[Entry] \in Live \cup {"PreInit"} THEN "Shutdown" ELSE @]
    BY <1>14 DEF StopNext
  <2>2. Entry \in Module
    BY <2>1, RegistryTypes DEF Entry
  <2>3. CASE phase[Entry] \in Live \cup {"PreInit"}
    <3>1. Lifecycle!Stop(Entry)
      BY <2>1, <2>3 DEF Lifecycle!Stop, Lifecycle!Starting, Live
    <3>2. QED
      BY <2>2, <3>1 DEF Lifecycle!Next
  <2>4. CASE phase[Entry] \notin Live \cup {"PreInit"}
    BY <1>1, <1>3, <2>1, <2>4
  <2>5. QED
    BY <2>3, <2>4
<1>15. CASE OrderNext \/ PassReady \/ \E o \in Module : RefuseRecord(o)
  BY <1>3, <1>15 DEF OrderNext, PassReady, RefuseRecord, recordVars
<1>16. CASE CallBackThrows \/ StartupReturn \/ ShutdownAll \/ ShutdownReturn
  BY <1>3, <1>16 DEF CallBackThrows, StartupReturn, ShutdownAll, ShutdownReturn, recordVars
<1>17. CASE UNCHANGED vars
  BY <1>3, <1>17 DEF vars
<1>18. QED
  BY <1>5, <1>6, <1>7, <1>8, <1>9, <1>10, <1>11, <1>12, <1>13, <1>14, <1>15, <1>16, <1>17
     DEF Next

\* Phases follow the lifecycle: a module begins over ready dependencies, goes through
\* pre_init, startup and post_init in turn, fails only on its way up, and leaves Ready
\* only by shutdown or unregister.
THEOREM RegistryKeepsLifecycle ==
  ASSUME Careful
  PROVE  Spec => KeepsLifecycle
<1>1. Init => Lifecycle!Init
  BY DEF Init, Lifecycle!Init
<1>2. RegistryInv /\ [Next]_vars => [Lifecycle!Next]_(Lifecycle!vars)
  BY StepInLifecycle
<1>3. QED
  BY <1>1, <1>2, RegistryInduction, PTL DEF Spec, KeepsLifecycle, Lifecycle!Spec
=============================================================================
