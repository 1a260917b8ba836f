--------------------------- MODULE ModuleRegistry ---------------------------
(***************************************************************************)
(* ModuleRegistry (module_interface.cpp:380-692): registration, start-up   *)
(* in dependency order, shutdown, unregister and destruction, called from  *)
(* one thread.  The registry calls back into modules, which succeed, fail  *)
(* or throw; each call back is one action.                                 *)
(*                                                                         *)
(* A record is kept as its place in records plus one entry in each of      *)
(* phase, error and deps; a module has at most one record because          *)
(* insert_record admits a name once.  The library handle of a loaded       *)
(* module is closed right after the instance is destroyed and is left out. *)
(***************************************************************************)
EXTENDS Naturals, Sequences, FiniteSets, SequencesExt

CONSTANTS
  Module,       \* the module objects the client creates
  Name,         \* what name() may return
  NoName,       \* an empty name, which insert_record refuses
  NameOf,       \* the name of each module
  KindOf,       \* how each is handed over: raw pointer, unique_ptr, library
  Outcomes,     \* what pre_init, startup and post_init may do
  Careful       \* whether the client unregisters no module another depends on and,
                \* after an exception, calls shutdown_all before startup_all

ASSUME RegistryAssumption ==
  /\ NoName \in Name
  /\ NameOf \in [Module -> Name]
  /\ KindOf \in [Module -> {"raw", "owned", "shared"}]
  /\ Outcomes \subseteq {"ok", "fail", "throw"}
  /\ Careful \in BOOLEAN

VARIABLES
  records,      \* records_, as the sequence of the modules registered
  phase,        \* Record::phase, "Unregistered" for a module without record
  error,        \* Record::error
  deps,         \* Record::deps
  at,           \* the call under way and how far it is
  order,        \* compute_order's ready/order vector, or the order of shutdown
  cursor,       \* how many entries of order the loop has dealt with
  running,      \* history: startup() was called and shutdown() not since
  strays,       \* history: shutdown() was called though startup() had not been
  given,        \* history: the instances whose ownership the client gave away
  destroyed     \* history: the instances the registry has destroyed

recordVars == <<records, phase, error, deps>>
vars == <<records, phase, error, deps, at, order, cursor, running, strays, given,
          destroyed>>

Phase == {"Unregistered", "Registered", "PreInit", "Init", "PostInit", "Ready",
          "Failed", "Shutdown"}
Live == {"Init", "PostInit", "Ready"}
Owned == {m \in Module : KindOf[m] \in {"owned", "shared"}}

Registered == {records[i] : i \in DOMAIN records}
Present(n) == \E m \in Registered : NameOf[m] = n
DepsOf(m) == {d \in Registered : NameOf[d] \in deps[m]}
MissesDep(m) == \E n \in deps[m] : ~Present(n)
\* Mutant: a dependency that is registered will do.
DepsReady_Registered(m) == \A n \in deps[m] : Present(n)

DepsReady(m) == \A n \in deps[m] :
                  \E d \in Registered : NameOf[d] = n /\ phase[d] = "Ready"

Init ==
  /\ records = <<>>
  /\ phase = [m \in Module |-> "Unregistered"]
  /\ error = [m \in Module |-> ""]
  /\ deps = [m \in Module |-> {}]
  /\ at = "idle" /\ order = <<>> /\ cursor = 0
  /\ running = {} /\ strays = {}
  /\ given = {}
  /\ destroyed = {}

Loop(where, sequence) == at' = where /\ order' = sequence /\ cursor' = 0
NextEntry == at' = "next" /\ cursor' = cursor + 1 /\ UNCHANGED order

\* shutdown() of the modules of S
ShutDown(S) == running' = running \ S /\ strays' = strays \cup (S \ running)

-----------------------------------------------------------------------------
(* register_module and load_shared: insert_record.                         *)

\* The client hands over a module whose ownership it has not given away.
HandsOver(m) ==
  /\ at = "idle"
  /\ m \notin given
  /\ given' = given \cup ({m} \cap Owned)

\* Mutant: a name that is taken is registered again.
Accepts_NoDuplicateTest(m) == NameOf[m] # NoName

Accepts(m) == NameOf[m] # NoName /\ ~Present(NameOf[m])

InsertRecord(m, D) ==
  /\ HandsOver(m)
  /\ Accepts(m)
  /\ records' = Append(records, m)
  /\ phase' = [phase EXCEPT ![m] = "Registered"]
  /\ error' = [error EXCEPT ![m] = ""]
  /\ deps' = [deps EXCEPT ![m] = D \ {NoName}]
  /\ strays' = strays \ {m}
  /\ UNCHANGED <<at, order, cursor, running, destroyed>>

\* Mutant: a refused module is not deleted.
RefuseRecord_NotDeleted(m) ==
  /\ HandsOver(m)
  /\ ~Accepts(m)
  /\ m \in Owned
  /\ UNCHANGED <<records, phase, error, deps, at, order, cursor, running, strays,
                 destroyed>>

\* a module without a name or with one that is taken; an owned one is deleted
RefuseRecord(m) ==
  /\ HandsOver(m)
  /\ ~Accepts(m)
  /\ m \in Owned
  /\ destroyed' = destroyed \cup {m}
  /\ UNCHANGED <<records, phase, error, deps, at, order, cursor, running, strays>>

\* A loaded module has no dependencies.  Dependencies on itself, the cycles of
\* one module, are not enumerated.
Register ==
  \E m \in Module : \E D \in SUBSET (Name \ {NameOf[m]}) :
    (KindOf[m] = "shared" => D = {}) /\ InsertRecord(m, D)

-----------------------------------------------------------------------------
(* unregister and the destructor.                                          *)

\* what is left of the records of S; an owned instance is destroyed
Erase(S) ==
  /\ phase' = [m \in Module |-> IF m \in S THEN "Unregistered" ELSE phase[m]]
  /\ error' = [m \in Module |-> IF m \in S THEN "" ELSE error[m]]
  /\ deps' = [m \in Module |-> IF m \in S THEN {} ELSE deps[m]]
  /\ destroyed' = destroyed \cup (S \cap Owned)

Unregister(i) ==
  LET m == records[i] IN
  /\ at = "idle"
  /\ Careful => \A d \in Registered \ {m} : NameOf[m] \notin deps[d]
  /\ ShutDown({r \in {m} : phase[r] \in Live \cup {"PreInit"}})
  /\ records' = RemoveAt(records, i)
  /\ Erase({m})
  /\ UNCHANGED <<at, order, cursor, given>>

\* after shutdown_all, the destructor destroys the instances it owns
Destroy ==
  /\ at = "dtor"
  /\ cursor = Len(order)
  /\ records' = <<>>
  /\ Erase(Registered)
  /\ Loop("gone", <<>>)
  /\ UNCHANGED <<running, strays, given>>

-----------------------------------------------------------------------------
(* startup_all: compute_order ...                                          *)

\* the modules of S in the order of their registration
Listed(S) ==
  LET upTo[i \in 0 .. Len(records)] ==
        IF i = 0 THEN <<>>
        ELSE IF records[i] \in S THEN Append(upTo[i - 1], records[i])
        ELSE upTo[i - 1]
  IN upTo[Len(records)]

Fail(S, why) ==
  /\ phase' = [m \in Module |-> IF m \in S THEN "Failed" ELSE phase[m]]
  /\ error' = [m \in Module |-> IF m \in S THEN why ELSE error[m]]

StartupAll ==
  /\ at = "idle"
  /\ Careful => \A m \in Module : phase[m] \notin {"PreInit", "Init", "PostInit"}
  /\ Fail({m \in Registered : MissesDep(m)}, "missing dependency")
  /\ Loop("order", Listed({m \in Registered :
                     DepsOf(m) = {} /\ ~MissesDep(m) /\ phase[m] # "Failed"}))
  /\ UNCHANGED <<records, deps, running, strays, given, destroyed>>

\* Mutant: a module is freed by the first of its dependencies, not the last.
OrderNext_FirstFrees ==
  /\ at = "order"
  /\ cursor < Len(order)
  /\ order' = order \o Listed({m \in Registered :
                                 /\ order[cursor + 1] \in DepsOf(m)
                                 /\ ~Contains(order, m)
                                 /\ phase[m] # "Failed"})
  /\ cursor' = cursor + 1
  /\ UNCHANGED <<recordVars, at, running, strays, given, destroyed>>

\* the next entry of ready frees the modules it was the last dependency of
OrderNext ==
  /\ at = "order"
  /\ cursor < Len(order)
  /\ order' = order \o Listed({m \in Registered :
                                 /\ order[cursor + 1] \in DepsOf(m)
                                 /\ DepsOf(m) \subseteq {order[i] : i \in 1 .. (cursor + 1)}
                                 /\ phase[m] # "Failed"})
  /\ cursor' = cursor + 1
  /\ UNCHANGED <<recordVars, at, running, strays, given, destroyed>>

OrderDone ==
  /\ at = "order"
  /\ cursor = Len(order)
  /\ Fail({m \in Registered : phase[m] # "Failed" /\ ~Contains(order, m)},
          "dependency cycle")
  /\ at' = "next" /\ cursor' = 0
  /\ UNCHANGED <<records, deps, order, running, strays, given, destroyed>>

-----------------------------------------------------------------------------
(* ... and the loop over the order.  (An entry of the order is never       *)
(* Failed when its turn comes, so the test at line 581 finds nothing.)     *)

Entry == order[cursor + 1]
Turn == at = "next" /\ cursor < Len(order)

PassReady ==
  /\ Turn
  /\ phase[Entry] = "Ready"
  /\ NextEntry
  /\ UNCHANGED <<recordVars, running, strays, given, destroyed>>

RefuseUnready ==
  /\ Turn
  /\ phase[Entry] # "Ready"
  /\ ~DepsReady(Entry)
  /\ Fail({Entry}, "dependency not ready")
  /\ NextEntry
  /\ UNCHANGED <<records, deps, running, strays, given, destroyed>>

\* Mutant: a ready module is started again.
Begin_ReadyToo ==
  /\ Turn
  /\ DepsReady(Entry)
  /\ phase' = [phase EXCEPT ![Entry] = "PreInit"]
  /\ error' = [error EXCEPT ![Entry] = ""]
  /\ at' = "pre_init"
  /\ UNCHANGED <<records, deps, order, cursor, running, strays, given, destroyed>>

Begin ==
  /\ Turn
  /\ phase[Entry] # "Ready"
  /\ DepsReady(Entry)
  /\ phase' = [phase EXCEPT ![Entry] = "PreInit"]
  /\ error' = [error EXCEPT ![Entry] = ""]
  /\ at' = "pre_init"
  /\ UNCHANGED <<records, deps, order, cursor, running, strays, given, destroyed>>

\* a call back that returns true takes the module to its next phase
Advance(to, where) ==
  /\ "ok" \in Outcomes
  /\ phase' = [phase EXCEPT ![Entry] = to]
  /\ at' = where
  /\ UNCHANGED <<records, error, deps, order, cursor, given, destroyed>>

PreInitOk ==
  /\ at = "pre_init"
  /\ Advance("Init", "startup")
  /\ running' = running \cup {Entry} /\ UNCHANGED strays

StartupOk ==
  /\ at = "startup"
  /\ Advance("PostInit", "post_init")
  /\ UNCHANGED <<running, strays>>

PostInitOk ==
  /\ at = "post_init"
  /\ phase' = [phase EXCEPT ![Entry] = "Ready"]
  /\ "ok" \in Outcomes
  /\ NextEntry
  /\ UNCHANGED <<records, error, deps, running, strays, given, destroyed>>

\* Mutant: a failed startup() or post_init() is not followed by shutdown().
CallBackFails_NoShutdown ==
  /\ "fail" \in Outcomes
  /\ \/ at = "pre_init" /\ Fail({Entry}, "pre_init failed")
     \/ at = "startup" /\ Fail({Entry}, "startup failed")
     \/ at = "post_init" /\ Fail({Entry}, "post_init failed")
  /\ NextEntry
  /\ UNCHANGED <<records, deps, running, strays, given, destroyed>>

\* one that returns false fails the module, after shutdown() if it was started
CallBackFails ==
  /\ "fail" \in Outcomes
  /\ \/ at = "pre_init" /\ Fail({Entry}, "pre_init failed") /\ ShutDown({})
     \/ /\ at = "startup" /\ Fail({Entry}, "startup failed")
        /\ ShutDown({Entry})
     \/ /\ at = "post_init" /\ Fail({Entry}, "post_init failed")
        /\ ShutDown({Entry})
  /\ NextEntry
  /\ UNCHANGED <<records, deps, given, destroyed>>

\* one that throws leaves startup_all with the phase as it is
CallBackThrows ==
  /\ "throw" \in Outcomes
  /\ at \in {"pre_init", "startup", "post_init"}
  /\ Loop("idle", <<>>)
  /\ UNCHANGED <<recordVars, running, strays, given, destroyed>>

StartupReturn ==
  /\ at = "next"
  /\ cursor = Len(order)
  /\ Loop("idle", <<>>)
  /\ UNCHANGED <<recordVars, running, strays, given, destroyed>>

-----------------------------------------------------------------------------
(* shutdown_all, called by the client or by the destructor.                *)

\* Mutant: modules are shut down in the order of their registration.
ShutdownAll_Forward ==
  /\ at = "idle"
  /\ \E where \in {"stop", "dtor"} : Loop(where, records)
  /\ UNCHANGED <<recordVars, running, strays, given, destroyed>>

ShutdownAll ==
  /\ at = "idle"
  /\ \E where \in {"stop", "dtor"} : Loop(where, Reverse(records))
  /\ UNCHANGED <<recordVars, running, strays, given, destroyed>>

\* Mutant: a module whose start-up was cut short is passed over.
StopNext_ReadyOnly ==
  /\ at \in {"stop", "dtor"}
  /\ cursor < Len(order)
  /\ phase' = [phase EXCEPT ![Entry] = IF @ = "Ready" THEN "Shutdown" ELSE @]
  /\ ShutDown({m \in {Entry} : phase[m] = "Ready"})
  /\ cursor' = cursor + 1
  /\ UNCHANGED <<records, error, deps, at, order, given, destroyed>>

\* Mutant: shutdown_all calls shutdown() as unregister does, in PreInit too.
StopNext_PreInitToo ==
  /\ at \in {"stop", "dtor"}
  /\ cursor < Len(order)
  /\ phase' = [phase EXCEPT ![Entry] =
                 IF phase[Entry] \in Live \cup {"PreInit"} THEN "Shutdown" ELSE @]
  /\ ShutDown({m \in {Entry} : phase[m] \in Live \cup {"PreInit"}})
  /\ cursor' = cursor + 1
  /\ UNCHANGED <<records, error, deps, at, order, given, destroyed>>

StopNext ==
  /\ at \in {"stop", "dtor"}
  /\ cursor < Len(order)
  /\ phase' = [phase EXCEPT ![Entry] =
                 IF phase[Entry] \in Live \cup {"PreInit"} THEN "Shutdown" ELSE @]
  /\ ShutDown({m \in {Entry} : phase[m] \in Live})
  /\ cursor' = cursor + 1
  /\ UNCHANGED <<records, error, deps, at, order, given, destroyed>>

ShutdownReturn ==
  /\ at = "stop"
  /\ cursor = Len(order)
  /\ Loop("idle", <<>>)
  /\ UNCHANGED <<recordVars, running, strays, given, destroyed>>

Next ==
  \/ Register
  \/ \E m \in Module : RefuseRecord(m)
  \/ \E i \in DOMAIN records : Unregister(i)
  \/ StartupAll \/ OrderNext \/ OrderDone
  \/ PassReady \/ RefuseUnready \/ Begin
  \/ PreInitOk \/ StartupOk \/ PostInitOk \/ CallBackFails \/ CallBackThrows
  \/ StartupReturn
  \/ ShutdownAll \/ StopNext \/ ShutdownReturn \/ Destroy

Spec == Init /\ [][Next]_vars

-----------------------------------------------------------------------------
TypeOK ==
  /\ records \in Seq(Module)
  /\ phase \in [Module -> Phase]
  /\ DOMAIN error = Module
  /\ deps \in [Module -> SUBSET (Name \ {NoName})]
  /\ at \in {"idle", "order", "next", "pre_init", "startup", "post_init",
            "stop", "dtor", "gone"}
  /\ order \in Seq(Module)
  /\ cursor \in 0 .. Len(order)
  /\ running \subseteq Module /\ strays \subseteq Module
  /\ given \subseteq Owned
  /\ destroyed \subseteq Owned

\* find_record is unambiguous: no two records share a name, whatever is
\* registered, refused and unregistered.
OneRecordPerName ==
  \A i, j \in DOMAIN records : NameOf[records[i]] = NameOf[records[j]] => i = j

\* An instance whose ownership was handed over is destroyed as soon as it has no
\* record, refused ones included, and not before; a raw one never is.  So no
\* record holds a destroyed module and none is leaked.
OwnershipExact == destroyed = given \ Registered

\* The phase tells which modules run: those whose startup() was called and shutdown()
\* not since are the ones with a record in Init, PostInit or Ready, which startup_all,
\* shutdown_all and unregister shut down.  So none is started twice or left running.
RunningTracked ==
  \A m \in Module : m \in running <=> m \in Registered /\ phase[m] \in Live

\* shutdown() is called on a module once for each startup(), whichever of the three
\* calls it, failures and exceptions included; but unregister, unlike shutdown_all,
\* calls it too on one that was never started, when its pre_init threw.
ShutdownOwed ==
  [][\A m \in strays' \ strays : phase[m] = "PreInit" /\ m \notin Registered']_vars

\* While nothing is being shut down, the dependencies of a ready module are
\* registered and ready, through failures, restarts and later registrations.
ReadyNeedsReady ==
  at \notin {"stop", "dtor"} =>
    \A m \in Registered : phase[m] = "Ready" =>
      ~MissesDep(m) /\ \A d \in DepsOf(m) : phase[d] = "Ready"

\* m waits for modules that wait in a cycle, or for one that has failed
Stuck(m) ==
  \E W \in SUBSET Registered :
    m \in W /\ \A w \in W : \E d \in DepsOf(w) : d \in W \/ phase[d] = "Failed"

\* Failures are isolated: start-up gives a module up only because of its own
\* call back, a dependency that is absent, one that has failed, or a cycle.
\* In particular the order never reaches a module before its dependencies.
FailureHasCause ==
  [][\A m \in Registered : phase[m] # "Failed" /\ phase'[m] = "Failed" =>
       \/ error'[m] = "missing dependency" /\ MissesDep(m)
       \/ error'[m] = "dependency not ready" /\ \E d \in DepsOf(m) : phase[d] = "Failed"
       \/ error'[m] = "dependency cycle" /\ Stuck(m)
       \/ error'[m] \in {"pre_init failed", "startup failed", "post_init failed"}]_vars

\* When startup_all has gone through its order, every module is ready or failed.
StartupDecides ==
  at = "next" /\ cursor = Len(order) =>
    \A m \in Registered : phase[m] \in {"Ready", "Failed"}

\* Modules registered after their dependencies are shut down before them.
RegisteredInOrder ==
  \A i, j \in DOMAIN records : records[i] \in DepsOf(records[j]) => i < j

StopsWhileNeeded(m) ==
  /\ phase[m] \in Live /\ phase'[m] = "Shutdown"
  /\ \E d \in Registered : m \in DepsOf(d) /\ phase[d] = "Ready"
StopsInReverse ==
  [][RegisteredInOrder => \A m \in Module : ~StopsWhileNeeded(m)]_vars

\* README: "shutdown reverse, dependency order".
StopsDependentsFirst == [][\A m \in Module : ~StopsWhileNeeded(m)]_vars

\* When shutdown_all is done, no registered module is still running, one that
\* threw half way through its start-up included.
ShutdownCompletes ==
  at \in {"stop", "dtor"} /\ cursor = Len(order) =>
    \A m \in Registered : m \notin running /\ phase[m] \notin Live \cup {"PreInit"}

\* What the calls of the registry leave behind.
CallsComplete == TypeOK /\ StartupDecides /\ ShutdownCompletes

-----------------------------------------------------------------------------
(* The registry keeps the promise of ModuleLifecycle.                      *)

Lifecycle == INSTANCE ModuleLifecycle WITH needs <- deps

\* Phases follow the lifecycle: a module begins over ready dependencies, goes
\* through pre_init, startup and post_init in turn, fails only on its way up,
\* and leaves Ready only by shutdown or unregister.
KeepsLifecycle == Lifecycle!Spec
=============================================================================
