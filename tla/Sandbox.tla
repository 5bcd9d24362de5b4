------------------------------- MODULE Sandbox -------------------------------
(***************************************************************************)
(* Sandboxes as their user sees them, one per attempt: a temporary         *)
(* directory whose commands are child processes ("local", and the same     *)
(* under Landlock and seccomp), or a container of an OCI daemon            *)
(* ("container").  The daemon and the operating system are external; what  *)
(* they do is nondeterministic.                                            *)
(***************************************************************************)
EXTENDS Naturals, FiniteSets

CONSTANTS
  Attempt,   \* sandboxes are named after the attempt that spawns them
  Backends,  \* SandboxSpec::isolation
  Limit      \* is there a timeout for commands: req.timeout or limits.timeout?

ASSUME SandboxAssumption == Backends \subseteq {"none", "local", "container"} /\ Limit \in BOOLEAN

VARIABLES
  backend,
  ctr,       \* containers: "none", "creating", "created", "starting", "running", "gone"
  owned,     \* those a ContainerSandbox was built for
  removals,  \* containers whose Drop has spawned a removal
  refused,   \* those whose last removal the daemon refused
  child,     \* the command in progress: "none", "alive", "dead"
  heir,      \* has it left a process that holds its pipes?
  left,      \* attempts that left a process running unattended
  runtime    \* is the async runtime still there?

sandbox == <<backend, ctr, owned, removals, refused, child, heir, left, runtime>>

SandboxInit ==
  /\ backend \in Backends
  /\ ctr = [a \in Attempt |-> "none"] /\ owned = {} /\ removals = {} /\ refused = {}
  /\ child = "none" /\ heir = FALSE /\ left = {} /\ runtime = TRUE

SetCtr(a, s) == ctr' = [ctr EXCEPT ![a] = s]

(* What a command leaves behind when it is no longer waited for: a local   *)
(* child is killed (kill_on_drop), but not what it started; one in a       *)
(* container runs on.                                                      *)
Leaves == heir \/ (child = "alive" /\ backend = "container")
Abandon(a) ==
  /\ left' = IF Leaves THEN left \cup {a} ELSE left
  /\ child' = "none" /\ heir' = FALSE

-----------------------------------------------------------------------------
(* ContainerSandbox::spawn asks the daemon for a container, then for its   *)
(* start, and only then builds what Drop removes.  An error, or a future   *)
(* dropped before, leaves the container to nobody, running or about to.    *)
RequestCreate(a) ==
  /\ backend = "container" /\ ctr[a] = "none" /\ SetCtr(a, "creating")
  /\ UNCHANGED <<backend, owned, removals, refused, child, heir, left, runtime>>

RequestStart(a) ==
  /\ ctr[a] = "created" /\ SetCtr(a, "starting")
  /\ UNCHANGED <<backend, owned, removals, refused, child, heir, left, runtime>>

Own(a) ==
  /\ ctr[a] = "running" /\ owned' = owned \cup {a}
  /\ UNCHANGED <<backend, ctr, removals, refused, child, heir, left, runtime>>

(* The daemon carries out what it was asked, waited for or not.            *)
StartContainer(a) ==
  /\ \/ ctr[a] = "creating" /\ SetCtr(a, "created")
     \/ ctr[a] = "starting" /\ SetCtr(a, "running")
  /\ UNCHANGED <<backend, owned, removals, refused, child, heir, left, runtime>>

(* Fault: the sandbox is forgotten.                                        *)
DropForgets(a) ==
  /\ Abandon(a)
  /\ UNCHANGED <<backend, ctr, owned, removals, refused, runtime>>

(* Dropping a sandbox, with the future of the command it runs: the removal *)
(* of a container is spawned.                                              *)
Drop(a) ==
  /\ removals' = IF backend = "container" /\ runtime THEN removals \cup {a} ELSE removals
  /\ Abandon(a)
  /\ UNCHANGED <<backend, ctr, owned, refused, runtime>>

(* remove_container with force kills what runs in it; so does a second     *)
(* removal find nothing.                                                   *)
Removed(a) == SetCtr(a, "gone") /\ left' = left \ {a}

(* teardown consumes the sandbox, so Drop follows it, whether the daemon   *)
(* removed the container or not.                                           *)
Teardown(a, ok) ==
  /\ removals' = IF backend = "container" THEN removals \cup {a} ELSE removals
  /\ IF backend = "container" /\ ok THEN Removed(a) ELSE UNCHANGED <<ctr, left>>
  /\ UNCHANGED <<backend, owned, refused, child, heir, runtime>>

(* The spawned removal; its error is ignored.                              *)
Removal(a, ok) ==
  /\ a \in removals /\ removals' = removals \ {a}
  /\ IF ok THEN Removed(a) /\ UNCHANGED refused
     ELSE refused' = refused \cup {a} /\ UNCHANGED <<ctr, left>>
  /\ UNCHANGED <<backend, owned, child, heir, runtime>>

(* main returns: tasks that were only spawned are dropped with the runtime.*)
EndRuntime ==
  /\ runtime /\ runtime' = FALSE /\ removals' = {}
  /\ UNCHANGED <<backend, ctr, owned, refused, child, heir, left>>

-----------------------------------------------------------------------------
(* Subprocess::run and ContainerSandbox::exec.  The output is read to its  *)
(* end beside the wait, so a command that writes a lot never blocks; the   *)
(* end only comes once nobody holds the pipes any more.                    *)
SpawnCommand ==
  /\ child = "none" /\ child' = "alive" /\ heir' = FALSE
  /\ UNCHANGED <<backend, ctr, owned, removals, refused, left, runtime>>

ChildExits ==
  /\ child = "alive" /\ child' = "dead" /\ heir' \in BOOLEAN
  /\ UNCHANGED <<backend, ctr, owned, removals, refused, left, runtime>>
HeirExits ==
  /\ heir /\ heir' = FALSE
  /\ UNCHANGED <<backend, ctr, owned, removals, refused, child, left, runtime>>

CommandEnds ==
  /\ child = "dead" /\ ~heir /\ child' = "none"
  /\ UNCHANGED <<backend, ctr, owned, removals, refused, heir, left, runtime>>

(* Fault: only the wait for the child is limited.                          *)
ChildTimesOut(a) ==
  /\ child = "alive" /\ Limit /\ Abandon(a)
  /\ UNCHANGED <<backend, ctr, owned, removals, refused, runtime>>

(* Exit code 124.                                                          *)
CommandTimesOut(a) ==
  /\ child # "none" /\ Limit /\ Abandon(a)
  /\ UNCHANGED <<backend, ctr, owned, removals, refused, runtime>>

(* `?` on a pipe, on the wait or on the daemon's stream.                   *)
CommandFails(a) ==
  /\ child # "none" /\ Abandon(a)
  /\ UNCHANGED <<backend, ctr, owned, removals, refused, runtime>>
=============================================================================
