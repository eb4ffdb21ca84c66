----------------------------- MODULE KeysEvents -----------------------------
(***************************************************************************)
(* The tier-1 broadcasts of the key store (keys/service.go): PutTier1 and  *)
(* DeleteTier1 tell the Core bus when they replaced or removed a           *)
(* credential, so that a consumer that keeps plaintexts drops its copy.    *)
(*                                                                         *)
(* PutTier1 looks whether the file is there before it writes it, and both  *)
(* methods broadcast after the change, with no lock held in between: the   *)
(* three are separate steps here, around the methods of KeysMasters.       *)
(*                                                                         *)
(* The consumer is outside the repository.  It is taken to be a good one:  *)
(* it keeps what GetTier1 gives it, and it does not take a broadcast       *)
(* between the two.                                                        *)
(***************************************************************************)
EXTENDS KeysMasters

VARIABLES
  core,      \* whether SetCore has wired the bus
  was,       \* what HasTier1 told the PutTier1 of each process
  event,     \* the broadcast that the method of each process has yet to make
  plain,     \* the consumer's copy of each credential
  raced      \* history: credentials replaced by a PutTier1 that had found none

eventVars == <<core, was, event, plain, raced>>

Events == [kind : {"replaced", "deleted"}, ref : Creds]
Event(kind, ref) == [kind |-> kind, ref |-> ref]

ASSUME EventsAssumption == None \notin Events

EventsInit ==
  /\ Init
  /\ core = FALSE
  /\ was = [p \in Procs |-> "unknown"]
  /\ event = [p \in Procs |-> None]
  /\ plain = [ref \in Creds |-> None]
  /\ raced = {}
-----------------------------------------------------------------------------
\* The host wires the bus; what consumers there are live on it.
SetCore ==
  /\ ~core /\ core' = TRUE
  /\ UNCHANGED <<vars, was, event, plain, raced>>

HasTier1(ref) == new[ref] # None

\* The snapshot of HasTier1, once the master is resolved
StatTier1(p) ==
  /\ At(p, "PutTier1", "blob") /\ was[p] = "unknown"
  /\ was' = [was EXCEPT ![p] = IF HasTier1(frame[p].ref) THEN "present" ELSE "absent"]
  /\ UNCHANGED <<vars, core, event, plain, raced>>

\* Replaces with a mistake: only a deletion is worth a broadcast
ReplacesNothing(p) == FALSE

Replaces(p) == was[p] = "present"

PutTier1Writes(p) ==
  /\ At(p, "PutTier1", "blob") /\ was[p] # "unknown"
  /\ PutBlob(p)
  /\ LET ref == frame[p].ref IN
     /\ event' = [event EXCEPT ![p] = IF Replaces(p) THEN Event("replaced", ref) ELSE None]
     /\ raced' = IF was[p] = "absent" /\ HasTier1(ref) THEN raced \cup {ref} ELSE raced
  /\ was' = [was EXCEPT ![p] = "unknown"]
  /\ UNCHANGED <<core, plain>>

\* A second DeleteTier1 of the same file fails to remove it, and is silent.
DeleteTier1Removes(p) ==
  /\ At(p, "DeleteTier1", "unlink")
  /\ Unlink(p)
  /\ LET ref == frame[p].ref IN
       event' = [event EXCEPT ![p] = IF new'[ref] # new[ref] THEN Event("deleted", ref) ELSE None]
  /\ UNCHANGED <<core, was, plain, raced>>

\* broadcastTier1Change: the consumer drops its copy, if there is a bus
BroadcastTier1Change(p) ==
  /\ event[p] # None
  /\ IF core THEN /\ plain' = [plain EXCEPT ![event[p].ref] = None]
                  /\ raced' = raced \ {event[p].ref}
             ELSE UNCHANGED <<plain, raced>>
  /\ event' = [event EXCEPT ![p] = None]
  /\ UNCHANGED <<vars, core, was>>

ConsumerGets(p) ==
  /\ At(p, "GetTier1", "blob")
  /\ GetBlob(p)
  /\ plain' = IF core THEN [plain EXCEPT ![frame[p].ref] = new[frame[p].ref].key] ELSE plain
  /\ UNCHANGED <<core, was, event, raced>>

\* Any other step of the methods
Speaks(p) == \/ At(p, "PutTier1", "blob") \/ At(p, "GetTier1", "blob")
             \/ At(p, "DeleteTier1", "unlink")

Silently(p) ==
  /\ ~Speaks(p) /\ Step(p)
  /\ UNCHANGED eventVars

BlobFailsSilently(p) ==
  /\ Speaks(p) /\ BlobFails(p)
  /\ was' = [was EXCEPT ![p] = "unknown"]
  /\ UNCHANGED <<core, event, plain, raced>>

\* The consumer's copies are lost with the program.
RestartAll ==
  /\ \A p \in Procs : event[p] = None \/ MayCrash
  /\ Restart
  /\ core' = FALSE
  /\ was' = [p \in Procs |-> "unknown"]
  /\ event' = [p \in Procs |-> None]
  /\ plain' = [ref \in Creds |-> None]
  /\ raced' = {}

EventsNext ==
  \/ SetCore
  \/ Unlock /\ UNCHANGED eventVars
  \/ RestartAll
  \/ \E p \in Procs :
       \/ BroadcastTier1Change(p)
       \/ /\ event[p] = None
          /\ \/ StatTier1(p) \/ PutTier1Writes(p) \/ DeleteTier1Removes(p)
             \/ ConsumerGets(p) \/ BlobFailsSilently(p) \/ Silently(p)

EventsSpec == EventsInit /\ [][EventsNext]_<<vars, eventVars>>
-----------------------------------------------------------------------------
\* "Without this, the deleted credential would survive in process memory until
\* ServiceShutdown" (service.go:231-233): once the method that replaced or
\* deleted a credential has returned, the consumer has no other copy than what is
\* on disk, in whatever order the broadcasts of concurrent writers arrive.  The
\* exception, until the next broadcast, is a credential that two PutTier1 calls
\* wrote although both had found none: neither of them broadcasts.
NoStaleCredential ==
  \A ref \in Creds :
    /\ plain[ref] # None /\ ref \notin raced
    /\ \A p \in Procs : event[p] # None => event[p].ref # ref
    => new[ref] # None /\ new[ref].key = plain[ref]
=============================================================================
