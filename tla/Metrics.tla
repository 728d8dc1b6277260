------------------------------ MODULE Metrics -------------------------------
(***************************************************************************)
(* The registry of kmetrics/registry.go and the bundles of handles that    *)
(* knet/metrics.go fetches from it.  Counter, Gauge and Histogram look a   *)
(* name up under the read lock and, if it is not there, look again and     *)
(* create it under the write lock; Prometheus panics at a second           *)
(* registration of a name.  A handle is named after the goroutine that     *)
(* created it.  Histograms are counted by their observations.              *)
(***************************************************************************)
EXTENDS Integers, Sequences

CONSTANTS
    Host,       \* the goroutine that runs NewServer or NewClient
    Fetchers    \* the other goroutines that fetch metrics

VARIABLES
    known,      \* the registry's maps: per name a handle, as a set of at most one
    promReg,    \* the handles registered with Prometheus, likewise
    want,       \* per goroutine: the names still to be fetched
    missing,    \* per goroutine: the name was not found under the read lock
    held,       \* per goroutine and name: the handle fetched, as a set
    panicked,   \* goroutines in which MustRegister has panicked
    value,      \* the values Prometheus gathers
    counted     \* history: what the program has added to each name

metricsVars == <<known, promReg, want, missing, held, panicked, value, counted>>

handlerMetrics   == <<"panics", "duration", "queueFull">>
connMetrics      == <<"active", "closed", "bytesIn", "bytesOut", "msgsRecv", "msgsSent">>
heartbeatMetrics == <<"missed">>
serverMetrics    == <<"total", "active", "closed", "rejected">>

Names == {"panics", "duration", "queueFull", "active", "closed", "bytesIn", "bytesOut",
          "msgsRecv", "msgsSent", "missed", "total", "rejected"}

\* NewServer and NewClient have fetched the bundle before anybody else can.
MetricsInit(bundle) ==
    LET made == {bundle[i] : i \in DOMAIN bundle}
        first == [n \in Names |-> IF n \in made THEN {Host} ELSE {}]
    IN  /\ known = first /\ promReg = first
        /\ want = [f \in Fetchers |-> <<>>]
        /\ missing = {}
        /\ held = [f \in Fetchers \cup {Host} |->
                      IF f = Host THEN first ELSE [n \in Names |-> {}]]
        /\ panicked = {}
        /\ value = [n \in Names |-> 0] /\ counted = [n \in Names |-> 0]

-----------------------------------------------------------------------------
Fetched(f) == want[f] = <<>>

Take(f, n, handle) ==
    /\ held' = [held EXCEPT ![f][n] = handle]
    /\ want' = [want EXCEPT ![f] = Tail(want[f])]

\* The look-up under the read lock.
Lookup(f) ==
    /\ ~Fetched(f) /\ f \notin missing \cup panicked
    /\ LET n == Head(want[f]) IN
          IF known[n] # {}
          THEN Take(f, n, known[n]) /\ UNCHANGED missing
          ELSE missing' = missing \cup {f} /\ UNCHANGED <<held, want>>
    /\ UNCHANGED <<known, promReg, panicked, value, counted>>

\* Mutant: the write lock is taken without a second look.
FoundAgainNever(n) == FALSE

FoundAgain(n) == known[n] # {}

\* promReg.MustRegister, and the entry in the registry's map.
MustRegister(f, n) ==
    IF promReg[n] = {}
    THEN /\ promReg' = [promReg EXCEPT ![n] = {f}]
         /\ known' = [known EXCEPT ![n] = {f}]
         /\ Take(f, n, {f})
         /\ UNCHANGED panicked
    ELSE panicked' = panicked \cup {f} /\ UNCHANGED <<known, promReg, held, want>>

\* The second look and the creation under the write lock.
Create(f) ==
    /\ f \in missing
    /\ missing' = missing \ {f}
    /\ LET n == Head(want[f]) IN
          \/ /\ FoundAgain(n)
             /\ Take(f, n, known[n])
             /\ UNCHANGED <<known, promReg, panicked>>
          \/ ~FoundAgain(n) /\ MustRegister(f, n)
    /\ UNCHANGED <<value, counted>>

\* Add, Inc, Dec and Observe through a bundle of handles; delta says by how much.
\* Prometheus only gathers what goes through a registered handle.
Count(handles, delta) ==
    LET add(s, ns) == [n \in Names |-> IF n \in ns THEN s[n] + delta[n] ELSE s[n]]
    IN  /\ counted' = add(counted, DOMAIN delta)
        /\ value' = add(value, {n \in DOMAIN delta : handles[n] = promReg[n]})

\* What Snapshot reports, name by name.
Snapshot == [n \in {m \in Names : promReg[m] # {}} |-> value[n]]

\* The registry is idempotent, as its comment says ("requesting the same name
\* twice returns the existing metric"), for any number of goroutines that ask
\* for a name at once: no registration panics, and whatever the program counts,
\* through whichever handle, is in the next Snapshot.
NothingLost ==
    /\ panicked = {}
    /\ \A n \in DOMAIN Snapshot : Snapshot[n] = counted[n]

-----------------------------------------------------------------------------
(* What makes it so.                                                       *)

Handles == SUBSET (Fetchers \cup {Host})

MetricsTypeOK ==
    /\ known \in [Names -> Handles] /\ promReg \in [Names -> Handles]
    /\ want \in [Fetchers -> Seq(Names)]
    /\ missing \subseteq Fetchers /\ panicked \subseteq Fetchers
    /\ held \in [Fetchers \cup {Host} -> [Names -> Handles]]
    /\ value \in [Names -> Int] /\ counted \in [Names -> Int]

\* The registry knows what is registered with Prometheus; a handle, once held, is
\* the registered one; and everything was counted through such handles.
RegistryInv ==
    /\ known = promReg
    /\ panicked = {}
    /\ \A f \in missing : ~Fetched(f)
    /\ \A f \in Fetchers \cup {Host}, n \in Names :
          held[f][n] # {} => held[f][n] = promReg[n]
    /\ value = counted
=============================================================================
