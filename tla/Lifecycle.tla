----------------------------- MODULE Lifecycle -----------------------------
(***************************************************************************)
(* How an instance of the API starts and stops: the configuration file and *)
(* its validation (load-yaml.config, validateConfig), the constructors     *)
(* that read it, bootstrap() in main.ts, the bucket that StorageService    *)
(* sees to, the readiness probe (HealthController, ShutdownService) and    *)
(* the shutdown a signal starts.  The balancer that asks for readiness and *)
(* routes by the answer is the orchestrator main.ts speaks of.             *)
(***************************************************************************)
EXTENDS Integers, FiniteSets

CONSTANTS Instances,   \* instances that may run at the same time
          Requests,    \* bound: requests and socket messages under way at the same time
          Configs,     \* bound: what the configuration file may hold when an instance starts
          Grace,       \* SHUTDOWN_GRACE_PERIOD_MS, in ticks
          Hard,        \* SHUTDOWN_HARD_TIMEOUT_MS, in ticks
          ProbeEvery,  \* ticks between two probes of an instance that takes traffic
          MaxStarts    \* bound: starts of an instance, all together

VARIABLES inst,        \* the instances
          bucket,      \* the storage bucket: whether it exists, and whether its objects are public
          up,          \* the databases that are connected
          view,        \* what the balancer knows of each instance, and for how long
          req,         \* requests and socket messages
          starts       \* how often an instance was started

lifecycleVars == <<inst, bucket, up, view, req, starts>>

-----------------------------------------------------------------------------
(* The configuration.  Of a section it only matters whether it is there    *)
(* and whether its own fields pass their decorators.                       *)

Required == {"app", "cors", "mongodb", "redis", "jwt", "otp", "encryption", "storage"}
Section  == Required \cup {"sentry", "metrics"}

RootConfig == [exists: BOOLEAN, production: BOOLEAN, sections: SUBSET Section, faulty: SUBSET Section,
               unknown: BOOLEAN, sameSecrets: BOOLEAN, devFixedCode: BOOLEAN,
               keys: SUBSET Nat, currentVersion: Nat]

ASSUME LifecycleAssumption == /\ Configs \subseteq RootConfig
                              /\ ProbeEvery \in Nat \ {0} /\ Grace \in Nat /\ Hard \in Nat
                              /\ ProbeEvery < Grace /\ MaxStarts \in Nat /\ Instances # {}

\* cors is a section of app; a section that is not there is not validated.
Sections(c) == IF "app" \in c.sections THEN c.sections ELSE c.sections \ {"cors"}

\* Seeded fault: the shared secret is let through.
ValidatesFieldsOnly(c) == /\ c.exists /\ ~c.unknown
                          /\ Sections(c) \cap c.faulty = {}
                          /\ ~("otp" \in c.sections /\ c.devFixedCode /\ c.production)

\* The fields of the sections that are there, no unknown ones, and the rules across fields.
ValidateConfig(c) == /\ c.exists /\ ~c.unknown
                     /\ Sections(c) \cap c.faulty = {}
                     /\ ~("jwt" \in c.sections /\ c.sameSecrets)
                     /\ ~("otp" \in c.sections /\ c.devFixedCode /\ c.production)

\* What the factories and constructors get or throw for.
Constructs(c) == /\ {"mongodb", "redis", "jwt", "otp", "encryption", "storage"} \subseteq c.sections
                 /\ c.currentVersion \in c.keys

\* What bootstrap() gets or throws for before it listens.
Bootstraps(c) == {"cors", "app"} \subseteq Sections(c)

-----------------------------------------------------------------------------
(* State.                                                                  *)

Booting == {"construct", "bootstrap", "headBucket", "createBucket", "putPolicy", "listen"}
Phase   == Booting \cup {"down", "stuck", "listening", "serving", "grace", "closing"}
End     == {"none", "failed", "killed", "graceful", "timeout"}

Nothing == [exists |-> FALSE, production |-> FALSE, sections |-> {}, faulty |-> {}, unknown |-> FALSE,
            sameSecrets |-> FALSE, devFixedCode |-> FALSE, keys |-> {}, currentVersion |-> 0]
Down(end) == [pc |-> "down", conf |-> Nothing, since |-> 0, end |-> end]

LifecycleTypeOK ==
  /\ inst \in [Instances -> [pc: Phase, conf: Configs \cup {Nothing}, since: 0..(Grace + Hard), end: End]]
  /\ bucket \in [exists: BOOLEAN, public: BOOLEAN]
  /\ up \subseteq {"mongo", "redis"}
  /\ view \in [Instances -> [ready: BOOLEAN, age: 0..ProbeEvery]]
  /\ req \in [Requests -> [at: Instances, kind: {"http", "socket"},
                           state: {"idle", "taken", "answered", "refused", "unreachable", "cut", "lost"}]]
  /\ starts \in 0..MaxStarts

LifecycleInit ==
  /\ inst = [i \in Instances |-> Down("none")]
  /\ bucket = [exists |-> FALSE, public |-> FALSE]
  /\ up \in {{}, {"mongo", "redis"}}
  /\ view = [i \in Instances |-> [ready |-> FALSE, age |-> 0]]
  /\ req \in [Requests -> [at: {CHOOSE i \in Instances : TRUE}, kind: {"http"}, state: {"idle"}]]
  /\ starts = 0

Become(i, pc) == inst' = [inst EXCEPT ![i].pc = pc]

\* The process is gone, and with it what it was doing: its requests get no answer.
Gone(i, end) == /\ inst' = [inst EXCEPT ![i] = Down(end)]
                /\ req' = [r \in Requests |->
                     IF req[r].state = "taken" /\ req[r].at = i
                       THEN [req[r] EXCEPT !.state = IF end = "graceful" THEN "cut" ELSE "lost"]
                       ELSE req[r]]

-----------------------------------------------------------------------------
(* Starting.                                                               *)

Local == UNCHANGED <<bucket, up, view, req, starts>>

\* The file is read and validated; a file that does not pass ends the process.
Start(i) == /\ inst[i].pc = "down" /\ starts < MaxStarts
            /\ \E c \in Configs :
                 inst' = [inst EXCEPT ![i] =
                   IF ValidateConfig(c) THEN [Down("none") EXCEPT !.pc = "construct", !.conf = c]
                                        ELSE Down("failed")]
            /\ starts' = starts + 1
            /\ UNCHANGED <<bucket, up, view, req>>

\* What is thrown while the application is created ends the process.  What bootstrap()
\* throws afterwards is an unhandled rejection, which ends it too, unless Sentry, that has
\* been initialised by then, has taken it over: then the process stays without listening.
BootFails(i) == \/ /\ inst[i].pc \in Booting
                   /\ inst' = [inst EXCEPT ![i] = Down("failed")]
                \/ /\ inst[i].pc \in Booting \ {"construct"} /\ "sentry" \in inst[i].conf.sections
                   /\ Become(i, "stuck")

Failing(i) == BootFails(i) /\ Local

\* NestFactory.create: the modules, which wait for MongoDB but not for Redis.
Construct(i) == /\ inst[i].pc = "construct"
                /\ IF Constructs(inst[i].conf) THEN "mongo" \in up /\ Become(i, "bootstrap")
                                               ELSE BootFails(i)
                /\ Local

Bootstrap(i) == /\ inst[i].pc = "bootstrap"
                /\ IF Bootstraps(inst[i].conf) THEN Become(i, "headBucket") ELSE BootFails(i)
                /\ Local

\* Seeded fault: a bucket that was there is taken as it is.
HeadBucketIsEnough(i) == /\ inst[i].pc = "headBucket"
                         /\ \/ bucket.exists /\ Become(i, "listen")
                            \/ Become(i, "createBucket")
                         /\ Local

\* app.listen first runs onModuleInit.  Any error of HeadBucket counts as "no bucket".
HeadBucket(i) == /\ inst[i].pc = "headBucket"
                 /\ \/ bucket.exists /\ Become(i, "putPolicy")
                    \/ Become(i, "createBucket")
                 /\ Local

\* A bucket that is there already is an error.
CreateBucket(i) == /\ inst[i].pc = "createBucket"
                   /\ IF bucket.exists
                        THEN BootFails(i) /\ UNCHANGED bucket
                        ELSE bucket' = [bucket EXCEPT !.exists = TRUE] /\ Become(i, "putPolicy")
                   /\ UNCHANGED <<up, view, req, starts>>

PutBucketPolicy(i) == /\ inst[i].pc = "putPolicy"
                      /\ bucket' = [bucket EXCEPT !.public = TRUE]
                      /\ Become(i, "listen")
                      /\ UNCHANGED <<up, view, req, starts>>

Listen(i) == inst[i].pc = "listen" /\ Become(i, "listening") /\ Local

\* The handlers of the signals come after listen has been awaited.
OnSignals(i) == inst[i].pc = "listening" /\ Become(i, "serving") /\ Local

-----------------------------------------------------------------------------
(* Stopping.                                                               *)

\* SIGTERM or SIGINT.  A second one finds shuttingDown set and changes nothing.
Shutdown(i) == /\ inst[i].pc = "serving"
               /\ inst' = [inst EXCEPT ![i].pc = "grace", ![i].since = 0]
               /\ Local

\* The grace period is over: app.close() drops the sockets and takes no new connections.
Close(i) == /\ inst[i].pc = "grace" /\ inst[i].since = Grace
            /\ Become(i, "closing")
            /\ Local

\* Seeded fault: close() is not awaited.
ExitAtOnce(i) == /\ inst[i].pc = "closing"
                 /\ Gone(i, "graceful")
                 /\ UNCHANGED <<bucket, up, view, starts>>

\* app.close() has waited for the requests, though not for the handlers of socket messages.
Exit(i) == /\ inst[i].pc = "closing"
           /\ \A r \in Requests : ~(req[r].at = i /\ req[r].kind = "http" /\ req[r].state = "taken")
           /\ Gone(i, "graceful")
           /\ UNCHANGED <<bucket, up, view, starts>>

\* Seeded fault: the timer only guards the grace period.
HardTimeoutInGrace(i) == /\ inst[i].pc = "grace" /\ inst[i].since = Grace + Hard
                         /\ Gone(i, "timeout")
                         /\ UNCHANGED <<bucket, up, view, starts>>

HardTimeout(i) == /\ inst[i].pc \in {"grace", "closing"} /\ inst[i].since = Grace + Hard
                  /\ Gone(i, "timeout")
                  /\ UNCHANGED <<bucket, up, view, starts>>

\* A crash, a SIGKILL, a close() that throws, a signal before there are handlers.
Kill(i) == /\ inst[i].pc # "down"
           /\ Gone(i, "killed")
           /\ UNCHANGED <<bucket, up, view, starts>>

-----------------------------------------------------------------------------
(* Traffic.                                                                *)

Accepts(i) == inst[i].pc \in {"listening", "serving", "grace"}

\* GET /health/ready answers 200.
Ready(i) == Accepts(i) /\ inst[i].pc # "grace" /\ up = {"mongo", "redis"}

Probe(i) == /\ view[i].ready \/ Ready(i)
            /\ view' = [view EXCEPT ![i] = [ready |-> Ready(i), age |-> 0]]
            /\ UNCHANGED <<inst, bucket, up, req, starts>>

\* The balancer sends to an instance it holds for ready.
Route(r, i) == /\ req[r].state # "taken" /\ view[i].ready
               /\ \E kind \in {"http", "socket"} :
                    req' = [req EXCEPT ![r] = [at |-> i, kind |-> kind,
                      state |-> IF Accepts(i) THEN "taken"
                                ELSE IF inst[i].pc = "closing" \/ inst[i].end \in {"graceful", "timeout"}
                                  THEN "refused" ELSE "unreachable"]]
               /\ UNCHANGED <<inst, bucket, up, view, starts>>

Respond(r) == /\ req[r].state = "taken"
              /\ req' = [req EXCEPT ![r].state = "answered"]
              /\ UNCHANGED <<inst, bucket, up, view, starts>>

Connection(db) == /\ up' = IF db \in up THEN up \ {db} ELSE up \cup {db}
                  /\ UNCHANGED <<inst, bucket, view, req, starts>>

Draining(i) == inst[i].pc \in {"grace", "closing"}

\* Seeded fault: time goes on past the hard timeout.
TickPastDue == /\ inst' = [i \in Instances |-> IF Draining(i) THEN [inst[i] EXCEPT !.since = @ + 1] ELSE inst[i]]
               /\ UNCHANGED <<bucket, up, view, req, starts>>

\* Timers that are due run before time goes on.
Tick == /\ \A i \in Instances : /\ ~(inst[i].pc = "grace" /\ inst[i].since >= Grace)
                                /\ ~(Draining(i) /\ inst[i].since = Grace + Hard)
                                /\ ~(view[i].ready /\ view[i].age = ProbeEvery)
        /\ inst' = [i \in Instances |-> IF Draining(i) THEN [inst[i] EXCEPT !.since = @ + 1] ELSE inst[i]]
        /\ view' = [i \in Instances |-> IF view[i].ready THEN [view[i] EXCEPT !.age = @ + 1] ELSE view[i]]
        /\ UNCHANGED <<bucket, up, req, starts>>

LifecycleNext == \/ \E i \in Instances : \/ Start(i) \/ Failing(i) \/ Construct(i) \/ Bootstrap(i)
                                         \/ HeadBucket(i) \/ CreateBucket(i) \/ PutBucketPolicy(i)
                                         \/ Listen(i) \/ OnSignals(i)
                                         \/ Shutdown(i) \/ Close(i) \/ Exit(i) \/ HardTimeout(i) \/ Kill(i)
                                         \/ Probe(i)
                                         \/ \E r \in Requests : Route(r, i)
                 \/ \E r \in Requests : Respond(r)
                 \/ \E db \in {"mongo", "redis"} : Connection(db)
                 \/ Tick

\* Time passes, probes are made and timers fire.  Nothing is asked of close(), of the
\* requests or of the operator.
Fairness == /\ WF_lifecycleVars(Tick)
            /\ \A i \in Instances : /\ WF_lifecycleVars(Probe(i)) /\ WF_lifecycleVars(Close(i))
                                    /\ WF_lifecycleVars(HardTimeout(i))

LifecycleSpec == LifecycleInit /\ [][LifecycleNext]_lifecycleVars /\ Fairness

-----------------------------------------------------------------------------
(* Properties                                                              *)

\* An instance that takes requests has every setting it needs, valid, two different
\* secrets, the key it encrypts with, and no fixed code in production: what validateConfig
\* lets pass because the section is missing stops the start later on.
ServesOnlyWhole ==
  \A i \in Instances :
    LET c == inst[i].conf
    IN  Accepts(i) => /\ Required \subseteq c.sections /\ c.sections \cap c.faulty = {}
                      /\ ~c.sameSecrets /\ c.currentVersion \in c.keys
                      /\ ~(c.production /\ c.devFixedCode)

\* No instance takes uploads before the bucket is there and its photos can be read, even
\* when several start at once on a new storage and one dies half-way (ensureBucket).
PublicBeforeTraffic == \A i \in Instances : Accepts(i) => bucket.exists /\ bucket.public

\* A balancer that probes within the grace period never sends a request to an instance
\* that has stopped listening, and one that ends gracefully has answered every HTTP request
\* it took (main.ts: the grace period, app.close()).
NoneTurnedAway == \A r \in Requests : /\ req[r].state # "refused"
                                      /\ req[r].state = "cut" => req[r].kind = "socket"

\* An instance that has begun to shut down ends, even when a request never does and
\* app.close() hangs (SHUTDOWN_HARD_TIMEOUT_MS).
StopsOnceTold == \A i \in Instances : inst[i].pc = "grace" ~> inst[i].pc = "down"
=============================================================================
