----------------------------- MODULE ServerLife ------------------------------
(***************************************************************************)
(* The life of the process, main.go: it loads its configuration, makes its *)
(* parts one after the other, serves, and on a signal runs its deferred    *)
(* calls, last one first.  A part that cannot be made ends the process with*)
(* Fatal, which runs no deferred call; a route that the mux refuses makes  *)
(* main panic, which runs them.                                            *)
(*                                                                         *)
(* Besides the main goroutine there are the one that listens, the cleaner  *)
(* and one per request; all end when the main goroutine returns.           *)
(***************************************************************************)
EXTENDS Configuration, FiniteSets, SequencesExt

CONSTANTS
    Requests,    \* the requests browsers may send
    BaseLayers,  \* the layers of a configuration, as they are deployed
    Edits,       \* changes to it: records [layer, name, value]
    MaxEdits     \* bound: how many of them are made

ASSUME LifeAssumption ==
    /\ DOMAIN BaseLayers = {"flags", "env", "file"}
    /\ \A k \in {"flags", "env", "file"} : IsLayer(BaseLayers[k])
    /\ \A e \in Edits : e.layer \in {"flags", "env", "file"} /\ e.name \in Name /\ e.value \in Texts
    /\ MaxEdits \in Nat

VARIABLES
    layers,     \* command line, environment and file
    edits,      \* how often they were changed
    phase,      \* how far the main goroutine is
    defers,     \* its deferred calls
    ran,        \* the deferred calls that ran
    exit,       \* how the process ended, "none" while it has not
    cancelled,  \* is the context of main cancelled?
    db,         \* the database connection
    cleaner,    \* the goroutine of expiredSessionsCleaner
    done,       \* is the manager's channel done closed?
    listener,   \* the goroutine of ListenAndServe
    req         \* req[r]: the goroutine that serves request r

procVars == <<phase, defers, ran, exit, cancelled>>
partVars == <<db, cleaner, done, listener, req>>
lifeVars == <<layers, edits, procVars, partVars>>

Calls == {"stop", "zlog.Sync", "tp.Shutdown", "CloseConnection", "WaitSessionCleaner"}
Phases == {"off", "LoadConfig", "NewLogger", "InitTracer", "NewSessionImpl",
           "NewConfiguration", "NewManager", "routes", "serve", "return", "panic"}

\* Every variable has its type.
TypeOK ==
    /\ \A k \in DOMAIN layers : IsLayer(layers[k])
    /\ edits \in 0 .. MaxEdits
    /\ phase \in Phases
    /\ defers \in Seq(Calls)
    /\ ran \in Seq(Calls)
    /\ exit \in {"none", "fatal", "killed", "returned", "panicked"}
    /\ cancelled \in BOOLEAN
    /\ db \in {"none", "open", "broken", "closed"}
    /\ cleaner \in {"none", "select", "purge", "ended"}
    /\ done \in BOOLEAN
    /\ listener \in {"none", "starting", "listening"}
    /\ req \in [Requests -> {"none", "accepted", "served", "no database"}]

Init ==
    /\ layers = BaseLayers
    /\ edits = 0
    /\ phase = "off"
    /\ defers = <<>>
    /\ ran = <<>>
    /\ exit = "none"
    /\ cancelled = FALSE
    /\ db = "none"
    /\ cleaner = "none"
    /\ done = FALSE
    /\ listener = "none"
    /\ req = [r \in Requests |-> "none"]

Running == phase # "off" /\ exit = "none"

\* The operator changes a layer before the process is launched.
Edit(e) ==
    /\ phase = "off"
    /\ edits < MaxEdits
    /\ edits' = edits + 1
    /\ layers' = [layers EXCEPT ![e.layer] =
                    [n \in DOMAIN @ \cup {e.name} |-> IF n = e.name THEN e.value ELSE @[n]]]
    /\ UNCHANGED <<procVars, partVars>>

\* The process begins to listen for signals.
Launch ==
    /\ phase = "off"
    /\ phase' = "LoadConfig"
    /\ defers' = <<"stop">>
    /\ UNCHANGED <<layers, edits, ran, exit, cancelled, partVars>>

-----------------------------------------------------------------------------
(* Startup.                                                                *)

conf == Unmarshal(layers)

\* The main goroutine has made a part and goes on to phase p; call is deferred.
Made(p, call) ==
    /\ phase' = p
    /\ defers' = defers \o call
    /\ UNCHANGED <<layers, edits, ran, exit, cancelled>>

\* log.Fatalf and zlog.Fatal: os.Exit.
Fatal ==
    /\ exit' = "fatal"
    /\ UNCHANGED <<layers, edits, phase, defers, ran, cancelled, partVars>>

At(p) == Running /\ phase = p

LoadsConfig ==
    /\ At("LoadConfig")
    /\ LoadConfig(layers)
    /\ Made("NewLogger", <<>>)
    /\ UNCHANGED partVars

\* The levels zap knows; NewLogger refuses any other.
Levels == {"", "debug", "info", "warn", "error", "dpanic", "panic", "fatal"}

MakesLogger ==
    /\ At("NewLogger")
    /\ conf["LOG_LEVEL"] \in Levels
    /\ Made("InitTracer", <<"zlog.Sync">>)
    /\ UNCHANGED partVars

MakesTracer ==
    /\ At("InitTracer")
    /\ Made("NewSessionImpl", <<"tp.Shutdown">>)
    /\ UNCHANGED partVars

\* Mutant of OpensDatabase: the deferred CloseConnection was forgotten.
OpensDatabaseOnly ==
    /\ At("NewSessionImpl")
    /\ Made("NewConfiguration", <<>>)
    /\ db' = "open"
    /\ UNCHANGED <<cleaner, done, listener, req>>

OpensDatabase ==
    /\ At("NewSessionImpl")
    /\ Made("NewConfiguration", <<"CloseConnection">>)
    /\ db' = "open"
    /\ UNCHANGED <<cleaner, done, listener, req>>

\* oidc.NewConfiguration asks the provider for its endpoints, with neither a
\* timeout nor the context of main: it returns when the provider answers.
DiscoversProvider ==
    /\ At("NewConfiguration")
    /\ \/ Made("NewManager", <<>>) /\ UNCHANGED partVars
       \/ Fatal

\* Mutant of MakesManager: its deferred call comes before the database's.
MakesManagerDeferringFirst ==
    /\ At("NewManager")
    /\ ~keyPairsAsSlice(conf).err
    /\ phase' = "routes"
    /\ defers' = Front(defers) \o <<"WaitSessionCleaner">> \o <<Last(defers)>>
    /\ cleaner' = "select"
    /\ UNCHANGED <<layers, edits, ran, exit, cancelled, db, done, listener, req>>

\* NewManager starts the cleaner.
MakesManager ==
    /\ At("NewManager")
    /\ ~keyPairsAsSlice(conf).err
    /\ Made("routes", <<"WaitSessionCleaner">>)
    /\ cleaner' = "select"
    /\ UNCHANGED <<db, done, listener, req>>

\* Mutant of StartsListener: the listener is started as soon as there is a log.
StartsListenerEarly ==
    /\ At("InitTracer")
    /\ listener = "none"
    /\ listener' = "starting"
    /\ UNCHANGED <<layers, edits, procVars, db, cleaner, done, req>>

\* The routes are set up, those of the proxies too, and the listener started.
StartsListener ==
    /\ At("routes")
    /\ Made("serve", <<>>)
    /\ listener' = "starting"
    /\ UNCHANGED <<db, cleaner, done, req>>

\* mux.Handle refuses the endpoint of a proxy, which is empty or there already.
RoutesPanic ==
    /\ At("routes")
    /\ conf["PROXY_CONFIG"] # ""
    /\ phase' = "panic"
    /\ UNCHANGED <<layers, edits, defers, ran, exit, cancelled, partVars>>

\* What the process does not check itself may fail at every step: the tracer,
\* the database, the keys of the cookie store, the file of the proxies.
StartupFails ==
    /\ \/ At("LoadConfig") /\ ~LoadConfig(layers)
       \/ At("NewLogger") /\ conf["LOG_LEVEL"] \notin Levels
       \/ At("InitTracer")
       \/ At("NewSessionImpl")
       \/ At("NewManager")
       \/ At("routes") /\ conf["PROXY_CONFIG"] # ""
    /\ Fatal

-----------------------------------------------------------------------------
(* Serving.                                                                *)

Listens ==
    /\ Running
    /\ listener = "starting"
    /\ listener' = "listening"
    /\ UNCHANGED <<layers, edits, procVars, db, cleaner, done, req>>

\* ListenAndServe returns an error: the port is taken, the listener breaks.
ListenFails ==
    /\ Running
    /\ listener # "none"
    /\ Fatal

\* Nobody tells the server to stop: it accepts requests until the process ends.
Accept(r) ==
    /\ Running
    /\ listener = "listening"
    /\ req[r] = "none"
    /\ req' = [req EXCEPT ![r] = "accepted"]
    /\ UNCHANGED <<layers, edits, procVars, db, cleaner, done, listener>>

\* Mutant of Serve: a handler does not survive a closed database.
ServePanics(r) ==
    /\ Running
    /\ req[r] = "accepted"
    /\ req' = [req EXCEPT ![r] = IF db = "open" THEN "served" ELSE "panic"]
    /\ UNCHANGED <<layers, edits, procVars, db, cleaner, done, listener>>

\* A handler needs the database for its session: without a connection, it
\* answers 500.  Errors of a statement on a live connection are in PostgresStore.
Serve(r) ==
    /\ Running
    /\ req[r] = "accepted"
    /\ req' = [req EXCEPT ![r] = IF db = "open" THEN "served" ELSE "no database"]
    /\ UNCHANGED <<layers, edits, procVars, db, cleaner, done, listener>>

\* The one connection to PostgreSQL is closed for good: a statement was
\* cancelled, as its browser gave up or the signal came during Purge(ctx), or
\* the server has gone.  Nothing connects again.
LoseConnection ==
    /\ Running
    /\ conf["DB_TYPE"] = "postgresql"
    /\ db = "open"
    /\ db' = "broken"
    /\ UNCHANGED <<layers, edits, procVars, cleaner, done, listener, req>>

\* The ticker fires: Purge begins.
CleanerTicks ==
    /\ Running
    /\ cleaner = "select"
    /\ cleaner' = "purge"
    /\ UNCHANGED <<layers, edits, procVars, db, done, listener, req>>

\* Purge returns, with an error perhaps, which is logged.
CleanerPurged ==
    /\ Running
    /\ cleaner = "purge"
    /\ cleaner' = "select"
    /\ UNCHANGED <<layers, edits, procVars, db, done, listener, req>>


\* The select sees ctx.Done; if the ticker has fired too it may choose either.
CleanerEnds ==
    /\ Running
    /\ cleaner = "select"
    /\ cancelled
    /\ cleaner' = "ended"
    /\ done' = TRUE
    /\ UNCHANGED <<layers, edits, procVars, db, listener, req>>

-----------------------------------------------------------------------------
(* Shutdown.                                                               *)

\* main calls stop as it returns; a panic runs only the deferred one.
Stopped == phase = "return" \/ (phase = "panic" /\ defers = <<>>)

\* SIGINT or SIGTERM: NotifyContext cancels the context; once stop has been
\* called the signal ends the process.
Signal ==
    /\ Running
    /\ IF Stopped
       THEN exit' = "killed" /\ UNCHANGED cancelled
       ELSE cancelled' = TRUE /\ UNCHANGED exit
    /\ UNCHANGED <<layers, edits, phase, defers, ran, partVars>>

\* main gets past <-ctx.Done() and calls stop.
Shutdown ==
    /\ At("serve")
    /\ cancelled
    /\ phase' = "return"
    /\ UNCHANGED <<layers, edits, defers, ran, exit, cancelled, partVars>>

\* The deferred call that was made last; WaitSessionCleaner waits for done.
RunDeferred ==
    /\ At("return") \/ At("panic")
    /\ defers # <<>>
    /\ Last(defers) = "WaitSessionCleaner" => done
    /\ defers' = Front(defers)
    /\ ran' = Append(ran, Last(defers))
    /\ db' = IF Last(defers) = "CloseConnection" THEN "closed" ELSE db
    /\ UNCHANGED <<layers, edits, phase, exit, cancelled, cleaner, done, listener, req>>

Return ==
    /\ At("return") \/ At("panic")
    /\ defers = <<>>
    /\ exit' = IF phase = "panic" THEN "panicked" ELSE "returned"
    /\ UNCHANGED <<layers, edits, phase, defers, ran, cancelled, partVars>>

-----------------------------------------------------------------------------

MainStep ==
    \/ LoadsConfig
    \/ MakesLogger
    \/ MakesTracer
    \/ OpensDatabase
    \/ MakesManager
    \/ StartsListener
    \/ RoutesPanic
    \/ StartupFails
    \/ Shutdown
    \/ RunDeferred
    \/ Return

Next ==
    \/ \E e \in Edits : Edit(e)
    \/ Launch
    \/ MainStep
    \/ DiscoversProvider
    \/ Listens
    \/ ListenFails
    \/ \E r \in Requests : Accept(r)
    \/ \E r \in Requests : Serve(r)
    \/ LoseConnection
    \/ CleanerTicks
    \/ CleanerPurged
    \/ CleanerEnds
    \/ Signal

Spec == Init /\ [][Next]_lifeVars

\* The goroutines run; only the provider decides when discovery ends, which is
\* why DiscoversProvider is not among the steps that must be taken.  Ticks are ten
\* minutes apart: a cleaner whose context is cancelled gets to see it, which needs
\* strong fairness here as the model does not know how long ten minutes are.
FairSpec ==
    /\ Spec
    /\ WF_lifeVars(MainStep)
    /\ WF_lifeVars(CleanerPurged)
    /\ SF_lifeVars(CleanerEnds)

-----------------------------------------------------------------------------
(* Properties.                                                             *)

\* The cleaner never purges before there is a connection, nor on one that
\* shutdown has closed.
CleanerHasDatabase == Running /\ cleaner = "purge" => db \notin {"none", "closed"}

\* When main ends, by returning or by a panic over its routes, everything it
\* made has been released: the cleaner first, then the database it works on,
\* then the tracer, then the log all of them use.
ReleasedInOrder ==
    exit \in {"returned", "panicked"} =>
        /\ ran = <<"WaitSessionCleaner", "CloseConnection", "tp.Shutdown", "zlog.Sync", "stop">>
        /\ cleaner = "ended"

\* Until main returns no request meets a database that is not there yet or that
\* shutdown has closed: it finds the connection open, or, on PostgreSQL only,
\* lost.  Afterwards it may, as nobody shuts the server down.
ServedUntilReturn ==
    \A r \in Requests : req[r] = "no database" =>
        phase = "return" \/ (conf["DB_TYPE"] = "postgresql" /\ db = "broken")


=============================================================================
