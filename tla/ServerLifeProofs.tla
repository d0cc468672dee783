--------------------------- MODULE ServerLifeProofs ---------------------------
(* Theorems about ServerLife, for every configuration and any number of       *)
(* changes to it, and any number of requests.                                 *)
EXTENDS ServerLife, SequenceTheorems, TLAPS

-----------------------------------------------------------------------------
(* The deferred calls of main, as they are made and as they are run.       *)

D1 == <<"stop">>
D2 == Append(D1, "zlog.Sync")
D3 == Append(D2, "tp.Shutdown")
D4 == Append(D3, "CloseConnection")
D5 == Append(D4, "WaitSessionCleaner")

R1 == <<"WaitSessionCleaner">>
R2 == Append(R1, "CloseConnection")
R3 == Append(R2, "tp.Shutdown")
R4 == Append(R3, "zlog.Sync")
R5 == Append(R4, "stop")

\* The call deferred last is the one at the end, and what is before it stays.
LEMMA FrontLast ==
    ASSUME NEW S, NEW s \in Seq(S), NEW e \in S
    PROVE  /\ Append(s, e) \in Seq(S) /\ Append(s, e) # <<>>
           /\ Last(Append(s, e)) = e /\ Front(Append(s, e)) = s
           /\ s \o <<e>> = Append(s, e)
  <1>1. /\ Append(s, e) \in Seq(S) /\ Len(Append(s, e)) = Len(s) + 1 /\ Len(s) \in Nat
        /\ \A i \in 1 .. Len(s) : Append(s, e)[i] = s[i]
        /\ Append(s, e)[Len(s) + 1] = e
    OBVIOUS
  <1>2. Last(Append(s, e)) = e
    BY <1>1 DEF Last
  <1>3. Front(Append(s, e)) = s
    <2>1. Front(Append(s, e)) = SubSeq(Append(s, e), 1, Len(s))
      BY <1>1 DEF Front
    <2>2. /\ SubSeq(Append(s, e), 1, Len(s)) \in Seq(S)
          /\ Len(SubSeq(Append(s, e), 1, Len(s))) = Len(s)
          /\ \A i \in 1 .. Len(s) : SubSeq(Append(s, e), 1, Len(s))[i] = s[i]
      BY <1>1
    <2> QED BY <2>1, <2>2
  <1>4. s \o <<e>> = Append(s, e)
    OBVIOUS
  <1>5. Append(s, e) # <<>>
    BY <1>1
  <1> QED BY <1>1, <1>2, <1>3, <1>4, <1>5

\* They are sequences of calls.
LEMMA DeferredType ==
    /\ <<>> \in Seq(Calls)
    /\ D1 \in Seq(Calls) /\ D2 \in Seq(Calls) /\ D3 \in Seq(Calls)
    /\ D4 \in Seq(Calls) /\ D5 \in Seq(Calls)
    /\ R1 \in Seq(Calls) /\ R2 \in Seq(Calls) /\ R3 \in Seq(Calls)
    /\ R4 \in Seq(Calls) /\ R5 \in Seq(Calls)
  <1>1. {"stop", "zlog.Sync", "tp.Shutdown", "CloseConnection", "WaitSessionCleaner"} = Calls
    BY DEF Calls
  <1>2. <<>> \in Seq(Calls) /\ D1 \in Seq(Calls) /\ R1 \in Seq(Calls)
    BY <1>1 DEF D1, R1
  <1>3. \A s \in Seq(Calls), e \in Calls : Append(s, e) \in Seq(Calls)
    BY FrontLast
  <1>4. D2 \in Seq(Calls) /\ R2 \in Seq(Calls)
    BY <1>1, <1>2, <1>3 DEF D2, R2
  <1>5. D3 \in Seq(Calls) /\ R3 \in Seq(Calls)
    BY <1>1, <1>3, <1>4 DEF D3, R3
  <1>6. D4 \in Seq(Calls) /\ R4 \in Seq(Calls)
    BY <1>1, <1>3, <1>5 DEF D4, R4
  <1>7. D5 \in Seq(Calls) /\ R5 \in Seq(Calls)
    BY <1>1, <1>3, <1>6 DEF D5, R5
  <1> QED BY <1>2, <1>4, <1>5, <1>6, <1>7

\* Taking the last of them off.
LEMMA DeferredLast ==
    /\ Last(D5) = "WaitSessionCleaner" /\ Front(D5) = D4 /\ D5 # <<>>
    /\ Last(D4) = "CloseConnection" /\ Front(D4) = D3 /\ D4 # <<>>
    /\ Last(D3) = "tp.Shutdown" /\ Front(D3) = D2 /\ D3 # <<>>
    /\ Last(D2) = "zlog.Sync" /\ Front(D2) = D1 /\ D2 # <<>>
    /\ Last(D1) = "stop" /\ Front(D1) = <<>> /\ D1 # <<>>
  <1>1. {"stop", "zlog.Sync", "tp.Shutdown", "CloseConnection", "WaitSessionCleaner"} = Calls
    BY DEF Calls
  <1>2. \A s \in Seq(Calls), e \in Calls :
          Last(Append(s, e)) = e /\ Front(Append(s, e)) = s /\ Append(s, e) # <<>>
    BY FrontLast
  <1>3. Last(D5) = "WaitSessionCleaner" /\ Front(D5) = D4 /\ D5 # <<>>
    <2>1. D4 \in Seq(Calls) /\ "WaitSessionCleaner" \in Calls
      BY <1>1, DeferredType
    <2> QED BY <1>2, <2>1 DEF D5
  <1>4. Last(D4) = "CloseConnection" /\ Front(D4) = D3 /\ D4 # <<>>
    <2>1. D3 \in Seq(Calls) /\ "CloseConnection" \in Calls
      BY <1>1, DeferredType
    <2> QED BY <1>2, <2>1 DEF D4
  <1>5. Last(D3) = "tp.Shutdown" /\ Front(D3) = D2 /\ D3 # <<>>
    <2>1. D2 \in Seq(Calls) /\ "tp.Shutdown" \in Calls
      BY <1>1, DeferredType
    <2> QED BY <1>2, <2>1 DEF D3
  <1>6. Last(D2) = "zlog.Sync" /\ Front(D2) = D1 /\ D2 # <<>>
    <2>1. D1 \in Seq(Calls) /\ "zlog.Sync" \in Calls
      BY <1>1, DeferredType
    <2> QED BY <1>2, <2>1 DEF D2
  <1>7. Last(D1) = "stop" /\ Front(D1) = <<>> /\ D1 # <<>>
    <2>1. <<>> \in Seq(Calls) /\ "stop" \in Calls /\ D1 = Append(<<>>, "stop")
      BY <1>1, DeferredType DEF D1
    <2> QED BY <1>2, <2>1
  <1> QED BY <1>3, <1>4, <1>5, <1>6, <1>7

\* All of them, run from the last to the first.
LEMMA RanAll ==
    R5 = <<"WaitSessionCleaner", "CloseConnection", "tp.Shutdown", "zlog.Sync", "stop">>
  <1> DEFINE t == <<"WaitSessionCleaner", "CloseConnection", "tp.Shutdown", "zlog.Sync", "stop">>
  <1>1. /\ t \in Seq(Calls) /\ Len(t) = 5
        /\ t[1] = "WaitSessionCleaner" /\ t[2] = "CloseConnection" /\ t[3] = "tp.Shutdown"
        /\ t[4] = "zlog.Sync" /\ t[5] = "stop"
    BY DEF Calls
  <1> HIDE DEF t
  <1>2. Len(R2) = 2 /\ R2[1] = "WaitSessionCleaner" /\ R2[2] = "CloseConnection"
    BY DEF R1, R2
  <1>3. ASSUME NEW s \in Seq(Calls), NEW e
        PROVE  /\ Len(Append(s, e)) = Len(s) + 1 /\ Append(s, e)[Len(s) + 1] = e
               /\ \A i \in 1 .. Len(s) : Append(s, e)[i] = s[i]
    OBVIOUS
  <1>4. Len(R3) = 3 /\ R3[3] = "tp.Shutdown" /\ \A i \in 1 .. 2 : R3[i] = R2[i]
    <2>1. R2 \in Seq(Calls)
      BY DeferredType
    <2>2. /\ Len(R3) = Len(R2) + 1 /\ R3[Len(R2) + 1] = "tp.Shutdown"
          /\ \A i \in 1 .. Len(R2) : R3[i] = R2[i]
      BY <1>3, <2>1 DEF R3
    <2> QED BY <1>2, <2>2
  <1>5. Len(R4) = 4 /\ R4[4] = "zlog.Sync" /\ \A i \in 1 .. 3 : R4[i] = R3[i]
    <2>1. R3 \in Seq(Calls)
      BY DeferredType
    <2>2. /\ Len(R4) = Len(R3) + 1 /\ R4[Len(R3) + 1] = "zlog.Sync"
          /\ \A i \in 1 .. Len(R3) : R4[i] = R3[i]
      BY <1>3, <2>1 DEF R4
    <2> QED BY <1>4, <2>2
  <1>6. Len(R5) = 5 /\ R5[5] = "stop" /\ \A i \in 1 .. 4 : R5[i] = R4[i]
    <2>1. R4 \in Seq(Calls)
      BY DeferredType
    <2>2. /\ Len(R5) = Len(R4) + 1 /\ R5[Len(R4) + 1] = "stop"
          /\ \A i \in 1 .. Len(R4) : R5[i] = R4[i]
      BY <1>3, <2>1 DEF R5
    <2> QED BY <1>5, <2>2
  <1>7. \A i \in 1 .. Len(R5) : R5[i] = t[i]
    BY <1>1, <1>2, <1>4, <1>5, <1>6
  <1>8. R5 = t
    BY <1>1, <1>6, <1>7, DeferredType, SeqEqual
  <1> QED BY <1>8 DEF t

\* Deferring one more.
LEMMA DeferredNext ==
    /\ D1 \o <<>> = D1 /\ D4 \o <<>> = D4 /\ D5 \o <<>> = D5
    /\ D1 \o <<"zlog.Sync">> = D2
    /\ D2 \o <<"tp.Shutdown">> = D3
    /\ D3 \o <<"CloseConnection">> = D4
    /\ D4 \o <<"WaitSessionCleaner">> = D5
  <1>1. {"stop", "zlog.Sync", "tp.Shutdown", "CloseConnection", "WaitSessionCleaner"} = Calls
    BY DEF Calls
  <1>2. \A s \in Seq(Calls) : s \o <<>> = s
    OBVIOUS
  <1>3. \A s \in Seq(Calls), e \in Calls : s \o <<e>> = Append(s, e)
    BY FrontLast
  <1> QED BY <1>1, <1>2, <1>3, DeferredType DEF D2, D3, D4, D5

-----------------------------------------------------------------------------
(* The inductive invariant.                                                *)

\* Up to the signal, what is deferred is what was made;
StartupInv ==
    /\ phase = "off" => defers = <<>>
    /\ phase \in {"LoadConfig", "NewLogger"} => defers = D1
    /\ phase = "InitTracer" => defers = D2
    /\ phase = "NewSessionImpl" => defers = D3
    /\ phase \in {"NewConfiguration", "NewManager"} => defers = D4
    /\ phase \in {"routes", "serve"} => defers = D5
    /\ phase \notin {"return", "panic"} => ran = <<>>

\* each part is there from its phase on, and requests only while one listens;
PartsInv ==
    /\ phase \in {"NewConfiguration", "NewManager", "routes", "serve"} => db \in {"open", "broken"}
    /\ phase \notin {"routes", "serve", "return", "panic"} => cleaner = "none"
    /\ phase \notin {"serve", "return"} => listener = "none"
    /\ listener # "listening" => \A r \in Requests : req[r] = "none"
    /\ done => cleaner = "ended"
    /\ phase = "off" => db = "none"
    /\ db = "broken" => conf["DB_TYPE"] = "postgresql"
    /\ ServedUntilReturn

\* afterwards main is between two of its deferred calls, and the database is
\* closed only once the cleaner has ended.
ReturnInv ==
    /\ phase \in {"return", "panic"} =>
         \/ defers = D5 /\ ran = <<>> /\ db \in {"open", "broken"}
         \/ /\ cleaner = "ended"
            /\ \/ defers = D4 /\ ran = R1
               \/ defers = D3 /\ ran = R2
               \/ defers = D2 /\ ran = R3
               \/ defers = D1 /\ ran = R4
               \/ defers = <<>> /\ ran = R5
    /\ exit \in {"returned", "panicked"} => phase \in {"return", "panic"} /\ defers = <<>>

Inv == TypeOK /\ StartupInv /\ PartsInv /\ ReturnInv

\* The configuration is the same as long as its layers are.
LEMMA SameConf ==
    ASSUME UNCHANGED layers
    PROVE  conf' = conf
  BY DEF conf, Unmarshal

\* The bound on the changes.
LEMMA EditsBound == MaxEdits \in Nat
  BY LifeAssumption

\* Nothing runs yet.
LEMMA InitInv == Init => Inv
  <1> SUFFICES ASSUME Init PROVE Inv
    OBVIOUS
  <1>1. \A k \in DOMAIN layers : IsLayer(layers[k])
    BY LifeAssumption DEF Init
  <1>2. cancelled \in BOOLEAN /\ done \in BOOLEAN /\ ~done
    BY DEF Init
  <1>3. TypeOK
    BY <1>1, <1>2, EditsBound, DeferredType DEF Init, TypeOK, Phases
  <1>4. StartupInv /\ ReturnInv
    BY DEF Init, StartupInv, ReturnInv
  <1>5. PartsInv
    BY <1>2 DEF Init, PartsInv, ServedUntilReturn
  <1> QED BY <1>3, <1>4, <1>5 DEF Inv

\* A changed layer is a layer, and nothing else changes before the launch.
LEMMA EditInv ==
    ASSUME Inv, NEW e \in Edits, Edit(e)
    PROVE  Inv'
  <1>1. /\ edits < MaxEdits /\ edits' = edits + 1
        /\ layers' = [layers EXCEPT ![e.layer] =
                        [n \in DOMAIN layers[e.layer] \cup {e.name} |->
                           IF n = e.name THEN e.value ELSE layers[e.layer][n]]]
        /\ UNCHANGED <<procVars, partVars>>
    BY DEF Edit
  <1>2. UNCHANGED <<phase, defers, ran, exit, cancelled, db, cleaner, done, listener, req>>
    BY <1>1 DEF procVars, partVars
  <1>3. e.name \in Name /\ e.value \in Texts
    BY LifeAssumption
  <1>4. ASSUME NEW k \in DOMAIN layers' PROVE IsLayer(layers'[k])
    <2>1. k \in DOMAIN layers /\ IsLayer(layers[k])
      BY <1>1, <1>4 DEF Inv, TypeOK
    <2>2. CASE k # e.layer
      BY <1>1, <2>1, <2>2
    <2>3. CASE k = e.layer
      <3> DEFINE f == [n \in DOMAIN layers[k] \cup {e.name} |->
                         IF n = e.name THEN e.value ELSE layers[k][n]]
      <3>1. layers'[k] = f
        BY <1>1, <2>1, <2>3
      <3>2. IsLayer(f)
        BY <1>3, <2>1 DEF IsLayer
      <3> QED BY <3>1, <3>2
    <2> QED BY <2>2, <2>3
  <1>5. edits' \in 0 .. MaxEdits
    <2>1. edits \in 0 .. MaxEdits
      BY DEF Inv, TypeOK
    <2> QED BY <1>1, <2>1, EditsBound
  <1>6. (\A k \in DOMAIN layers : IsLayer(layers[k]))'
    BY <1>4 DEF IsLayer
  <1>7. TypeOK'
    BY <1>2, <1>5, <1>6 DEF Inv, TypeOK
  <1>8. phase = "off" /\ db = "none" /\ \A r \in Requests : req[r] = "none"
    BY DEF Edit, Inv, PartsInv
  <1>9. PartsInv'
    BY <1>2, <1>8 DEF Inv, PartsInv, ServedUntilReturn
  <1> QED BY <1>2, <1>7, <1>9 DEF Inv, StartupInv, ReturnInv

\* Steps that leave the configuration and the progress of main alone.
LEMMA PartsStep ==
    ASSUME Inv, UNCHANGED <<layers, edits, phase, defers, ran>>,
           cancelled' \in BOOLEAN, done' \in BOOLEAN,
           exit' \in {"none", "fatal", "killed"} \/ exit' = exit,
           db' = db \/ (db = "open" /\ db' = "broken"),
           cleaner' \in {"none", "select", "purge", "ended"},
           listener' \in {"none", "starting", "listening"},
           req' \in [Requests -> {"none", "accepted", "served", "no database"}],
           cleaner = "ended" => cleaner' = "ended", PartsInv'
    PROVE  Inv'
  <1>1. TypeOK'
    BY DEF Inv, TypeOK
  <1>2. StartupInv' /\ ReturnInv'
    BY DEF Inv, StartupInv, ReturnInv
  <1> QED BY <1>1, <1>2 DEF Inv

\* The process ends without another step of main, or nothing happens.
LEMMA EndsInv ==
    ASSUME Inv, \/ StartupFails \/ (At("NewConfiguration") /\ Fatal)
                \/ ListenFails \/ Signal \/ UNCHANGED lifeVars
    PROVE  Inv'
  <1>1. /\ UNCHANGED <<layers, edits, phase, defers, ran, db, cleaner, done, listener, req>>
        /\ exit' \in {"fatal", "killed"} \/ exit' = exit
        /\ cancelled' = TRUE \/ cancelled' = cancelled
    BY DEF StartupFails, ListenFails, Signal, Fatal, lifeVars, procVars, partVars
  <1>2. PartsInv'
    BY <1>1, SameConf DEF Inv, PartsInv, ServedUntilReturn
  <1>3. cancelled' \in BOOLEAN /\ done' \in BOOLEAN
    BY <1>1 DEF Inv, TypeOK
  <1> QED BY <1>1, <1>2, <1>3, PartsStep DEF Inv, TypeOK

\* The listener starts, a request comes or is served, the cleaner does its work
\* or ends.
LEMMA ServingInv ==
    ASSUME Inv, \/ Listens
                \/ \E r \in Requests : Accept(r) \/ Serve(r)
                \/ LoseConnection
                \/ CleanerTicks \/ CleanerPurged \/ CleanerEnds
    PROVE  Inv'
  <1>1. /\ UNCHANGED <<layers, edits, phase, defers, ran, exit, cancelled>>
        /\ phase # "off" /\ conf' = conf
    BY SameConf DEF Listens, Accept, Serve, LoseConnection, CleanerTicks, CleanerPurged,
       CleanerEnds, Running, procVars
  <1>2. CASE Listens
    BY <1>1, <1>2, PartsStep DEF Listens, Inv, TypeOK, PartsInv, ServedUntilReturn
  <1>3. CASE LoseConnection
    <2>1. /\ db = "open" /\ db' = "broken" /\ conf["DB_TYPE"] = "postgresql"
          /\ UNCHANGED <<cleaner, done, listener, req>>
      BY <1>3 DEF LoseConnection
    <2>2. PartsInv'
      BY <1>1, <2>1 DEF Inv, PartsInv, ServedUntilReturn
    <2> QED BY <1>1, <2>1, <2>2, PartsStep DEF Inv, TypeOK
  <1>4. ASSUME NEW r \in Requests, Accept(r) \/ Serve(r) PROVE Inv'
    <2>1. /\ UNCHANGED <<db, cleaner, done, listener>> /\ listener = "listening"
          /\ req' = [req EXCEPT ![r] = req'[r]] /\ req'[r] \in {"accepted", "served", "no database"}
          /\ req'[r] = "no database" => db # "open"
      BY <1>4 DEF Accept, Serve, Inv, TypeOK, PartsInv
    <2>2. phase \in {"serve", "return"}
      BY <2>1 DEF Inv, PartsInv
    <2>3. req' \in [Requests -> {"none", "accepted", "served", "no database"}]
      BY <2>1 DEF Inv, TypeOK
    <2>4. ServedUntilReturn'
      <3>1. ASSUME NEW x \in Requests, req'[x] = "no database"
            PROVE  phase = "return" \/ (conf["DB_TYPE"] = "postgresql" /\ db = "broken")
        BY <2>1, <2>2, <3>1 DEF Inv, TypeOK, PartsInv, ServedUntilReturn
      <3> QED BY <1>1, <2>1, <3>1 DEF ServedUntilReturn
    <2>5. PartsInv'
      BY <1>1, <2>1, <2>2, <2>4 DEF Inv, PartsInv
    <2> QED BY <1>1, <2>1, <2>3, <2>5, PartsStep DEF Inv, TypeOK
  <1>5. CASE CleanerTicks \/ CleanerPurged \/ CleanerEnds
    <2>1. /\ UNCHANGED <<db, listener, req>> /\ cleaner \in {"select", "purge"}
          /\ cleaner' \in {"select", "purge", "ended"}
          /\ done' = done \/ (done' = TRUE /\ cleaner' = "ended")
      BY <1>5 DEF CleanerTicks, CleanerPurged, CleanerEnds
    <2>2. phase \in {"routes", "serve", "return", "panic"} /\ ~done
      BY <2>1 DEF Inv, PartsInv
    <2>3. done' \in BOOLEAN /\ (done' => cleaner' = "ended")
      <3>1. CASE done' = done
        BY <2>2, <3>1 DEF Inv, TypeOK
      <3>2. CASE done' = TRUE /\ cleaner' = "ended"
        BY <3>2
      <3> QED BY <2>1, <3>1, <3>2
    <2>4. PartsInv'
      BY <1>1, <2>1, <2>2, <2>3 DEF Inv, PartsInv, ServedUntilReturn
    <2> QED BY <1>1, <2>1, <2>3, <2>4, PartsStep DEF Inv, TypeOK
  <1> QED BY <1>2, <1>4, <1>5, <1>3

\* main makes its parts: each call it defers is for the part it has made.
LEMMA StartupStepInv ==
    ASSUME Inv, \/ Launch \/ LoadsConfig \/ MakesLogger \/ MakesTracer
                \/ OpensDatabase
                \/ At("NewConfiguration") /\ Made("NewManager", <<>>) /\ UNCHANGED partVars
                \/ MakesManager \/ StartsListener
    PROVE  Inv'
  <1>1. /\ UNCHANGED <<layers, edits, ran, exit, cancelled, done, req>>
        /\ phase \notin {"return", "panic"} /\ phase' \notin {"off", "return", "panic"}
        /\ conf' = conf
    BY SameConf DEF Launch, LoadsConfig, MakesLogger, MakesTracer, OpensDatabase, MakesManager,
       StartsListener, At, Made, partVars
  <1>2. /\ ran = <<>> /\ exit \notin {"returned", "panicked"}
        /\ \A r \in Requests : req[r] = "none"
    BY <1>1 DEF Inv, StartupInv, ReturnInv, PartsInv, Launch, LoadsConfig, MakesLogger,
       MakesTracer, OpensDatabase, MakesManager, StartsListener, At
  <1>3. ServedUntilReturn' /\ (db = "broken" => conf'["DB_TYPE"] = "postgresql")
    BY <1>1, <1>2 DEF ServedUntilReturn, Inv, PartsInv
  <1>4. ASSUME NEW d \in Seq(Calls), defers' = d, phase' \in Phases,
               db' \in {"none", "open", "broken", "closed"},
               cleaner' \in {"none", "select"}, listener' \in {"none", "starting"},
               StartupInv', PartsInv'
        PROVE  Inv'
    <2>1. TypeOK'
      BY <1>1, <1>4 DEF Inv, TypeOK
    <2>2. ReturnInv'
      BY <1>1, <1>2 DEF ReturnInv
    <2> QED BY <1>4, <2>1, <2>2 DEF Inv
  <1>5. CASE Launch \/ LoadsConfig \/ MakesLogger \/ MakesTracer
    <2>1. UNCHANGED <<db, cleaner, listener>>
          /\ phase \in {"off", "LoadConfig", "NewLogger", "InitTracer"}
      BY <1>5 DEF Launch, LoadsConfig, MakesLogger, MakesTracer, At, Made, partVars
    <2>2. \/ phase' \in {"LoadConfig", "NewLogger"} /\ defers' = D1
          \/ phase' = "InitTracer" /\ defers' = D2
          \/ phase' = "NewSessionImpl" /\ defers' = D3
      BY <1>5, DeferredNext DEF Launch, LoadsConfig, MakesLogger, MakesTracer, At, Made, D1,
         Inv, StartupInv
    <2>3. StartupInv'
      BY <1>1, <1>2, <2>2 DEF StartupInv
    <2>4. PartsInv'
      BY <1>1, <1>2, <1>3, <2>1, <2>2 DEF Inv, PartsInv
    <2>5. cleaner = "none" /\ listener = "none"
      BY <2>1 DEF Inv, PartsInv
    <2> QED BY <1>4, <2>1, <2>2, <2>3, <2>4, <2>5, DeferredType DEF Inv, TypeOK, Phases
  <1>6. CASE OpensDatabase
    <2>1. /\ phase = "NewSessionImpl" /\ phase' = "NewConfiguration" /\ defers' = D4 /\ db' = "open"
          /\ UNCHANGED <<cleaner, done, listener, req>>
      BY <1>6, DeferredNext DEF OpensDatabase, At, Made, Inv, StartupInv
    <2>2. StartupInv'
      BY <1>1, <1>2, <2>1 DEF StartupInv
    <2>3. PartsInv'
      BY <1>1, <1>2, <1>3, <2>1 DEF Inv, PartsInv
    <2>4. cleaner = "none" /\ listener = "none"
      BY <2>1 DEF Inv, PartsInv
    <2> QED BY <1>4, <2>1, <2>2, <2>3, <2>4, DeferredType DEF Phases
  <1>7. CASE At("NewConfiguration") /\ Made("NewManager", <<>>) /\ UNCHANGED partVars
    <2>1. /\ phase = "NewConfiguration" /\ phase' = "NewManager" /\ defers' = D4
          /\ UNCHANGED <<db, cleaner, done, listener, req>>
      BY <1>7, DeferredNext DEF At, Made, partVars, Inv, StartupInv
    <2>2. StartupInv'
      BY <1>1, <1>2, <2>1 DEF StartupInv
    <2>3. PartsInv'
      BY <1>1, <1>2, <1>3, <2>1 DEF Inv, PartsInv
    <2>4. cleaner = "none" /\ listener = "none" /\ db \in {"open", "broken"}
      BY <2>1 DEF Inv, PartsInv
    <2> QED BY <1>4, <2>1, <2>2, <2>3, <2>4, DeferredType DEF Phases
  <1>8. CASE MakesManager
    <2>1. /\ phase = "NewManager" /\ phase' = "routes" /\ defers' = D5 /\ cleaner' = "select"
          /\ UNCHANGED <<db, done, listener, req>>
      BY <1>8, DeferredNext DEF MakesManager, At, Made, Inv, StartupInv
    <2>2. StartupInv'
      BY <1>1, <1>2, <2>1 DEF StartupInv
    <2>3. db \in {"open", "broken"} /\ listener = "none" /\ cleaner # "ended"
      BY <2>1 DEF Inv, PartsInv
    <2>4. ~done'
      BY <2>1, <2>3 DEF Inv, PartsInv
    <2>5. PartsInv'
      BY <1>1, <1>2, <1>3, <2>1, <2>3, <2>4 DEF PartsInv
    <2> QED BY <1>4, <2>1, <2>2, <2>3, <2>5, DeferredType DEF Phases
  <1>9. CASE StartsListener
    <2>1. /\ phase = "routes" /\ phase' = "serve" /\ defers' = D5 /\ listener' = "starting"
          /\ UNCHANGED <<db, cleaner, done, req>>
      BY <1>9, DeferredNext DEF StartsListener, At, Made, Inv, StartupInv
    <2>2. StartupInv'
      BY <1>1, <1>2, <2>1 DEF StartupInv
    <2>3. PartsInv'
      BY <1>1, <1>2, <1>3, <2>1 DEF Inv, PartsInv
    <2>4. TypeOK'
      BY <1>1, <2>1, DeferredType DEF Inv, TypeOK, Phases
    <2>5. ReturnInv'
      BY <1>1, <1>2 DEF ReturnInv
    <2> QED BY <2>2, <2>3, <2>4, <2>5 DEF Inv
  <1> QED BY <1>5, <1>6, <1>7, <1>8, <1>9

\* main runs its deferred calls; the connection is closed after the wait for the
\* cleaner.
LEMMA ShutdownStepInv ==
    ASSUME Inv, Shutdown \/ RoutesPanic \/ RunDeferred \/ Return
    PROVE  Inv'
  <1>1. conf' = conf
    BY SameConf DEF Shutdown, RoutesPanic, RunDeferred, Return
  <1>2. CASE Shutdown \/ RoutesPanic
    <2>1. /\ \/ phase = "serve" /\ phase' = "return"
             \/ phase = "routes" /\ phase' = "panic"
          /\ exit = "none"
          /\ UNCHANGED <<layers, edits, defers, ran, exit, cancelled, db, cleaner, done, listener, req>>
      BY <1>2 DEF Shutdown, RoutesPanic, At, Running, partVars
    <2>2. defers = D5 /\ ran = <<>> /\ db \in {"open", "broken"}
      BY <2>1 DEF Inv, StartupInv, PartsInv
    <2>3. TypeOK'
      BY <2>1 DEF Inv, TypeOK, Phases
    <2>4. StartupInv' /\ ReturnInv'
      BY <2>1, <2>2 DEF StartupInv, ReturnInv
    <2>5. PartsInv'
      BY <1>1, <2>1 DEF Inv, PartsInv, ServedUntilReturn
    <2> QED BY <2>3, <2>4, <2>5 DEF Inv
  <1>3. CASE RunDeferred
    <2>1. /\ phase \in {"return", "panic"} /\ phase' = phase /\ exit = "none" /\ defers # <<>>
          /\ defers' = Front(defers) /\ ran' = Append(ran, Last(defers))
          /\ Last(defers) = "WaitSessionCleaner" => done
          /\ db' = IF Last(defers) = "CloseConnection" THEN "closed" ELSE db
          /\ UNCHANGED <<layers, edits, exit, cancelled, cleaner, done, listener, req>>
      BY <1>3 DEF RunDeferred, At, Running
    <2>2. Append(<<>>, "WaitSessionCleaner") = R1
      BY DEF R1
    <2>3. \/ defers = D5 /\ ran = <<>> /\ defers' = D4 /\ ran' = R1 /\ cleaner = "ended"
          \/ /\ cleaner = "ended"
             /\ \/ defers = D4 /\ defers' = D3 /\ ran' = R2
                \/ defers = D3 /\ defers' = D2 /\ ran' = R3
                \/ defers = D2 /\ defers' = D1 /\ ran' = R4
                \/ defers = D1 /\ defers' = <<>> /\ ran' = R5
      <3>1. CASE defers = D5 /\ ran = <<>>
        <4>1. Last(defers) = "WaitSessionCleaner" /\ defers' = D4
          BY <2>1, <3>1, DeferredLast
        <4>2. cleaner = "ended"
          BY <2>1, <4>1 DEF Inv, PartsInv
        <4> QED BY <2>1, <2>2, <3>1, <4>1, <4>2
      <3>2. CASE defers = D4 /\ ran = R1 /\ cleaner = "ended"
        BY <2>1, <3>2, DeferredLast DEF R2
      <3>3. CASE defers = D3 /\ ran = R2 /\ cleaner = "ended"
        BY <2>1, <3>3, DeferredLast DEF R3
      <3>4. CASE defers = D2 /\ ran = R3 /\ cleaner = "ended"
        BY <2>1, <3>4, DeferredLast DEF R4
      <3>5. CASE defers = D1 /\ ran = R4 /\ cleaner = "ended"
        BY <2>1, <3>5, DeferredLast DEF R5
      <3> QED BY <2>1, <3>1, <3>2, <3>3, <3>4, <3>5 DEF Inv, ReturnInv
    <2>4. db' \in {"none", "open", "broken", "closed"}
      BY <2>1 DEF Inv, TypeOK
    <2>5. defers' \in Seq(Calls) /\ ran' \in Seq(Calls)
      BY <2>3, DeferredType
    <2>6. TypeOK'
      BY <2>1, <2>4, <2>5 DEF Inv, TypeOK
    <2>7. StartupInv' /\ ReturnInv'
      BY <2>1, <2>3 DEF StartupInv, ReturnInv
    <2>8. PartsInv'
      BY <1>1, <2>1 DEF Inv, PartsInv, ServedUntilReturn
    <2> QED BY <2>6, <2>7, <2>8 DEF Inv
  <1>4. CASE Return
    <2>1. /\ phase \in {"return", "panic"} /\ defers = <<>> /\ exit' \in {"returned", "panicked"}
          /\ UNCHANGED <<layers, edits, phase, defers, ran, cancelled, db, cleaner, done, listener, req>>
      BY <1>4 DEF Return, At, partVars
    <2>2. TypeOK'
      BY <2>1 DEF Inv, TypeOK
    <2>3. StartupInv' /\ ReturnInv'
      BY <2>1 DEF Inv, StartupInv, ReturnInv
    <2>4. PartsInv'
      BY <1>1, <2>1 DEF Inv, PartsInv, ServedUntilReturn
    <2> QED BY <2>2, <2>3, <2>4 DEF Inv
  <1> QED BY <1>2, <1>3, <1>4

\* Every step keeps the invariant.
LEMMA NextInv == Inv /\ [Next]_lifeVars => Inv'
  BY EditInv, StartupStepInv, ShutdownStepInv, EndsInv, ServingInv DEF Next, MainStep, DiscoversProvider

-----------------------------------------------------------------------------
(* The theorems.                                                           *)

\* The invariant holds in every reachable state: what is deferred is what was
\* made, and what ran is what was deferred, last one first.
THEOREM LifeInvariant == Spec => []Inv
  BY InitInv, NextInv, PTL DEF Spec

\* Every variable of the process has its type in every reachable state.
THEOREM TypeCorrect == Spec => []TypeOK
  <1>1. Inv => TypeOK
    BY DEF Inv
  <1> QED BY <1>1, LifeInvariant, PTL

\* The cleaner never purges before there is a connection, nor on one that
\* shutdown has closed, as main waits for it before.
THEOREM CleanerDatabase == Spec => []CleanerHasDatabase
  <1>1. Inv => CleanerHasDatabase
    <2>1. SUFFICES ASSUME Inv, cleaner = "purge" PROVE db \in {"open", "broken"}
      BY DEF CleanerHasDatabase
    <2>2. phase \in {"routes", "serve", "return", "panic"}
      BY <2>1 DEF Inv, PartsInv
    <2> QED BY <2>1, <2>2 DEF Inv, PartsInv, ReturnInv
  <1> QED BY <1>1, LifeInvariant, PTL

\* A process that returns, or panics over its routes, has released all it made,
\* in the order that the parts need.
THEOREM Released == Spec => []ReleasedInOrder
  <1>1. Inv => ReleasedInOrder
    <2>1. SUFFICES ASSUME Inv, exit \in {"returned", "panicked"}
                   PROVE  ran = <<"WaitSessionCleaner", "CloseConnection", "tp.Shutdown",
                                  "zlog.Sync", "stop">> /\ cleaner = "ended"
      BY DEF ReleasedInOrder
    <2>2. ran = R5 /\ cleaner = "ended"
      BY <2>1, DeferredLast DEF Inv, ReturnInv
    <2>3. R5 = <<"WaitSessionCleaner", "CloseConnection", "tp.Shutdown", "zlog.Sync", "stop">>
      BY RanAll
    <2> QED BY <2>2, <2>3
  <1> QED BY <1>1, LifeInvariant, PTL

\* Before main returns no request meets a database that is not there yet or that
\* shutdown has closed: nobody listens before it is open, and the only other way
\* to have no connection is to lose the one to PostgreSQL.
THEOREM Served == Spec => []ServedUntilReturn
  <1>1. Inv => ServedUntilReturn
    BY DEF Inv, PartsInv
  <1> QED BY <1>1, LifeInvariant, PTL

=============================================================================
