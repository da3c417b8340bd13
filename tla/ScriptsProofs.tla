---------------------------- MODULE ScriptsProofs ----------------------------
(* The proofs that IndInv is an invariant of Scripts for any texts and any *)
(* number of commands under way, and that NOSCRIPT has but one reason.     *)
EXTENDS ScriptsProperties, TLAPS

LEMMA InitIndInv == Init => IndInv
  <1> SUFFICES ASSUME Init PROVE IndInv
    OBVIOUS
  <1>1. Empty \in Texts /\ 0 \in 0..MaxMoves
    BY ScriptsAssumption
  <1>2. TypeOK
    <2>1. sent \in Seq({"LOAD", "EVALSHA", "FLUSH"} \X (Texts \cup {NoSha}))
      BY DEF Init
    <2>2. /\ known \in SUBSET Texts /\ handles \in SUBSET (Texts \cup {NoSha})
          /\ server \in SUBSET Valid /\ forgotten \in SUBSET Valid
      BY DEF Init
    <2>3. build \in [cryptopp : BOOLEAN, ndebug : BOOLEAN] /\ crashed \in BOOLEAN
      BY DEF Init
    <2>4. m_command \in 0..MaxMoves /\ home \in 0..MaxMoves /\ text \in Texts
      BY <1>1 DEF Init
    <2>5. pc \in {"idle", "load", "loaded", "error", "null"}
          /\ link \in {"up", "down", "lost"}
      BY DEF Init
    <2> QED
      BY <2>1, <2>2, <2>3, <2>4, <2>5 DEF TypeOK
  <1>3. LoadSent
    BY DEF Init, LoadSent
  <1>4. /\ KnownWasLoaded /\ LoadedIsThere /\ HandlesViewCache
        /\ SendsThroughCommand
    BY DEF Init, KnownWasLoaded, LoadedIsThere, HandlesViewCache,
           SendsThroughCommand
  <1> QED
    BY <1>2, <1>3, <1>4 DEF IndInv

Commands == {"LOAD", "EVALSHA", "FLUSH"} \X (Texts \cup {NoSha})

(* Appending a command, which is a LOAD only if there is no other. *)
LEMMA AfterSend ==
    ASSUME TypeOK, LoadSent, NEW command \in {"LOAD", "EVALSHA", "FLUSH"},
           NEW s \in Texts \cup {NoSha},
           Send(command, s), handles \subseteq handles', text' \in Texts,
           pc = "idle",
           command = "LOAD" => pc' = "load" /\ text' = s,
           command = "EVALSHA" => s \in handles
    PROVE  sent' \in Seq(Commands) /\ LoadSent'
  <1>1. sent' = Append(sent, <<command, s>>) /\ <<command, s>> \in Commands
    BY DEF Send, Commands
  <1>2. sent \in Seq(Commands)
    BY DEF TypeOK, Commands
  <1>3. sent' \in Seq(Commands) /\ Len(sent') = Len(sent) + 1
    BY <1>1, <1>2
  <1>4. \A n \in 1..Len(sent') :
           \/ n \in 1..Len(sent) /\ sent'[n] = sent[n] /\ sent[n][1] # "LOAD"
           \/ n = Len(sent) + 1 /\ sent'[n] = <<command, s>>
    BY <1>1, <1>2, <1>3 DEF LoadSent
  <1>5. \A n \in 1..Len(sent') :
           /\ sent'[n][1] = "LOAD" => n = Len(sent) + 1 /\ command = "LOAD" /\ sent'[n][2] = s
           /\ sent'[n][1] = "EVALSHA" => sent'[n][2] \in handles'
    BY <1>4 DEF LoadSent
  <1> QED
    BY <1>3, <1>5 DEF LoadSent

(* Taking the oldest command off. *)
LEMMA AfterServe ==
    ASSUME TypeOK, LoadSent, sent # <<>>, sent' = Tail(sent), UNCHANGED handles,
           Head(sent)[1] = "LOAD" \/ UNCHANGED <<pc, text>>
    PROVE  /\ sent' \in Seq(Commands) /\ LoadSent'
           /\ Head(sent) \in Commands
           /\ Head(sent)[1] = "LOAD" => pc = "load" /\ Head(sent)[2] = text
           /\ Head(sent)[1] = "EVALSHA" => Head(sent)[2] \in handles
  <1>1. sent \in Seq(Commands)
    BY DEF TypeOK, Commands
  <1>2. /\ sent' \in Seq(Commands) /\ Len(sent) \in Nat /\ Len(sent) > 0
        /\ Len(sent') = Len(sent) - 1 /\ Head(sent) = sent[1]
        /\ \A n \in 1..Len(sent') : n + 1 \in 1..Len(sent) /\ sent'[n] = sent[n + 1]
    BY <1>1
  <1>3. \A n \in 1..Len(sent') :
           sent'[n][1] = "LOAD" => Head(sent)[1] # "LOAD" /\ pc = "load" /\ sent'[n][2] = text
    BY <1>2 DEF LoadSent
  <1>4. LoadSent'
    <2>1. ASSUME NEW m \in 1..Len(sent'), NEW n \in 1..Len(sent'),
                 sent'[m][1] = "LOAD", sent'[n][1] = "LOAD"
          PROVE  m = n
      <3>1. m + 1 = n + 1
        BY <1>2, <2>1 DEF LoadSent
      <3> QED
        BY <1>2, <3>1
    <2>2. \A n \in 1..Len(sent') : sent'[n][1] = "EVALSHA" => sent'[n][2] \in handles'
      BY <1>2 DEF LoadSent
    <2> QED
      BY <1>3, <2>1, <2>2 DEF LoadSent
  <1> QED
    BY <1>1, <1>2, <1>4 DEF LoadSent

LEMMA NextIndInv == IndInv /\ [Next]_vars => IndInv'
  <1> SUFFICES ASSUME IndInv, [Next]_vars PROVE IndInv'
    OBVIOUS
  <1> USE ScriptsAssumption
      DEF IndInv, KnownWasLoaded, LoadedIsThere, HandlesViewCache,
          SendsThroughCommand
  <1>1. CASE UNCHANGED vars
    BY <1>1 DEF vars, client, world, TypeOK, LoadSent
  <1>2. CASE MakeEmpty \/ MakeDefault
    BY <1>2 DEF MakeEmpty, MakeDefault, Ready, world, TypeOK, LoadSent
  <1>3. ASSUME NEW s \in Texts, MakeKnown(s) PROVE IndInv'
    BY <1>3 DEF MakeKnown, Ready, world, TypeOK, LoadSent
  <1>4. ASSUME NEW s \in Texts, StartLoad(s) PROVE IndInv'
    <2>1. sent' \in Seq(Commands) /\ LoadSent'
      BY <1>4, AfterSend DEF StartLoad, Ready
    <2> QED
      BY <1>4, <2>1 DEF StartLoad, Ready, TypeOK, Commands
  <1>5. ASSUME NEW s \in Texts \cup {NoSha}, RunScript(s) PROVE IndInv'
    <2> USE <1>5 DEF RunScript, Ready
    <2>1. /\ UNCHANGED <<build, client, link, server, forgotten>>
          /\ s \in handles /\ pc = "idle" /\ link = "up"
      OBVIOUS
    <2>2. CASE s = NoSha /\ ~build.ndebug /\ crashed' = TRUE /\ UNCHANGED sent
      <3>1. crashed' \in BOOLEAN
        BY <2>2, Zenon
      <3>2. TypeOK'
        BY <2>1, <2>2, <3>1 DEF client, TypeOK
      <3>3. LoadSent'
        BY <2>1, <2>2 DEF client, LoadSent
      <3>4. /\ KnownWasLoaded' /\ LoadedIsThere' /\ HandlesViewCache'
            /\ SendsThroughCommand'
        BY <2>1, <2>2 DEF client
      <3> QED
        BY <3>2, <3>3, <3>4
    <2>3. CASE Send("EVALSHA", s) /\ UNCHANGED crashed
      <3>1. sent' \in Seq(Commands) /\ LoadSent'
        BY <2>1, <2>3, AfterSend DEF client, TypeOK
      <3>2. TypeOK'
        BY <2>1, <2>3, <3>1 DEF client, TypeOK, Commands
      <3> QED
        BY <2>1, <2>3, <3>1, <3>2 DEF client
    <2> QED
      BY <2>2, <2>3
  <1>6. CASE ScriptFlush
    <2>1. sent' \in Seq(Commands) /\ LoadSent'
      BY <1>6, AfterSend DEF ScriptFlush, Ready, client, TypeOK
    <2> QED
      BY <1>6, <2>1 DEF ScriptFlush, Ready, client, TypeOK, Commands
  <1>7. CASE MoveCommand
    BY <1>7 DEF MoveCommand, world, TypeOK, LoadSent
  <1>8. CASE Disconnect \/ Reconnect
    BY <1>8 DEF Disconnect, Reconnect, Ready, client, TypeOK, LoadSent
  <1>9. CASE Proceed
    BY <1>9 DEF Proceed, LoadThrows, LoadLost, Insert, world, TypeOK, LoadSent
  <1>10. CASE ServerLoads
    <2>1. /\ sent' \in Seq(Commands) /\ LoadSent'
          /\ pc = "load" /\ Head(sent)[2] = text
      BY <1>10, AfterServe DEF ServerLoads, Oldest
    <2> QED
      BY <1>10, <2>1 DEF ServerLoads, Oldest, TypeOK, Commands
  <1>11. CASE ServerRuns \/ ServerFlushes
    <2>1. sent' \in Seq(Commands) /\ LoadSent'
      BY <1>11, AfterServe DEF ServerRuns, ServerFlushes, Oldest, client
    <2> QED
      BY <1>11, <2>1 DEF ServerRuns, ServerFlushes, Forget, client, TypeOK, Commands
  <1>12. CASE OthersFlush
    BY <1>12 DEF OthersFlush, Forget, client, TypeOK, LoadSent
  <1>13. CASE ConnectionLost
    BY <1>13 DEF ConnectionLost, TypeOK, LoadSent
  <1> QED
    BY <1>1, <1>2, <1>3, <1>4, <1>5, <1>6, <1>7, <1>8, <1>9, <1>10, <1>11, <1>12,
       <1>13
    DEF Next, UserCall, Serve, Ended

(* IndInv holds throughout: what the cache, the Script objects and the     *)
(* commands under way have to do with each other.                          *)
THEOREM Invariance == Spec => []IndInv
  <1> QED
    BY InitIndInv, NextIndInv, PTL DEF Spec

(* The cache never runs ahead of the server: what it holds was loaded, in  *)
(* either build, for any scripts and any order of calls, flushes and       *)
(* reconnections.                                                          *)
THEOREM CacheIsHonest == Spec => []KnownWasLoaded
  <1>1. IndInv => KnownWasLoaded
    BY DEF IndInv
  <1> QED
    BY <1>1, Invariance, PTL

(* The SHA1 a Script views stays in the cache, unless it views none.       *)
THEOREM HandlesAreSafe == Spec => []HandlesViewCache
  <1>1. IndInv => HandlesViewCache
    BY DEF IndInv
  <1> QED
    BY <1>1, Invariance, PTL

(* A Script with a SHA1 is answered NOSCRIPT for one reason only, that the *)
(* server dropped it.                                                      *)
THEOREM NoscriptMeansForgotten == Spec => NoscriptWasForgotten
  <1>1. IndInv /\ [Next]_vars
          => [Oldest("EVALSHA") /\ sent' = Tail(sent) /\ link' = "up"
                => Head(sent)[2] \in server \cup forgotten \cup {NoSha}]_vars
    <2> SUFFICES ASSUME IndInv, [Next]_vars,
                        Oldest("EVALSHA"), sent' = Tail(sent), link' = "up",
                        ~UNCHANGED vars
                 PROVE  Head(sent)[2] \in server \cup forgotten \cup {NoSha}
      OBVIOUS
    <2>1. link # "lost"
      BY DEF Next, UserCall, Proceed, Serve, Ended, MakeEmpty, MakeDefault, MakeKnown, StartLoad,
             RunScript, ScriptFlush, MoveCommand, Disconnect, Reconnect,
             LoadThrows, LoadLost, Insert, ServerLoads, ServerRuns, ServerFlushes,
             OthersFlush, ConnectionLost, Ready, client, world
    <2>2. Head(sent)[2] \in handles
      <3>1. sent \in Seq(Commands) /\ sent # <<>> /\ Head(sent)[1] = "EVALSHA"
        BY DEF IndInv, TypeOK, Commands, Oldest
      <3>2. Head(sent) = sent[1] /\ 1 \in 1..Len(sent)
        BY <3>1
      <3> QED
        BY <3>1, <3>2 DEF IndInv, LoadSent
    <2> QED
      BY <2>1, <2>2 DEF IndInv, HandlesViewCache, KnownWasLoaded
  <1> QED
    BY <1>1, Invariance, PTL DEF Spec, NoscriptWasForgotten
=============================================================================
