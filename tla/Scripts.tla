------------------------------- MODULE Scripts -------------------------------
(***************************************************************************)
(* redis::ScriptManager, the client's cache of the scripts it has loaded,  *)
(* and the redis::Script objects that run them by their SHA1, against a    *)
(* server that loads, runs and forgets scripts.                            *)
(*                                                                         *)
(* One thread uses the Command: the cache is not synchronised.  What it    *)
(* sends travels in order, so a SCRIPT LOAD waits behind the commands of   *)
(* other batches that were not waited for.  A script stands for its text   *)
(* and for its SHA1, which differs for different texts; NoSha is the empty *)
(* string.                                                                 *)
(***************************************************************************)
EXTENDS Naturals, Sequences

CONSTANTS
    Texts,          \* the scripts the program may submit
    Valid,          \* those the server can compile
    Empty,          \* the script without text, which it can
    NoSha,
    MaxSent,        \* bound: commands under way
    MaxMoves        \* bound: moves of the Command

ASSUME ScriptsAssumption ==
    /\ Valid \subseteq Texts
    /\ Empty \in Valid
    /\ NoSha \notin Texts
    /\ MaxSent \in Nat /\ MaxMoves \in Nat

VARIABLES
    build,      \* [cryptopp, ndebug]: how the library was compiled, fixed
    known,      \* m_known_scripts, or m_known_hashes in a cryptopp build
    m_command,  \* the Command the manager runs its commands through
    home,       \* where the Command is; moving it changes that
    handles,    \* the m_sha1 of the Script objects there are
    pc,         \* where add_lua_script_ifn() is
    text,       \* its parScript
    link,       \* the connection: "up", "down" or "lost"
    sent,       \* commands under way: <<command, script>>
    server,     \* the scripts the server has
    forgotten,  \* those it had and dropped
    crashed     \* an assertion failed

client == <<known, m_command, home, handles, pc, text>>
world == <<link, sent, server, forgotten>>
vars == <<build, client, world, crashed>>

Ready == ~crashed /\ pc = "idle" /\ link = "up"
Send(command, s) == sent' = Append(sent, <<command, s>>)
Room == Len(sent) < MaxSent

-----------------------------------------------------------------------------
(* Command::make_script(), that is add_lua_script_ifn() and a Script made  *)
(* of what it returns.                                                     *)

(* Only the cryptopp build looks for the script without text, for which    *)
(* the Script has no SHA1.                                                 *)
MakeEmpty ==
    /\ Ready
    /\ build.cryptopp
    /\ handles' = handles \cup {NoSha}
    /\ UNCHANGED <<build, known, m_command, home, pc, text, world, crashed>>

IsEmpty(s) == build.cryptopp /\ s = Empty

MakeKnown(s) ==
    /\ Ready
    /\ ~IsEmpty(s) /\ s \in known
    /\ handles' = handles \cup {s}
    /\ UNCHANGED <<build, known, m_command, home, pc, text, world, crashed>>

(* Mutant: the script is cached as it is sent. *)
StartLoad_Cached(s) ==
    /\ Ready /\ Room
    /\ ~IsEmpty(s) /\ s \notin known
    /\ Send("LOAD", s)
    /\ known' = known \cup {s}
    /\ pc' = "load" /\ text' = s
    /\ UNCHANGED <<build, m_command, home, handles, link, server, forgotten,
                   crashed>>

(* m_command->run() blocks until the reply is there ... *)
StartLoad(s) ==
    /\ Ready /\ Room
    /\ ~IsEmpty(s) /\ s \notin known
    /\ Send("LOAD", s)
    /\ pc' = "load" /\ text' = s
    /\ UNCHANGED <<build, known, m_command, home, handles, link, server,
                   forgotten, crashed>>

(* ... and throws if it is an error. *)
LoadThrows ==
    /\ ~crashed /\ pc = "error"
    /\ pc' = "idle"
    /\ UNCHANGED <<build, known, m_command, home, handles, text, world, crashed>>

(* get_string() throws on the default Reply that a lost connection leaves  *)
(* in the node; the cryptopp build does not look at the reply but in an    *)
(* assertion.                                                              *)
LoadLost ==
    /\ ~crashed /\ pc = "null" /\ ~build.cryptopp
    /\ pc' = "idle"
    /\ UNCHANGED <<build, known, m_command, home, handles, text, world, crashed>>

Insert ==
    /\ ~crashed
    /\ pc = "loaded" \/ (pc = "null" /\ build.cryptopp)
    /\ known' = known \cup {text}
    /\ handles' = handles \cup {text}
    /\ pc' = "idle"
    /\ UNCHANGED <<build, m_command, home, text, world, crashed>>

-----------------------------------------------------------------------------
(* Script::Script(), for which no Command is needed: it has no SHA1 and no *)
(* manager.                                                                *)
MakeDefault ==
    /\ ~crashed /\ pc = "idle"
    /\ handles' = handles \cup {NoSha}
    /\ UNCHANGED <<build, known, m_command, home, pc, text, world, crashed>>

(* Script::run() through a batch that is not waited for.  Without a SHA1   *)
(* it fails its first assertion or sends the empty string.                 *)
RunScript(s) ==
    /\ Ready
    /\ s \in handles
    /\ \/ /\ s = NoSha /\ ~build.ndebug
          /\ crashed' = TRUE
          /\ UNCHANGED sent
       \/ /\ s # NoSha \/ build.ndebug
          /\ Room
          /\ Send("EVALSHA", s)
          /\ UNCHANGED crashed
    /\ UNCHANGED <<build, client, link, server, forgotten>>

(* Mutant: the scripts the server will have forgotten leave the cache. *)
ScriptFlush_Forgets ==
    /\ Ready /\ Room
    /\ Send("FLUSH", NoSha)
    /\ known' = {}
    /\ UNCHANGED <<build, m_command, home, handles, pc, text, link, server,
                   forgotten, crashed>>

(* IncRedis::script_flush(), or the same through a batch: the manager is   *)
(* not told.                                                               *)
ScriptFlush ==
    /\ Ready /\ Room
    /\ Send("FLUSH", NoSha)
    /\ UNCHANGED <<build, client, link, server, forgotten, crashed>>

(* Mutant: the manager is not told of the new place. *)
MoveCommand_NoUpdate ==
    /\ ~crashed /\ pc = "idle" /\ home < MaxMoves
    /\ home' = home + 1
    /\ UNCHANGED <<build, known, m_command, handles, pc, text, world, crashed>>

(* Command (Command&&) takes the LocalData over, with the manager, the     *)
(* cache and the text the Script objects view, and points the manager to   *)
(* itself.                                                                 *)
MoveCommand ==
    /\ ~crashed /\ pc = "idle" /\ home < MaxMoves
    /\ home' = home + 1
    /\ m_command' = home'
    /\ UNCHANGED <<build, known, handles, pc, text, world, crashed>>

(* disconnect() with nothing under way, and connect() later. *)
Disconnect ==
    /\ Ready /\ sent = <<>>
    /\ link' = "down"
    /\ UNCHANGED <<build, client, sent, server, forgotten, crashed>>

Reconnect ==
    /\ ~crashed /\ link = "down"
    /\ link' = "up"
    /\ UNCHANGED <<build, client, sent, server, forgotten, crashed>>

-----------------------------------------------------------------------------
(* The server, and what happens to the connection. *)

Oldest(command) == ~crashed /\ sent # <<>> /\ Head(sent)[1] = command

ServerLoads ==
    /\ Oldest("LOAD")
    /\ sent' = Tail(sent)
    /\ LET s == Head(sent)[2] IN
       \/ /\ s \in Valid
          /\ server' = server \cup {s}
          /\ forgotten' = forgotten \ {s}
          /\ pc' = "loaded"
       \/ /\ s \notin Valid
          /\ pc' = "error"
          /\ UNCHANGED <<server, forgotten>>
    /\ UNCHANGED <<build, known, m_command, home, handles, text, link, crashed>>

(* Answers NOSCRIPT if the server does not have it. *)
ServerRuns ==
    /\ Oldest("EVALSHA")
    /\ sent' = Tail(sent)
    /\ UNCHANGED <<build, client, link, server, forgotten, crashed>>

Forget ==
    /\ server' = {}
    /\ forgotten' = forgotten \cup server

ServerFlushes ==
    /\ Oldest("FLUSH")
    /\ sent' = Tail(sent)
    /\ Forget
    /\ UNCHANGED <<build, client, link, crashed>>

(* A SCRIPT FLUSH of another client, or a restart between two connections. *)
OthersFlush ==
    /\ ~crashed
    /\ Forget
    /\ UNCHANGED <<build, client, link, sent, crashed>>

(* hiredis calls back for all commands under way, with a null reply: an    *)
(* assertion fails, or the nodes keep their default Reply.                 *)
ConnectionLost ==
    /\ ~crashed /\ link = "up"
    /\ link' = "lost"
    /\ sent' = <<>>
    /\ crashed' = (sent # <<>> /\ ~build.ndebug)
    /\ pc' = IF pc = "load" THEN "null" ELSE pc
    /\ UNCHANGED <<build, known, m_command, home, handles, text, server, forgotten>>

-----------------------------------------------------------------------------
Init ==
    /\ build \in [cryptopp : BOOLEAN, ndebug : BOOLEAN]
    /\ known = {} /\ handles = {}
    /\ m_command = 0 /\ home = 0
    /\ pc = "idle" /\ text = Empty
    /\ link = "up" /\ sent = <<>>
    /\ server = {} /\ forgotten = {}
    /\ crashed = FALSE

UserCall ==
    \/ MakeEmpty \/ MakeDefault
    \/ \E s \in Texts : MakeKnown(s) \/ StartLoad(s)
    \/ \E s \in Texts \cup {NoSha} : RunScript(s)
    \/ ScriptFlush \/ MoveCommand \/ Disconnect \/ Reconnect

Proceed == LoadThrows \/ LoadLost \/ Insert

Serve == ServerLoads \/ ServerRuns \/ ServerFlushes

(* The program has ended, or goes on without this connection. *)
Ended == (crashed \/ link = "lost") /\ UNCHANGED vars

Next ==
    UserCall \/ Proceed \/ Serve \/ OthersFlush \/ ConnectionLost \/ Ended

Spec == Init /\ [][Next]_vars
=============================================================================
