------------------------- MODULE ScriptsProperties ---------------------------
(* What ScriptManager and Script guarantee. *)
EXTENDS Scripts

(* Every variable has its type. *)
TypeOK ==
    /\ build \in [cryptopp : BOOLEAN, ndebug : BOOLEAN]
    /\ known \in SUBSET Texts
    /\ m_command \in 0..MaxMoves /\ home \in 0..MaxMoves
    /\ handles \in SUBSET (Texts \cup {NoSha})
    /\ pc \in {"idle", "load", "loaded", "error", "null"}
    /\ text \in Texts
    /\ link \in {"up", "down", "lost"}
    /\ sent \in Seq({"LOAD", "EVALSHA", "FLUSH"} \X (Texts \cup {NoSha}))
    /\ server \in SUBSET Valid
    /\ forgotten \in SUBSET Valid
    /\ crashed \in BOOLEAN

(* One load is under way, if any: the one make_script() waits for. *)
LoadSent ==
    /\ \A m, n \in 1..Len(sent) :
          sent[m][1] = "LOAD" /\ sent[n][1] = "LOAD" => m = n
    /\ \A n \in 1..Len(sent) :
          /\ sent[n][1] = "LOAD" => pc = "load" /\ sent[n][2] = text
          /\ sent[n][1] = "EVALSHA" => sent[n][2] \in handles

(* The cache holds nothing the server does not have or did not drop, in    *)
(* either build and whatever becomes of a load: a script that does not     *)
(* compile, a flush between the reply and the insertion, a connection      *)
(* ended.  Only one lost during a load may leave a script that was never   *)
(* loaded, and then the cache is of no use any more.                       *)
KnownWasLoaded == link # "lost" => known \subseteq server \cup forgotten

(* What make_script() is about to insert. *)
LoadedIsThere ==
    /\ pc = "loaded" => text \in server \cup forgotten
    /\ pc = "null" => link = "lost"

(* A Script views the text of the SHA1 in the cache, whose nodes outlive   *)
(* flushes, reconnections and moves of the Command; only a Script that     *)
(* Script() made, or one of an empty text in a cryptopp build, views       *)
(* nothing.                                                                *)
HandlesViewCache == handles \subseteq known \cup {NoSha}

(* The manager sends through the Command it belongs to, not through one    *)
(* that was moved from and has no connection any more.                     *)
SendsThroughCommand == m_command = home

(* The inductive invariant. *)
IndInv ==
    /\ TypeOK
    /\ LoadSent
    /\ KnownWasLoaded
    /\ LoadedIsThere
    /\ HandlesViewCache
    /\ SendsThroughCommand

(* The server answers NOSCRIPT only to a script it was given and dropped   *)
(* since, and to the empty SHA1 of a Script that has none: a Script never  *)
(* runs ahead of its load, and no load is taken for done that failed.      *)
NoscriptWasForgotten ==
    [][ Oldest("EVALSHA") /\ sent' = Tail(sent) /\ link' = "up"
        => Head(sent)[2] \in server \cup forgotten \cup {NoSha} ]_vars
=============================================================================
