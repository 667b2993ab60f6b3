------------------------------ MODULE Embedder ------------------------------
(***************************************************************************)
(* The shared embedder: daemons that hold the embedding model and serve it *)
(* over a socket (src/src/vector/embedder/server.ts), and the clients that *)
(* find, check, evict, start and use them (client.ts), on a POSIX system.  *)
(*                                                                         *)
(* A daemon is elected by a lock file with a pid and by the socket file it *)
(* binds; both are files any process may delete.  A client is the client   *)
(* object of one session: one socket and one attempt to connect, shared by *)
(* all its embed calls (a warm-up, queries, an index run) and by the       *)
(* status checks of the session.  A failed call fails the requests beside  *)
(* it, and a request goes to the socket that is there, compared or not.    *)
(*                                                                         *)
(* A member of Daemon is a process slot: a process that has ended leaves   *)
(* its slot free and, in the files it did not delete, a Dead owner.        *)
(***************************************************************************)
EXTENDS Integers, FiniteSets

CONSTANTS
    Daemon, Client,
    Caller,      \* the embed calls that may be under way at a time
    Host,        \* the client of each
    Identity,    \* fingerprints: preset, dtype and dimensions
    Wanted,      \* the fingerprint each client is configured with
    Peeking,     \* the clients whose session also asks for the embedder's status
    NoOne, Dead, \* no such file or connection; a file whose owner has ended
    MaxFaults    \* bound on the daemons killed or stopped by a user and on late answers

ASSUME WantedIdentities == Wanted \in [Client -> Identity]
ASSUME PeekingAreClients == Peeking \subseteq Client
ASSUME CallersHaveClients == Host \in [Caller -> Client]
ASSUME NoOneAndDead == NoOne # Dead /\ NoOne \notin Daemon /\ Dead \notin Daemon
ASSUME MaxFaultsIsNat == MaxFaults \in Nat

VARIABLES
    lock,    \* whose pid is in embedder.log.lock
    path,    \* whose socket file has the pipe path
    stage,   \* what each daemon does next
    model,   \* the fingerprint each daemon serves
    asked,   \* the daemons that were sent a shutdown
    conn,    \* the daemon each client's socket leads to
    link,    \* what each client's attempt to connect does next
    greeted, \* the daemon that was sent the hello of the attempt
    call,    \* whether each call waits for the attempt or for its answer
    retried, \* the calls in their second attempt
    sent,    \* the daemon each request went to
    vetted,  \* history: the clients whose connection was compared
    unvetted,\* history: the requests that went over a connection nobody had compared
    killed,  \* history: a daemon was killed, in this session or before
    faults   \* the faults so far, see MaxFaults

serverVars == <<lock, path, stage, model, asked, killed>>
callVars == <<call, retried, sent, unvetted>>
clientVars == <<conn, link, greeted, vetted, callVars>>
embedderVars == <<serverVars, faults, clientVars>>

Owner == Daemon \cup {NoOne, Dead}

Starting == {"load", "read", "remove", "create", "listen", "probe", "unlink", "relisten"}

Running(d) == stage[d] # "free"
Serves(d) == stage[d] = "serve"
Reachable == path \in Daemon /\ Serves(path)

EmbedderTypeOK ==
    /\ lock \in Owner /\ path \in Owner
    /\ stage \in [Daemon -> Starting \cup {"free", "serve", "unlock"}]
    /\ model \in [Daemon -> Identity]
    /\ asked \subseteq {d \in Daemon : Serves(d)}
    /\ conn \in [Client -> Daemon \cup {NoOne}] /\ greeted \in [Client -> Daemon \cup {NoOne}]
    /\ sent \in [Caller -> Daemon \cup {NoOne}]
    /\ \A c \in Client : conn[c] # NoOne => Serves(conn[c])
    /\ \A c \in Client : greeted[c] # NoOne => Serves(greeted[c]) /\ conn[c] # NoOne
    /\ \A k \in Caller : sent[k] # NoOne => Serves(sent[k])
    /\ link \in [Client -> {"none", "reach", "check", "spawn", "wait", "verify"}]
    /\ call \in [Caller -> {"none", "join", "request"}]
    /\ retried \subseteq Caller /\ unvetted \subseteq Caller /\ vetted \subseteq Client
    /\ killed \in BOOLEAN /\ faults \in 0 .. MaxFaults

\* A session starts on a machine where no embedder runs, whatever files the last one
\* left, or where one runs that some other configuration started.
EmbedderInit ==
    /\ \/ /\ lock \in {NoOne, Dead} /\ path \in {NoOne, Dead}
          /\ stage = [d \in Daemon |-> "free"]
       \/ \E d \in Daemon : /\ lock = d /\ path = d
                            /\ stage = [e \in Daemon |-> IF e = d THEN "serve" ELSE "free"]
    /\ \E m \in Identity : model = [d \in Daemon |-> m]
    /\ asked = {} /\ killed = (path = Dead)
    /\ faults = IF path = Dead THEN MaxFaults ELSE 0
    /\ conn = [c \in Client |-> NoOne] /\ greeted = conn
    /\ link = [c \in Client |-> "none"]
    /\ call = [k \in Caller |-> "none"]
    /\ sent = [k \in Caller |-> NoOne]
    /\ retried = {} /\ vetted = {} /\ unvetted = {}

-----------------------------------------------------------------------------
(* Connections *)

Waits(c) == \E k \in Caller : Host[k] = c /\ call'[k] = "join"

\* The clients of D drop their sockets, the attempts of F fail and the daemons of G are
\* gone.  drop rejects whatever is pending: the hello of an attempt, which then fails or
\* starts a daemon, and every request.  What fails the first time is tried once more
\* (embedBatch), on the attempt under way if there is one, even a failing one.
Lose(D, F, G) ==
    LET hit == {k \in Caller : Host[k] \in D /\ call[k] = "request"}
        left == {k \in Caller : Host[k] \in F /\ call[k] = "join"}
        ended == {k \in hit : k \in retried \/ link[Host[k]] = "verify"} \cup (left \cap retried)
    IN /\ call' = [k \in Caller |-> IF k \in ended THEN "none"
                                    ELSE IF k \in hit THEN "join" ELSE call[k]]
       /\ retried' = (retried \cup hit \cup left) \ ended
       /\ sent' = [k \in Caller |-> IF k \in hit \/ sent[k] \in G THEN NoOne ELSE sent[k]]
       /\ unvetted' = unvetted \ hit
       /\ conn' = [c \in Client |-> IF c \in D THEN NoOne ELSE conn[c]]
       /\ greeted' = [c \in Client |-> IF c \in D \/ greeted[c] \in G THEN NoOne ELSE greeted[c]]
       /\ vetted' = vetted \ D
       /\ link' = [c \in Client |->
              IF c \in F \/ (c \in D /\ link[c] = "none") THEN IF Waits(c) THEN "reach" ELSE "none"
              ELSE IF c \in D /\ link[c] = "check" THEN "spawn" ELSE link[c]]

Drop(D, G) == Lose(D, {c \in D : link[c] = "verify"}, G)

-----------------------------------------------------------------------------
(* Daemons *)

Become(d, s) == stage' = [stage EXCEPT ![d] = s]

\* The process's sockets are closed.
Vanish(d) ==
    /\ asked' = asked \ {d}
    /\ Drop({c \in Client : conn[c] = d}, {d})

\* The process ends without cleaning up: exit(1) after an error, or a kill.
End(d) ==
    /\ Become(d, "free")
    /\ lock' = IF lock = d THEN Dead ELSE lock
    /\ path' = IF path = d THEN Dead ELSE path
    /\ Vanish(d)

\* The model is loaded before anything else.
Loaded(d) ==
    /\ stage[d] = "load"
    /\ Become(d, "read")
    /\ UNCHANGED <<lock, path, model, asked, killed, faults, clientVars>>

\* claimSingleInstance: a live holder wins ...
ReadPid(d) ==
    /\ stage[d] = "read"
    /\ IF lock \in Daemon
       THEN End(d)
       ELSE Become(d, "remove") /\ UNCHANGED <<lock, path, asked, clientVars>>
    /\ UNCHANGED <<model, killed, faults>>

\* ... any other lock file is deleted ...
RemoveLock(d) ==
    /\ stage[d] = "remove"
    /\ lock' = NoOne
    /\ Become(d, "create")
    /\ UNCHANGED <<path, model, asked, killed, faults, clientVars>>

\* ... and created again, exclusively.
CreateLock(d) ==
    /\ stage[d] = "create"
    /\ IF lock = NoOne
       THEN lock' = d /\ Become(d, "listen") /\ UNCHANGED <<path, asked, clientVars>>
       ELSE End(d)
    /\ UNCHANGED <<model, killed, faults>>

Listen(d) ==
    /\ stage[d] = "listen"
    /\ IF path = NoOne
       THEN path' = d /\ Become(d, "serve")
       ELSE path' = path /\ Become(d, "probe")
    /\ UNCHANGED <<lock, model, asked, killed, faults, clientVars>>

\* Mutants: whatever has the path is stale; nothing is.
AnySocketIsStale == path # NoOne
NoSocketIsStale == FALSE

StaleSocket == path = Dead

\* EADDRINUSE: the socket file is replaced only if connecting to it is refused.
Probe(d) ==
    /\ stage[d] = "probe"
    /\ IF StaleSocket
       THEN Become(d, "unlink") /\ UNCHANGED <<lock, path, asked, clientVars>>
       ELSE End(d)
    /\ UNCHANGED <<model, killed, faults>>

\* unlinkSync throws if the file is gone.
Unlink(d) ==
    /\ stage[d] = "unlink"
    /\ IF path # NoOne
       THEN path' = NoOne /\ Become(d, "relisten") /\ UNCHANGED <<lock, asked, clientVars>>
       ELSE End(d)
    /\ UNCHANGED <<model, killed, faults>>

Relisten(d) ==
    /\ stage[d] = "relisten"
    /\ IF path = NoOne
       THEN path' = d /\ Become(d, "serve") /\ UNCHANGED <<lock, asked, clientVars>>
       ELSE End(d)
    /\ UNCHANGED <<model, killed, faults>>

\* A socket that an attach replaced stays open as long as something is pending on it.
Connected(d) ==
    \/ \E c \in Client : d \in {conn[c], greeted[c]}
    \/ \E k \in Caller : sent[k] = d

\* stop: on a shutdown request, or when nobody has been connected for idleExitMs,
\* which is longer than any call takes to reach it.  The sockets are destroyed and
\* the socket file deleted, whosever it is.
Stop(d) ==
    /\ Serves(d)
    /\ \/ d \in asked
       \/ ~Connected(d) /\ (path # d \/ \A k \in Caller : call[k] = "none")
    /\ path' = NoOne
    /\ Vanish(d)
    /\ Become(d, "unlock")
    /\ UNCHANGED <<lock, model, killed, faults>>

\* Ten milliseconds later the lock file goes, whosever it is, and the process ends.
Unlock(d) ==
    /\ stage[d] = "unlock"
    /\ lock' = NoOne
    /\ Become(d, "free")
    /\ UNCHANGED <<path, model, asked, killed, faults, clientVars>>

Kill(d) ==
    /\ Running(d) /\ faults < MaxFaults
    /\ faults' = faults + 1 /\ killed' = TRUE
    /\ End(d)
    /\ UNCHANGED model

DaemonStep(d) ==
    \/ Loaded(d) \/ ReadPid(d) \/ RemoveLock(d) \/ CreateLock(d) \/ Listen(d)
    \/ Probe(d) \/ Unlink(d) \/ Relisten(d) \/ Unlock(d)

-----------------------------------------------------------------------------
(* Clients *)

Proceed(c, l) == link' = [link EXCEPT ![c] = l]
Attached(c) == conn' = [conn EXCEPT ![c] = path]
Fault == faults < MaxFaults /\ faults' = faults + 1

\* embedBatch and ensure: a socket that is there is used as it is, also one that another
\* call or a status check has attached and nobody has compared; otherwise the call joins
\* the attempt to connect, or makes one.
Embed(k) ==
    LET c == Host[k] IN
    /\ call[k] = "none"
    /\ call' = [call EXCEPT ![k] = IF conn[c] # NoOne THEN "request" ELSE "join"]
    /\ sent' = [sent EXCEPT ![k] = conn[c]]
    /\ unvetted' = IF conn[c] # NoOne /\ c \notin vetted THEN unvetted \cup {k} ELSE unvetted
    /\ IF conn[c] = NoOne /\ link[c] = "none" THEN Proceed(c, "reach") ELSE link' = link
    /\ UNCHANGED <<serverVars, faults, conn, greeted, vetted, retried>>

\* reach and waitForDaemon: attach, then hello.
Attach(c) ==
    /\ link[c] \in {"reach", "wait"}
    /\ Reachable
    /\ Attached(c)
    /\ greeted' = [greeted EXCEPT ![c] = path]
    /\ Proceed(c, IF link[c] = "reach" THEN "check" ELSE "verify")
    /\ UNCHANGED <<serverVars, faults, vetted, callVars>>

\* The third attempt to connect fails.
ReachFails(c) ==
    /\ link[c] = "reach"
    /\ ~Reachable
    /\ Proceed(c, "spawn")
    /\ UNCHANGED <<serverVars, faults, conn, greeted, vetted, callVars>>

\* Mutant: any daemon that answers will do.
MatchesAnswering(c) == greeted[c] # NoOne

\* The answer to the hello, if there is one.
Matches(c) == greeted[c] # NoOne /\ model[greeted[c]] = Wanted[c]

\* The attempt has succeeded: the calls that waited for it send their requests, over
\* whatever socket the client has by now.
Succeed(c) ==
    LET waiting == {k \in Caller : Host[k] = c /\ call[k] = "join"} IN
    /\ Proceed(c, "none")
    /\ call' = [k \in Caller |-> IF k \in waiting THEN "request" ELSE call[k]]
    /\ sent' = [k \in Caller |-> IF k \in waiting THEN conn[c] ELSE sent[k]]
    /\ greeted' = [greeted EXCEPT ![c] = NoOne]
    /\ IF conn[c] = greeted[c]
       THEN vetted' = vetted \cup {c} /\ UNCHANGED unvetted
       ELSE unvetted' = unvetted \cup waiting /\ UNCHANGED vetted
    /\ UNCHANGED <<conn, retried>>

\* reach: a daemon with another identity is told to shut down; a new one is to take
\* its place.
Check(c) ==
    /\ link[c] = "check"
    /\ IF Matches(c)
       THEN Succeed(c) /\ UNCHANGED asked
       ELSE /\ asked' = IF greeted[c] # NoOne THEN asked \cup {conn[c]} ELSE asked
            /\ Drop({c}, {})
    /\ UNCHANGED <<lock, path, stage, model, killed, faults>>

Spawn(c) ==
    /\ link[c] = "spawn"
    /\ \E d \in Daemon : /\ ~Running(d)
                         /\ Become(d, "load")
                         /\ model' = [model EXCEPT ![d] = Wanted[c]]
    /\ Proceed(c, "wait")
    /\ UNCHANGED <<lock, path, asked, killed, faults, conn, greeted, vetted, callVars>>

\* waitForDaemon: whoever answers has to be the right one.
Verify(c) ==
    /\ link[c] = "verify"
    /\ IF Matches(c) THEN Succeed(c) ELSE Drop({c}, {})
    /\ UNCHANGED <<serverVars, faults>>

\* The deadline passes; it is longer than a start takes.  A call that tries again drops
\* what a status check may have attached meanwhile.
GiveUp(c) ==
    /\ link[c] = "wait"
    /\ ~Reachable
    /\ \A d \in Daemon : stage[d] \notin Starting
    /\ LET again == {k \in Caller : Host[k] = c /\ call[k] = "join" /\ k \notin retried}
       IN Lose(IF again = {} THEN {} ELSE {c}, {c}, {})
    /\ UNCHANGED <<serverVars, faults>>

\* A call is over.
Return(k) ==
    /\ call' = [call EXCEPT ![k] = "none"]
    /\ sent' = [sent EXCEPT ![k] = NoOne]
    /\ retried' = retried \ {k} /\ unvetted' = unvetted \ {k}
    /\ UNCHANGED <<conn, link, greeted, vetted>>

Answer(k) ==
    /\ call[k] = "request"
    /\ sent[k] # NoOne
    /\ Return(k)
    /\ UNCHANGED <<serverVars, faults>>

\* The daemon is gone behind a socket that was replaced, or the answer takes too long:
\* the first time the call drops the client's socket and tries again, the second time it
\* leaves it.
RequestFails(k) ==
    /\ call[k] = "request"
    /\ IF sent[k] = NoOne THEN UNCHANGED faults ELSE Fault
    /\ IF k \in retried THEN Return(k) ELSE Drop({Host[k]}, {})
    /\ UNCHANGED serverVars

\* peek: the status check attaches to whatever answers and leaves the connection; if
\* none answers it drops the one there was.
Peek(c) ==
    /\ c \in Peeking
    /\ IF Reachable
       THEN /\ Attached(c)
            /\ vetted' = IF conn[c] = path THEN vetted ELSE vetted \ {c}
            /\ UNCHANGED <<link, greeted, callVars>>
       ELSE Drop({c}, {})
    /\ UNCHANGED <<serverVars, faults>>

\* The hello of a status check or of an attempt to connect is answered too late.
HelloFails(c) ==
    /\ conn[c] # NoOne
    /\ c \in Peeking \/ greeted[c] # NoOne
    /\ Fault
    /\ Drop({c}, {})
    /\ UNCHANGED serverVars

\* stop: any daemon the client is connected to or finds, unchecked.
StopEmbedder(c) ==
    /\ c \in Peeking
    /\ Reachable \/ conn[c] # NoOne
    /\ Fault
    /\ asked' = asked \cup {IF conn[c] # NoOne THEN conn[c] ELSE path}
    /\ Drop({c}, {})
    /\ UNCHANGED <<lock, path, stage, model, killed>>

ClientStep(c) ==
    Attach(c) \/ ReachFails(c) \/ Check(c) \/ Spawn(c) \/ Verify(c) \/ GiveUp(c)

EmbedderNext ==
    \/ \E d \in Daemon : DaemonStep(d) \/ Stop(d) \/ Kill(d)
    \/ \E c \in Client : ClientStep(c) \/ Peek(c) \/ HelloFails(c) \/ StopEmbedder(c)
    \/ \E k \in Caller : Embed(k) \/ Answer(k) \/ RequestFails(k)

EmbedderSpec == EmbedderInit /\ [][EmbedderNext]_embedderVars

\* Processes go on, a request is answered or fails, and a daemon that was told to stop, or
\* that nobody is connected to for long enough, stops.
Fairness ==
    /\ \A d \in Daemon : WF_embedderVars(DaemonStep(d)) /\ WF_embedderVars(Stop(d))
    /\ \A c \in Client : WF_embedderVars(ClientStep(c))
    /\ \A k \in Caller : WF_embedderVars(Answer(k) \/ RequestFails(k))

EmbedderFairSpec == EmbedderSpec /\ Fairness

-----------------------------------------------------------------------------

\* "A client whose configured identity does not match must refuse to use the daemon's
\* vectors" (protocol.ts:5-6).  client.ts:275 takes any socket, so that is so but for the
\* requests that went over a connection before anybody compared it; and in a session that
\* does not ask for the embedder's status a foreign daemon is connected for as long as its
\* hello is under way, no longer (client.ts:291-334), whichever calls fail beside it and
\* whatever daemons are evicted, replaced, killed or raced for by other sessions.
CheckedVectorsMatch ==
    /\ EmbedderTypeOK
    /\ \A k \in Caller \ unvetted : sent[k] # NoOne => model[sent[k]] = Wanted[Host[k]]
    /\ \A c \in Client \ Peeking :
          conn[c] # NoOne /\ link[c] \notin {"check", "verify"} => model[conn[c]] = Wanted[c]

SocketsAreTheirs == \A d \in Daemon : Serves(d) => path = d

\* "One daemon per agent dir" (server.ts:55-59): until a daemon is killed, a daemon that
\* serves is the one and only that clients reach, although the lock file may let two
\* daemons pass (server.ts:60-74): binding the socket decides between them.
OneEmbedderServes == ~killed => SocketsAreTheirs

\* A call that is made again and again sends its request again and again, to the right
\* daemon if nobody asks for the embedder's status in the session, whatever files killed
\* daemons left behind (server.ts:60-74, 263-273) and whatever calls fail beside it, unless
\* two daemons that replace the same stale socket leave one of them without its file.
CallsAreServed ==
    <>[]SocketsAreTheirs =>
        \A k \in Caller :
            []<>(call[k] # "none")
                => []<>(/\ call[k] = "request" /\ sent[k] # NoOne
                        /\ Host[k] \in Peeking \/ model[sent[k]] = Wanted[Host[k]])
=============================================================================
