------------------------------ MODULE Sockets -------------------------------
(***************************************************************************)
(* Who has a socket open, and how an event reaches it on whichever         *)
(* instance holds it (core/websocket_manager.py, endpoints/websocket.py).  *)
(*                                                                         *)
(* Each instance is one event loop: what it does between two awaits is one *)
(* step, and at an await anything else of it may run.  An instance keeps   *)
(* one socket per person; the instances pass messages through a Redis      *)
(* channel that a subscriber hears in order while it is connected, and     *)
(* not at all while it is not.  A socket whose other end has gone is not   *)
(* known to have until something is sent or the server's ping is missed.   *)
(***************************************************************************)
EXTENDS Integers, Sequences, FiniteSets, SequencesExt

CONSTANTS
    Instances,
    People,
    Conns,        \* bound: the sockets that are ever opened
    Tasks,        \* bound: sends an instance's requests have going at once
    MaxMessages,  \* bound: messages ever sent
    NULL

\* What is passed between instances: an event for one person or for all
\* (NULL), or a close.
Message == [id : 1..MaxMessages, origin : Instances, to : People \cup {NULL}, close : BOOLEAN]

ASSUME SocketsAssumption ==
    /\ MaxMessages \in Nat /\ IsFiniteSet(People) /\ Tasks \cap Instances = {}
    /\ NULL \notin Instances \cup People \cup Conns /\ NULL \notin Message

\* The work an instance has going: its relay, and tasks of requests.
Jobs == Instances \cup Tasks

VARIABLES
    active,    \* active_sockets of each instance
    conn,      \* each connection
    out,       \* deactivated_at set, of each account
    up,        \* the instance's relay is connected: _client is set
    inbox,     \* published and not yet heard by the instance
    job,       \* what is being sent or closed
    sent,      \* how many messages there have been
    heard,     \* history: how often each connection was sent each message
    missed     \* history: the instances a close never reached

vars == <<active, conn, out, up, inbox, job, sent, heard, missed>>

NoJob == [inst |-> NULL, msg |-> NULL, queue |-> <<>>, publish |-> FALSE]
NoConn == [at |-> "none", inst |-> NULL, user |-> NULL, open |-> FALSE, late |-> FALSE,
           evicted |-> FALSE, newest |-> FALSE]

Init ==
    /\ active = [i \in Instances |-> [p \in People |-> NULL]]
    /\ conn = [c \in Conns |-> NoConn]
    /\ out = [p \in People |-> FALSE]
    /\ up = [i \in Instances |-> TRUE]
    /\ inbox = [i \in Instances |-> <<>>]
    /\ job = [j \in Jobs |-> NoJob]
    /\ sent = 0
    /\ heard = [c \in Conns |-> [m \in 1..MaxMessages |-> 0]]
    /\ missed = {}

-----------------------------------------------------------------------------
(* The endpoint. *)

\* accept
Accept(c, i, p) ==
    /\ conn[c].at = "none"
    /\ conn' = [conn EXCEPT ![c] = [NoConn EXCEPT !.at = "auth", !.inst = i, !.user = p,
                                                  !.open = TRUE]]
    /\ UNCHANGED <<active, out, up, inbox, job, sent, heard, missed>>

\* _identify, in a thread: the account is read, and the socket closed unless
\* it may connect; or the AUTH frame does not come in time.
Identify(c) ==
    /\ conn[c].at = "auth"
    /\ \/ ~out[conn[c].user] /\ conn' = [conn EXCEPT ![c].at = "checked"]
       \/ conn' = [conn EXCEPT ![c].at = "gone", ![c].open = FALSE]
    /\ UNCHANGED <<active, out, up, inbox, job, sent, heard, missed>>

\* register_session, back on the event loop.
RegisterSession(c) ==
    LET x == conn[c]
    IN  /\ x.at = "checked"
        /\ active' = [active EXCEPT ![x.inst][x.user] = c]
        /\ conn' = [d \in Conns |->
             IF d = c THEN [x EXCEPT !.at = "in", !.late = out[x.user], !.newest = TRUE]
             ELSE IF conn[d].inst = x.inst /\ conn[d].user = x.user
               THEN [conn[d] EXCEPT !.newest = FALSE] ELSE conn[d]]
        /\ UNCHANGED <<out, up, inbox, job, sent, heard, missed>>

\* The other end goes away; nobody here knows.
HangUp(c) ==
    /\ conn[c].at # "none" /\ conn[c].open
    /\ conn' = [conn EXCEPT ![c].open = FALSE]
    /\ UNCHANGED <<active, out, up, inbox, job, sent, heard, missed>>

\* Mutant: a closing connection takes the person's entry whoever's it is.
TerminateSessionAny(acts, i, p, c) == [acts EXCEPT ![i][p] = NULL]

\* terminate_session with the socket that closed: a replacement is left alone.
TerminateSession(acts, i, p, c) ==
    IF acts[i][p] = c THEN [acts EXCEPT ![i][p] = NULL] ELSE acts

\* The endpoint's loop ends: the disconnect is noticed, and the finally runs.
Disconnected(c) ==
    /\ conn[c].at = "in" /\ ~conn[c].open
    /\ active' = TerminateSession(active, conn[c].inst, conn[c].user, c)
    /\ conn' = [conn EXCEPT ![c].at = "gone"]
    /\ UNCHANGED <<out, up, inbox, job, sent, heard, missed>>
-----------------------------------------------------------------------------
(* Messages. *)

\* list(active_sockets.items()), or the one entry the message is for.
Recipients(i, to) ==
    SetToSeq({<<p, active[i][p]>> : p \in {q \in People : active[i][q] # NULL
                                                          /\ (to = NULL \/ to = q)}})

\* forward_direct_message, or broadcast_global_event for NULL.
Forward(j, i, to) ==
    /\ j \in Tasks /\ job[j] = NoJob /\ sent < MaxMessages
    /\ sent' = sent + 1
    /\ job' = [job EXCEPT ![j] =
         [inst |-> i, queue |-> Recipients(i, to), publish |-> TRUE,
          msg |-> [id |-> sent + 1, origin |-> i, to |-> to, close |-> FALSE]]]
    /\ UNCHANGED <<active, conn, out, up, inbox, heard, missed>>

\* deactivate_user commits, and its background task is close_session.
DeactivateUser(j, i, p) ==
    /\ j \in Tasks /\ job[j] = NoJob /\ sent < MaxMessages /\ ~out[p]
    /\ out' = [out EXCEPT ![p] = TRUE]
    /\ sent' = sent + 1
    /\ job' = [job EXCEPT ![j] =
         [inst |-> i, queue |-> <<<<p, NULL>>>>, publish |-> TRUE,
          msg |-> [id |-> sent + 1, origin |-> i, to |-> p, close |-> TRUE]]]
    /\ UNCHANGED <<active, conn, up, inbox, heard, missed>>

\* _close_here: whatever socket the person has here now is forgotten and closed.
CloseHere(j) ==
    LET i == job[j].inst
        p == Head(job[j].queue)[1]
    IN  /\ job[j].queue # <<>> /\ job[j].msg.close
        /\ active' = [active EXCEPT ![i][p] = NULL]
        /\ conn' = IF active[i][p] = NULL THEN conn
                     ELSE [conn EXCEPT ![active[i][p]].open = FALSE]
        /\ job' = [job EXCEPT ![j].queue = Tail(@)]
        /\ UNCHANGED <<out, up, inbox, sent, heard, missed>>

\* terminate_session with no socket: the person's entry goes, whichever it is.
Forget(i, p, c) == [active EXCEPT ![i][p] = NULL]

\* _deliver_here and _broadcast_here: a send is awaited, and when it fails the
\* person's session is terminated.
SendText(j) ==
    LET i == job[j].inst
        p == Head(job[j].queue)[1]
        c == Head(job[j].queue)[2]
        now == active[i][p]
    IN  /\ job[j].queue # <<>> /\ ~job[j].msg.close
        /\ IF conn[c].open
             THEN /\ heard' = [heard EXCEPT ![c][job[j].msg.id] = @ + 1]
                  /\ UNCHANGED <<active, conn>>
             ELSE /\ active' = Forget(i, p, c)
                  /\ conn' = IF now \notin {NULL, c} THEN [conn EXCEPT ![now].evicted = TRUE]
                               ELSE conn
                  /\ UNCHANGED heard
        /\ job' = [job EXCEPT ![j].queue = Tail(@)]
        /\ UNCHANGED <<out, up, inbox, sent, missed>>

\* _publish: every connected instance will hear it, this one too; or Redis has
\* gone away and nobody does.
Publish(j) ==
    LET m == job[j].msg
        to == {i \in Instances : up[i]}
        reached == IF up[job[j].inst] THEN {to, {}} ELSE {{}}
    IN  /\ job[j].publish /\ job[j].queue = <<>>
        /\ \E is \in reached :
             /\ inbox' = [i \in Instances |-> IF i \in is THEN Append(inbox[i], m) ELSE inbox[i]]
             /\ missed' = IF m.close THEN missed \cup (Instances \ (is \cup {m.origin})) ELSE missed
        /\ job' = [job EXCEPT ![j] = NoJob]
        /\ UNCHANGED <<active, conn, out, up, sent, heard>>

\* Mutant: an instance's own messages come back to it.
FromElsewhereOrHere(m, i) == TRUE

\* _relay drops what this instance published itself.
FromElsewhere(m, i) == m.origin # i

\* Mutant: a close has no event, and is dropped as malformed.
RelayedEvents(i, m) == IF m.close THEN <<>> ELSE Recipients(i, m.to)

\* Whom a message that came through the relay is for.
Relayed(i, m) == IF m.close THEN <<<<m.to, NULL>>>> ELSE Recipients(i, m.to)

\* _relay, one message at a time.
Relay(i) ==
    LET m == Head(inbox[i])
    IN  /\ inbox[i] # <<>> /\ job[i].queue = <<>>
        /\ inbox' = [inbox EXCEPT ![i] = Tail(@)]
        /\ job' = IF FromElsewhere(m, i)
                    THEN [job EXCEPT ![i] = [inst |-> i, queue |-> Relayed(i, m), msg |-> m,
                                             publish |-> FALSE]]
                    ELSE job
        /\ UNCHANGED <<active, conn, out, up, sent, heard, missed>>
-----------------------------------------------------------------------------
(* run_relay *)

\* Redis cannot be reached: what was published and not heard is lost to it.
RelayDown(i) ==
    /\ up[i] /\ job[i].queue = <<>>
    /\ up' = [up EXCEPT ![i] = FALSE]
    /\ missed' = IF \E m \in Range(inbox[i]) : m.close /\ m.origin # i
                   THEN missed \cup {i} ELSE missed
    /\ inbox' = [inbox EXCEPT ![i] = <<>>]
    /\ UNCHANGED <<active, conn, out, job, sent, heard>>

RelayUp(i) ==
    /\ ~up[i]
    /\ up' = [up EXCEPT ![i] = TRUE]
    /\ UNCHANGED <<active, conn, out, inbox, job, sent, heard, missed>>

-----------------------------------------------------------------------------
Next ==
    \/ \E c \in Conns, i \in Instances, p \in People : Accept(c, i, p)
    \/ \E c \in Conns : Identify(c) \/ RegisterSession(c) \/ HangUp(c) \/ Disconnected(c)
    \/ \E j \in Tasks, i \in Instances, to \in People \cup {NULL} : Forward(j, i, to)
    \/ \E j \in Tasks, i \in Instances, p \in People : DeactivateUser(j, i, p)
    \/ \E j \in Jobs : CloseHere(j) \/ SendText(j) \/ Publish(j)
    \/ \E i \in Instances : Relay(i) \/ RelayDown(i) \/ RelayUp(i)

Spec == Init /\ [][Next]_vars
-----------------------------------------------------------------------------
(* What it promises. *)

\* Nobody hears an event twice, though the instance that sends it also hears
\* it come back from the channel.
HeardOnce == \A c \in Conns : \A m \in 1..MaxMessages : heard[c][m] <= 1

\* The connection a person has registered last with an instance, while it works.
Latest(c) == conn[c].at = "in" /\ conn[c].open /\ conn[c].newest

\* "A reconnect replaces the stored socket; when the stale connection then
\* closes, it must not evict the replacement": a person's latest working
\* connection is the one events go to, and only the failure of a send that was
\* under way takes its entry, in any order of registering, closing and noticing.
OnlyAFailedSendEvicts ==
    \A c \in Conns : Latest(c) => active[conn[c].inst][conn[c].user] = c \/ conn[c].evicted

\* An event goes to the socket a person opened last, and goes there once.
EventsFindTheSocket == HeardOnce /\ OnlyAFailedSendEvicts

\* A close for this person is still on its way to the instance.
Closing(i, p) ==
    \/ \E j \in Jobs : job[j].msg # NULL /\ job[j].msg.close /\ job[j].msg.to = p
                       /\ (job[j].publish \/ (job[j].inst = i /\ job[j].queue # <<>>))
    \/ \E m \in Range(inbox[i]) : m.close /\ m.to = p

\* Once the close has gone round, no event reaches a deactivated person on any
\* instance that was connected to hear it; only a socket that was being
\* identified while the account was deactivated is registered after it.
DeactivatedHearNothing ==
    \A i \in Instances, p \in People :
        out[p] /\ i \notin missed /\ ~Closing(i, p) /\ active[i][p] # NULL =>
            conn[active[i][p]].late
=============================================================================
