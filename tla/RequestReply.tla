---------------------------- MODULE RequestReply ----------------------------
(***************************************************************************)
(* What the user of a command may rely on: a request is carried out at     *)
(* most once, and never after the command has ended with an answer; the    *)
(* answer says truly whether it was.  A command that gave up, was killed   *)
(* or cannot know says nothing, and its request may still be carried out   *)
(* before the same terminal asks for something else.                       *)
(***************************************************************************)
EXTENDS Naturals

CONSTANT Clients

\* Per client: what its command is doing or has said, whether its request may yet
\* be carried out, and how often it was.
VARIABLE request

Answers == {"done", "undone", "unknown"}
Nothing == [client |-> "away", pending |-> FALSE, done |-> 0]

\* Of a command that nobody watches and nothing can come of any more, nothing is left.
Settled(r) == IF r.client = "away" /\ ~r.pending THEN Nothing ELSE r

Becomes(c, r) == request' = [request EXCEPT ![c] = Settled(r)]

ReplyInit == request = [c \in Clients |-> Nothing]

Ask(c) ==
  request[c] = Nothing /\ Becomes(c, [client |-> "waiting", pending |-> TRUE, done |-> 0])

Do(c) ==
  /\ request[c].pending /\ request[c].done = 0
  /\ Becomes(c, [request[c] EXCEPT !.done = 1])

Tell(c) ==
  /\ request[c].client = "waiting"
  /\ \/ request[c].done = 1 /\ Becomes(c, [client |-> "done", pending |-> FALSE, done |-> 1])
     \/ request[c].done = 0 /\ Becomes(c, [client |-> "undone", pending |-> FALSE, done |-> 0])

\* The command ends without an answer, or is killed.
GiveUp(c) ==
  /\ request[c].client = "waiting"
  /\ \E how \in {"unknown", "away"}, b \in BOOLEAN :
       Becomes(c, [request[c] EXCEPT !.client = how, !.pending = b])

Forget(c) ==
  request[c].client \in Answers /\ Becomes(c, [request[c] EXCEPT !.client = "away"])

\* Nothing more comes of the requests that these clients have given up: a handler
\* has ended, or the server has stopped.
Drop(S) ==
  /\ \A c \in S : request[c].client # "waiting"
  /\ request' = [c \in Clients |-> IF c \in S THEN Settled([request[c] EXCEPT !.pending = FALSE])
                                              ELSE request[c]]

ReplyNext ==
  \/ \E c \in Clients : Ask(c) \/ Do(c) \/ Tell(c) \/ GiveUp(c) \/ Forget(c)
  \/ \E S \in SUBSET Clients : Drop(S)

ReplySpec == ReplyInit /\ [][ReplyNext]_request
=============================================================================
