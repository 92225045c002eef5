------------------------------- MODULE Promise -------------------------------
(***************************************************************************)
(* What serverCore.js promises of accounts and of the commands sent to     *)
(* them, without connections, devices and messages: an account has one     *)
(* holder at a time and passes from one to the next in one step, which     *)
(* fails the commands the former holder had not answered; a command is     *)
(* settled once, and its HTTP request is answered once, by then at the     *)
(* latest.  Sessions implements it.                                        *)
(***************************************************************************)
CONSTANTS
  Peers,      \* connections and bridge sessions
  Accounts,
  Users,      \* the accounts that commands are sent to
  Commands,
  None

VARIABLES
  holders,    \* per account: the peers that have it
  command     \* per command: its stage, its user, the peer it went to, the HTTP answer,
              \* and whether the Companions were told a verdict

promiseVars == <<holders, command>>

Unsent == [stage |-> "new", user |-> None, at |-> None, reply |-> "none", told |-> FALSE]

\* The command is settled: whoever waits for its HTTP request gets the reply.
Settled(m, reply) ==
  [stage |-> "settled", user |-> m.user, at |-> m.at,
   reply |-> IF m.reply = "waiting" THEN reply ELSE m.reply, told |-> TRUE]

Init ==
  /\ holders = [a \in Accounts |-> {}]
  /\ command = [c \in Commands |-> Unsent]

\* The account a passes to a peer without one, or to nobody.
Pass(a) ==
  /\ \/ \E p \in Peers \ UNION {holders[b] : b \in Accounts} : holders' = [holders EXCEPT ![a] = {p}]
     \/ holders' = [holders EXCEPT ![a] = {}]
  /\ command' = [c \in Commands |->
       IF command[c].stage = "pending" /\ command[c].at \in holders[a] THEN Settled(command[c], "failed")
       ELSE command[c]]

\* A command goes to the holder of its user, or is refused when there is none.
Send(c, u) ==
  /\ command[c].stage = "new"
  /\ \/ /\ holders[u] = {}
        /\ command' = [command EXCEPT ![c] =
             [stage |-> "settled", user |-> u, at |-> None, reply |-> "not-found", told |-> TRUE]]
     \/ \E p \in holders[u] : command' = [command EXCEPT ![c] =
             [stage |-> "pending", user |-> u, at |-> p, reply |-> "waiting", told |-> FALSE]]
  /\ UNCHANGED holders

\* The HTTP request is answered before the command is settled.
Accept(c) ==
  /\ command[c].stage = "pending" /\ command[c].reply = "waiting"
  /\ command' = [command EXCEPT ![c].reply = "accepted"]
  /\ UNCHANGED holders

\* A result, or the end of its time.
Settle(c) ==
  /\ command[c].stage = "pending"
  /\ \E reply \in {"ok", "failed"} : command' = [command EXCEPT ![c] = Settled(@, reply)]
  /\ UNCHANGED holders

Next ==
  \/ \E a \in Accounts : Pass(a)
  \/ \E c \in Commands : Accept(c) \/ Settle(c) \/ \E u \in Users : Send(c, u)

Spec == Init /\ [][Next]_promiseVars
=============================================================================
