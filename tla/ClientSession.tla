----------------------------- MODULE ClientSession -----------------------------
(***************************************************************************)
(* The run of a command line program and the transactions it sends         *)
(* (CLI/commands/common/common_functions.js, sendTransaction).  A command  *)
(* is a list of calls, sent one after the other.  Every call is estimated  *)
(* against the present state of the chain, and the program throws when it  *)
(* would revert; then it waits for the receipt, and throws when the call   *)
(* reverts after all, because somebody else's was mined before it.  What   *)
(* the program does not send because it threw is lost; what it sent is     *)
(* mined even when the program is gone.  Gas and fees are left out.        *)
(***************************************************************************)
EXTENDS Batches, FiniteSets

CONSTANTS
  Client,       \* accounts with the right to administer the contracts
  MaxTime,      \* bound on the time of the blocks
  MaxCommands   \* bound on the commands of all accounts

VARIABLES
  now,          \* time of the chain
  current,      \* the module the programs are at work on
  contract,     \* the state of its contract
  session,      \* per account: where its program is, and what it will send
  mempool,      \* per account: the call that waits to be mined, if any
  begun         \* number of commands begun

sessionVars == <<now, current, contract, session, mempool, begun>>

\* The places of a program: "menu", what it shows before the next question,
\* "asking" a question without an answer, "sending" the first of its calls and
\* "waiting" for the receipt.  `then` is the place it comes to after the last of
\* them; a program that `goesOn` notes the failure of a call and sends the next.
\* Nothing is kept between two runs: a program that threw, exited or was stopped
\* is at the menu when it is started again.
Place(at, about) ==
  [at |-> at, calls |-> << >>, about |-> about, then |-> "menu", goesOn |-> FALSE]

AtMenu == Place("menu", {})

SessionInit ==
  /\ now = 1
  /\ session = [c \in Client |-> AtMenu]
  /\ mempool = [c \in Client |-> {}]
  /\ begun = 0

Sending(calls, about) == [Place("sending", about) EXCEPT !.calls = calls]

\* A command is begun, or the next part of one.
StartCommand(c, s) ==
  /\ begun < MaxCommands
  /\ begun' = begun + 1
  /\ session' = [session EXCEPT ![c] = IF s.calls = << >> THEN AtMenu ELSE s]
  /\ UNCHANGED <<now, current, contract, mempool>>

\* What the operator asked for becomes a list of calls; `about` is what the
\* program had read when it made the list.
Begin(c, calls, about) == StartCommand(c, Sending(calls, about))

\* A program that comes to another question when the calls are done.
BeginThen(c, calls, about, place) ==
  StartCommand(c, [Sending(calls, about) EXCEPT !.then = place])

\* A program that catches what the calls throw.
BeginAll(c, calls) == StartCommand(c, [Sending(calls, {}) EXCEPT !.goesOn = TRUE])

\* Both: the other question comes after a failure, too.
BeginAllThen(c, calls, about, place) ==
  StartCommand(c, [Sending(calls, about) EXCEPT !.then = place, !.goesOn = TRUE])

\* What the operator was shown, and chose from, before the next question.
Show(c, place, about) ==
  /\ session' = [session EXCEPT ![c] = Place(place, about)]
  /\ UNCHANGED <<now, current, contract, mempool, begun>>

At(c, place) == session[c].at = place
Shown(c) == CHOOSE x \in session[c].about : TRUE

\* A command that is one call with one record.
One(op, row) == <<[op |-> op, rows |-> <<row>>]>>

Leave(c, place) ==
  /\ session' = [session EXCEPT ![c] = place]
  /\ UNCHANGED <<now, current, contract, mempool, begun>>

Throw(c) == Leave(c, AtMenu)

\* Where a call leads that succeeded or failed.
NextCall(s, succeeded) ==
  IF ~succeeded /\ ~s.goesOn THEN AtMenu
  ELSE IF Len(s.calls) = 1 THEN Place(s.then, IF s.then = "menu" THEN {} ELSE s.about)
  ELSE [s EXCEPT !.at = "sending", !.calls = Tail(@)]

ToSend(c) == Head(session[c].calls)

\* sendTransaction: outcomes are the states the call may lead to now, none when
\* it reverts.  The nonce is the number of mined transactions, so that a call
\* that still waits has the same one and the node refuses this.
Send(c, outcomes) ==
  /\ session[c].at = "sending"
  /\ IF mempool[c] # {} \/ outcomes = {}
       THEN Leave(c, NextCall(session[c], FALSE))
       ELSE /\ mempool' = [mempool EXCEPT ![c] = {ToSend(c)}]
            /\ session' = [session EXCEPT ![c].at = "waiting"]
            /\ UNCHANGED <<now, current, contract, begun>>

\* The call is mined in the state the chain has by then.  Its receipt leads to
\* the next call, to the end of the command after the last one, or to the end of
\* the program.
AfterReceipt(s, succeeded) ==
  IF s.at = "waiting" THEN NextCall(s, succeeded) ELSE s

Mine(c, outcomes) ==
  /\ mempool' = [mempool EXCEPT ![c] = {}]
  /\ \/ /\ contract' \in outcomes
        /\ session' = [session EXCEPT ![c] = AfterReceipt(@, TRUE)]
     \/ /\ outcomes = {}
        /\ session' = [session EXCEPT ![c] = AfterReceipt(@, FALSE)]
        /\ UNCHANGED contract
  /\ UNCHANGED <<now, current, begun>>

\* The operator stops a program, or an answer makes it throw.
Kill(c) == ~At(c, "menu") /\ Throw(c)

\* Nobody is at work any more.
AllAtRest ==
  /\ \A c \in Client : At(c, "menu") /\ mempool[c] = {}
  /\ UNCHANGED sessionVars

Tick ==
  /\ now < MaxTime
  /\ now' = now + 1
  /\ UNCHANGED <<current, contract, session, mempool, begun>>

=============================================================================
