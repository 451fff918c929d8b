------------------------------ MODULE IssuanceClient ------------------------------
(***************************************************************************)
(* CLI/commands/token_manager.js, the token itself: its owner issues       *)
(* tokens, to one investor or to a file of them, freezes transfers and     *)
(* issuance, and refreshes the token, which puts a new one in its place    *)
(* (SecurityTokenRegistry.sol, refreshSecurityToken).  Programs of other   *)
(* accounts only read, and are left out.  So are names, details, the       *)
(* granularity, documents and checkpoints.                                 *)
(***************************************************************************)
EXTENDS ClientSession

CONSTANTS
  Receiver,      \* investors that may be typed
  Shares,        \* and amounts
  IssueFile,     \* sequences of <<investor, amount>>
  IssueBatch

InFile == UNION {{data[k][1] : k \in DOMAIN data} : data \in IssueFile}

ASSUME IssuanceAssumption ==
  /\ \A data \in IssueFile : data \in Seq(InFile \X Nat)
  /\ Shares \subseteq Nat /\ IssueBatch \subseteq Nat \ {0}

Token ==
  [frozen |-> FALSE, issuable |-> TRUE, verified |-> {},
   issued |-> [i \in Receiver \cup InFile |-> 0]]

\* All the tokens this ticker had; the last one is in the registry.
IssuanceInit ==
  /\ current = "issuance"
  /\ \E c \in Client : contract = [owner |-> c, tokens |-> <<Token>>]

Newest == Len(contract.tokens)

-----------------------------------------------------------------------------
(* The calls.  The first of a row is the token it is for.                  *)

Put(x, k, token) == [x EXCEPT !.tokens[k] = token]

\* issue; the transfer managers have to find the investor.
Issue(x, k, investor, amount) ==
  LET t == x.tokens[k] IN
  IF t.issuable /\ ~t.frozen /\ investor \in t.verified
    THEN {Put(x, k, [t EXCEPT !.issued[investor] = @ + amount])}
    ELSE {}

SetFrozen(x, k, frozen) ==
  IF x.tokens[k].frozen = frozen THEN {}
  ELSE {Put(x, k, [x.tokens[k] EXCEPT !.frozen = frozen])}

FreezeIssuance(x, k) ==
  IF ~x.tokens[k].issuable THEN {}
  ELSE {Put(x, k, [x.tokens[k] EXCEPT !.issuable = FALSE])}

\* The ticker's token, whichever the program has, must be frozen.
RefreshSecurityToken(x) ==
  IF Last(x.tokens).frozen THEN {[x EXCEPT !.tokens = Append(@, Token)]} ELSE {}

\* What one record of a call does.
IssuanceChange(x, op, row) ==
  CASE op = "issue" -> Issue(x, row[1], row[2], row[3])
    [] op = "freezeTransfers" -> SetFrozen(x, row[1], TRUE)
    [] op = "unfreezeTransfers" -> SetFrozen(x, row[1], FALSE)
    [] op = "freezeIssuance" -> FreezeIssuance(x, row[1])
    [] op = "refreshSecurityToken" -> RefreshSecurityToken(x)

IssuanceCallAfter(call) ==
  InTurn(contract, call.rows, LAMBDA x, row : IssuanceChange(x, call.op, row))

-----------------------------------------------------------------------------
(* Issuing.                                                                *)

\* A command on the token at hand, which the program goes on with.
OnToken(c, calls) ==
  BeginThen(c, calls, {[token |-> Shown(c).token]}, "token")

\* One that catches what the call throws, and goes on with the same token.
OnTokenAnyway(c, calls) ==
  BeginAllThen(c, calls, {[token |-> Shown(c).token]}, "token")

IssueToSingleAddress(c) ==
  \E receiver \in Receiver, amount \in Shares :
    OnTokenAnyway(c, One("issue", <<Shown(c).token, receiver, amount>>))

\* canTransfer answers with a tuple, which is true as it stands: nobody is
\* found unverified.
VerifiedData(data) == data

\* The mutant: a batch that fails does not end the command.
MultiIssueOnFailure(c) ==
  \E data \in IssueFile, size \in IssueBatch :
    BeginAll(c, CallsOf("issue",
      [r \in DOMAIN VerifiedData(data) |-> <<Shown(c).token>> \o VerifiedData(data)[r]],
      size))

\* multiIssue of a file, from its beginning.
MultiIssue(c) ==
  \E data \in IssueFile, size \in IssueBatch :
    OnToken(c, CallsOf("issue",
      [r \in DOMAIN VerifiedData(data) |-> <<Shown(c).token>> \o VerifiedData(data)[r]],
      size))

IssueTokens(c) == Shown(c).issuable /\ (IssueToSingleAddress(c) \/ MultiIssue(c))

-----------------------------------------------------------------------------
(* Freezing, and the new token.                                            *)

FreezeTransfers(k) == One("freezeTransfers", <<k>>)

ChangeFreeze(c) ==
  \/ ~Shown(c).frozen /\ OnToken(c, FreezeTransfers(Shown(c).token))
  \/ Shown(c).frozen /\ OnToken(c, One("unfreezeTransfers", <<Shown(c).token>>))

FreezeIssuanceShown(c) ==
  Shown(c).issuable /\ OnToken(c, One("freezeIssuance", <<Shown(c).token>>))

\* Offered whatever the version.  The operator may decline to freeze transfers,
\* and the program goes on all the same.  It comes to the registry's new token.
Refresh(c) ==
  LET k == Shown(c).token IN
  \/ Begin(c, One("refreshSecurityToken", <<k>>), {})
  \/ /\ ~contract.tokens[k].frozen
     /\ Begin(c, FreezeTransfers(k) \o One("refreshSecurityToken", <<k>>), {})

-----------------------------------------------------------------------------

\* selectToken, of the registry
SelectToken(c) == Show(c, "token", {[token |-> Newest]})

\* What the options depend on.
SelectAction(c) ==
  LET k == Shown(c).token IN
  Show(c, "action", {[token |-> k, frozen |-> contract.tokens[k].frozen,
                      issuable |-> contract.tokens[k].issuable]})

Selected(c) ==
  \/ IssueTokens(c)
  \/ ChangeFreeze(c)
  \/ FreezeIssuanceShown(c)
  \/ Refresh(c)

TokenManager(c) ==
  \/ At(c, "menu") /\ SelectToken(c)
  \/ At(c, "token") /\ SelectAction(c)
  \/ At(c, "action") /\ Selected(c)

IssuanceStep(c) ==
  /\ current = "issuance"
  /\ c = contract.owner
  /\ \/ TokenManager(c)
     \/ Send(c, IssuanceCallAfter(ToSend(c)))
     \/ \E call \in mempool[c] : Mine(c, IssuanceCallAfter(call))

\* Investors of the ticker's token are verified, and no longer are.
VerificationStep ==
  /\ current = "issuance"
  /\ \E i \in Receiver \cup InFile :
       contract' = [contract EXCEPT !.tokens[Newest].verified =
                      IF i \in @ THEN @ \ {i} ELSE @ \cup {i}]
  /\ UNCHANGED <<now, current, session, mempool, begun>>

-----------------------------------------------------------------------------
(* Properties.                                                             *)

\* Files whose records leave their mark on what was issued: an investor is in it
\* once, and nobody but the first gets tokens in any other way.
OnlyHere(data) ==
  /\ \A r, s \in DOMAIN data : data[r][1] = data[s][1] => r = s
  /\ \A r \in DOMAIN data : data[r][2] > 0
  /\ \A r \in DOMAIN data : r > 1 =>
       /\ data[r][1] \notin Receiver
       /\ \A other \in IssueFile : \A s \in DOMAIN other :
            other[s][1] = data[r][1] => other = data

\* How often the investor of a record got what it has for him.
Turns(token, record) == token.issued[record[1]] \div record[2]

\* On every token of the ticker, an investor of a file was not issued tokens
\* more often than those before him in the file, whatever runs stopped half way
\* and began again, for the verification that an investor lost, or a transfer
\* freeze, or with a call still on its way: a command can be taken up behind the
\* last investor who has his tokens.
IssuedInOrder ==
  current = "issuance" =>
    \A k \in DOMAIN contract.tokens, data \in IssueFile :
      OnlyHere(data) =>
        \A r, later \in DOMAIN data :
          r < later => Turns(contract.tokens[k], data[later])
                         <= Turns(contract.tokens[k], data[r])

=============================================================================
