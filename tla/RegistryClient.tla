----------------------------- MODULE RegistryClient -----------------------------
(***************************************************************************)
(* The commands of the command line that work on the registry: st20generator,*)
(* faucet, strMigrator, contract_manager and transfer_ownership.  Issuers  *)
(* and the owner of the registry run them side by side, the price of POLY  *)
(* moves the fees, and reservations run out while somebody answers.        *)
(***************************************************************************)
EXTENDS ClientSession, Registry

CONSTANTS
  FeesInPoly,       \* what the fees of each kind may be, in POLY
  FirstFees,        \* those they are at first
  ExpiryLimit,      \* limits the owner may set
  ExpiryDate        \* dates of a ticker he may enter, or migrate

FeeKind == {"registration", "launch"}

ASSUME RegistryAssumption ==
  /\ Client \subseteq User /\ NoUser \notin User /\ MaxPoly \in Nat
  /\ FeesInPoly \subseteq [FeeKind -> Nat] /\ FirstFees \subseteq [FeeKind -> Nat]
  /\ ExpiryLimit \subseteq Nat /\ ExpiryDate \subseteq Nat

RegistryInit ==
  /\ current = "registry"
  /\ \E u \in Client, fee \in FirstFees, limit \in ExpiryLimit :
       contract = NewRegistry(u, fee, limit)

-----------------------------------------------------------------------------
(* st20generator                                                           *)

\* The fee is read before the operator is asked, and after every ticker that
\* was somebody else's.
ReadRegistrationFee(c) == Show(c, "ticker", {contract.fee["registration"]})

\* approvePoly: the calls that make sure the fee can be taken.
ApprovePoly(c, polyFee) ==
  IF contract.allowance[c] >= polyFee THEN << >> ELSE One("approve", <<c, polyFee>>)

EnoughPoly(c, polyFee) == contract.poly[c] >= polyFee

\* A ticker of the list, or any other one.
SelectTicker(c) == TickersByOwner(contract, c, now) \cup Ticker

StepTickerRegistration(c) ==
  \E t \in SelectTicker(c) :
    LET polyFee == Shown(c)
    IN  IF ~ShownRegistered(contract, t, now)
          THEN IF EnoughPoly(c, polyFee)
                 THEN BeginThen(c, ApprovePoly(c, polyFee) \o One("registerTicker", <<c, t>>),
                                {t}, "owner")
                 ELSE Throw(c)
        ELSE IF contract.tickerOwner[t] = c
          THEN IF contract.status[t] THEN Throw(c) ELSE Show(c, "owner", {t})
        ELSE ReadRegistrationFee(c)

\* The program exits after the transfer.
StepTransferTickerOwnership(c) ==
  \E u \in User : Begin(c, One("transferTickerOwnership", <<c, u, Shown(c)>>), {})

ReadLaunchFee(c) ==
  Show(c, "deploy", {[ticker |-> Shown(c), fee |-> contract.fee["launch"]]})

StepTokenDeploy(c) ==
  LET s == Shown(c)
  IN  IF EnoughPoly(c, s.fee)
        THEN Begin(c, ApprovePoly(c, s.fee)
                        \o One("generateNewSecurityToken", <<c, s.ticker>>), {})
        ELSE Throw(c)

ST20Generator(c) ==
  \/ At(c, "menu") /\ ReadRegistrationFee(c)
  \/ At(c, "ticker") /\ StepTickerRegistration(c)
  \/ At(c, "owner") /\ (StepTransferTickerOwnership(c) \/ ReadLaunchFee(c))
  \/ At(c, "deploy") /\ StepTokenDeploy(c)

-----------------------------------------------------------------------------
(* faucet, transfer_ownership                                              *)

SendPoly(c) ==
  \E u \in User :
    contract.poly[u] < MaxPoly /\ Begin(c, One("getTokens", <<c, u, MaxPoly>>), {})

\* Nothing is sent unless the account is the owner when this is read.
TransferOwnershipTo(c) ==
  \E u \in User :
    \/ /\ contract.registryOwner = c
       /\ Begin(c, One("transferOwnership", <<c, u>>), {})
    \/ \E t \in Ticker :
         /\ contract.tokenOwner[t] = c
         /\ Begin(c, One("transferTokenOwnership", <<c, u, t>>), {})

-----------------------------------------------------------------------------
(* strMigrator: the tickers of an old registry, of those the ones that the  *)
(* operator agrees to, one call each.  Calls that fail are listed.          *)

Migration == {f \in UNION {[1 .. n -> User \X Ticker \X ExpiryDate] : n \in 1 .. 2} :
                IsInjective([k \in DOMAIN f |-> f[k][2]])}

StepRegisterTickers(c) ==
  \E tickers \in Migration :
    BeginAll(c, [k \in DOMAIN tickers |->
                   [op |-> "modifyTicker",
                    rows |-> <<<<c, tickers[k][1], tickers[k][2], tickers[k][3], FALSE>>>>]])

-----------------------------------------------------------------------------
(* contract_manager: for the owner of the registry, as read with its menu.  *)

ModifyOrRemoveTicker(c) ==
  \E t \in Ticker :
    \/ Begin(c, One("removeTicker", <<c, t>>), {})
    \/ \E u \in User, expiry \in ExpiryDate, status \in BOOLEAN :
         Begin(c, One("modifyTicker", <<c, u, t, expiry, status>>), {})

\* The token may be the ticker's or take its place; tokenOwner is the token's own.
ModifyTokenOf(c) ==
  \E t \in Ticker, u, tokenOwner \in User :
    Begin(c, One("modifySecurityToken", <<c, u, t, tokenOwner>>), {})

ChangeExpiryLimit(c) ==
  \E limit \in ExpiryLimit : Begin(c, One("changeExpiryLimit", <<c, limit>>), {})

\* Fees in the currency that was read; the change of currency enters both.
ChangeFeesTo(c) ==
  \/ \E kind \in FeeKind, fees \in FeesInPoly :
       Begin(c, One("changeFee", <<c, kind, fees[kind]>>), {})
  \/ \E fees \in FeesInPoly : Begin(c, One("changeFees", <<c, fees>>), {})

StrActions(c) ==
  /\ contract.registryOwner = c
  /\ \/ ModifyOrRemoveTicker(c)
     \/ ModifyTokenOf(c)
     \/ ChangeExpiryLimit(c)
     \/ ChangeFeesTo(c)

-----------------------------------------------------------------------------

RegistryCallAfter(call) == RegistryAfter(contract, call, now)

RegistryStep(c) ==
  /\ current = "registry"
  /\ \/ ST20Generator(c)
     \/ /\ At(c, "menu")
        /\ \/ SendPoly(c)
           \/ TransferOwnershipTo(c)
           \/ StepRegisterTickers(c)
           \/ StrActions(c)
     \/ Send(c, RegistryCallAfter(ToSend(c)))
     \/ \E call \in mempool[c] : Mine(c, RegistryCallAfter(call))

\* Fees are set in dollars: the oracle of POLY moves them.
PriceMoves ==
  \E fees \in FeesInPoly \ {contract.fee} : contract' = [contract EXCEPT !.fee = fees]

\* pause, unpause: the command line has no command for them.
PauseOrUnpause == contract' = [contract EXCEPT !.paused = ~@]

\* What is done elsewhere counts as a command.
RegistryMoves ==
  /\ current = "registry"
  /\ begun < MaxCommands
  /\ begun' = begun + 1
  /\ PriceMoves \/ PauseOrUnpause
  /\ UNCHANGED <<now, current, session, mempool>>

-----------------------------------------------------------------------------
(* Properties.                                                             *)

\* A ticker with an owner is once in his array, at its index, and in no other
\* one, after any registrations, expiries, transfers, removals and migrations;
\* and it has a token exactly when it is launched.
TickersAgree ==
  current = "registry" =>
    \A t \in Ticker :
      /\ \A u \in User :
           LET tickers == contract.userToTickers[u]
           IN  IF contract.tickerOwner[t] = u
                 THEN \A k \in 1 .. Len(tickers) :
                        (tickers[k] = t) <=> (k = contract.tickerIndex[t] + 1)
                 ELSE t \notin ToSet(tickers)
      /\ contract.status[t] <=> contract.tokenOwner[t] # NoUser

\* Whoever had a ticker when it was launched, or before it expired, keeps it
\* unless he himself or the owner of the registry gives it away: programs that
\* saw it free and other reservations that run out do not take it.
Reserved(t) ==
  contract.tickerOwner[t] # NoUser /\ (contract.status[t] \/ now <= contract.expiryDate[t])

ReservationKept ==
  [][current = "registry" =>
       \A t \in Ticker :
         (Reserved(t) /\ contract'.tickerOwner[t] # contract.tickerOwner[t]) =>
           \E c \in Client :
             /\ mempool[c] # {} /\ mempool'[c] = {}
             /\ c \in {contract.tickerOwner[t], contract.registryOwner}]_sessionVars

=============================================================================
