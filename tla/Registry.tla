-------------------------------- MODULE Registry --------------------------------
(***************************************************************************)
(* SecurityTokenRegistry.sol with STRGetter.sol: who reserved which ticker *)
(* until when, and the token launched under it.  Every account keeps an    *)
(* array of its tickers, every ticker its index in one of them.  Names are *)
(* upper case already.  The POLY of the issuers, which the fees are taken  *)
(* from, and the owner of a token are kept here as well.  An operation is  *)
(* the set of states it leads to, empty when it reverts.                   *)
(***************************************************************************)
EXTENDS Batches

CONSTANTS
  User,         \* issuers, and owners of the registry
  NoUser,       \* address zero
  Ticker,
  MaxPoly       \* bound on the POLY of a user

NewRegistry(registryOwner, fee, limit) ==
  [registryOwner |-> registryOwner,
   paused        |-> FALSE,
   expiryLimit   |-> limit,
   fee           |-> fee,                              \* of each kind, in POLY
   tickerOwner   |-> [t \in Ticker |-> NoUser],
   expiryDate    |-> [t \in Ticker |-> 0],
   status        |-> [t \in Ticker |-> FALSE],         \* launched
   tokenOwner    |-> [t \in Ticker |-> NoUser],        \* no token at address zero
   tickerIndex   |-> [t \in Ticker |-> 0],
   userToTickers |-> [u \in User |-> << >>],
   poly          |-> [u \in User |-> MaxPoly],
   allowance     |-> [u \in User |-> 0]]

MayCall(r, sender) == ~r.paused \/ r.registryOwner = sender

TakeFee(r, sender, kind) ==
  LET polyFee == r.fee[kind]
  IN  IF r.allowance[sender] < polyFee \/ r.poly[sender] < polyFee THEN {}
      ELSE {[r EXCEPT !.poly[sender] = @ - polyFee, !.allowance[sender] = @ - polyFee]}

-----------------------------------------------------------------------------
(* Who has a ticker.                                                       *)

\* Mutant: available in the last second of the reservation, too.
TickerAvailableEarly(r, t, now) ==
  r.tickerOwner[t] = NoUser \/ (now >= r.expiryDate[t] /\ ~r.status[t])

TickerAvailable(r, t, now) ==
  r.tickerOwner[t] = NoUser \/ (now > r.expiryDate[t] /\ ~r.status[t])

\* What STRGetter shows of a ticker, and the tickers it lists of a user: they
\* and TickerAvailable differ in the last second of a reservation.
ShownRegistered(r, t, now) == r.status[t] \/ r.expiryDate[t] > now

TickersByOwner(r, u, now) ==
  {t \in ToSet(r.userToTickers[u]) : r.expiryDate[t] >= now \/ r.status[t]}

SetTickerOwnership(r, u, t) ==
  [r EXCEPT !.userToTickers[u] = Append(@, t),
            !.tickerIndex[t] = Len(r.userToTickers[u])]

\* Mutant: the ticker that is moved keeps its index.
DeleteTickerOwnershipUnmoved(r, u, t) ==
  LET tickers == r.userToTickers[u]
      index == r.tickerIndex[t]
  IN  IF index < Len(tickers) /\ r.tickerOwner[t] = u
        THEN {[r EXCEPT !.userToTickers[u] = Front([tickers EXCEPT ![index + 1] = Last(tickers)])]}
        ELSE {}

\* The last ticker takes the place of the deleted one, which keeps its index.
DeleteTickerOwnership(r, u, t) ==
  LET tickers == r.userToTickers[u]
      index == r.tickerIndex[t]
      rest == Front([tickers EXCEPT ![index + 1] = Last(tickers)])
  IN  IF ~(index < Len(tickers) /\ r.tickerOwner[t] = u) THEN {}
      ELSE IF Len(rest) > index
        THEN {[r EXCEPT !.userToTickers[u] = rest,
                        !.tickerIndex[rest[index + 1]] = index]}
        ELSE {[r EXCEPT !.userToTickers[u] = rest]}

FromPreviousOwner(r, t) ==
  IF r.tickerOwner[t] = NoUser THEN {r}
                               ELSE DeleteTickerOwnership(r, r.tickerOwner[t], t)

AddTicker(r, u, t, expiry, status) ==
  [SetTickerOwnership(r, u, t) EXCEPT
     !.tickerOwner[t] = u, !.expiryDate[t] = expiry, !.status[t] = status]

RegisterTicker(r, sender, t, now) ==
  IF ~MayCall(r, sender) \/ ~TickerAvailable(r, t, now) THEN {}
  ELSE {AddTicker(free, sender, t, now + r.expiryLimit, FALSE) :
          free \in UNION {FromPreviousOwner(paid, t) :
                            paid \in TakeFee(r, sender, "registration")}}

TransferTickerOwnership(r, sender, newOwner, t) ==
  IF /\ MayCall(r, sender)
     /\ r.tickerOwner[t] = sender
     /\ r.status[t] => r.tokenOwner[t] = newOwner
    THEN {[SetTickerOwnership(deleted, newOwner, t) EXCEPT !.tickerOwner[t] = newOwner] :
            deleted \in DeleteTickerOwnership(r, sender, t)}
    ELSE {}

\* generateNewSecurityToken
GenerateSecurityToken(r, sender, t, now) ==
  IF /\ MayCall(r, sender)
     /\ ~r.status[t]
     /\ r.tickerOwner[t] = sender
     /\ r.expiryDate[t] >= now
    THEN {[paid EXCEPT !.status[t] = TRUE, !.tokenOwner[t] = sender] :
            paid \in TakeFee(r, sender, "launch")}
    ELSE {}

-----------------------------------------------------------------------------
(* The owner of the registry.                                              *)

\* _modifyTicker
ModifyTicker(r, u, t, expiry, status) ==
  LET Unlaunched(free) == IF r.status[t] /\ ~status
                            THEN [free EXCEPT !.tokenOwner[t] = NoUser] ELSE free
  IN  IF status /\ r.tokenOwner[t] = NoUser THEN {}
      ELSE {AddTicker(Unlaunched(free), u, t, expiry, status) :
              free \in FromPreviousOwner(r, t)}

RemoveTicker(r, t) ==
  IF r.tickerOwner[t] = NoUser THEN {}
  ELSE {[deleted EXCEPT !.tokenOwner[t] = NoUser, !.tickerOwner[t] = NoUser,
                        !.expiryDate[t] = 0, !.status[t] = FALSE] :
          deleted \in DeleteTickerOwnership(r, r.tickerOwner[t], t)}

\* modifyExistingSecurityToken: a token of somebody under a ticker of u.
ModifySecurityToken(r, u, t, tokenOwner, now) ==
  LET expiry == IF r.tickerOwner[t] = NoUser THEN now + r.expiryLimit
                                             ELSE r.expiryDate[t]
  IN  ModifyTicker([r EXCEPT !.tokenOwner[t] = tokenOwner], u, t, expiry, TRUE)

ByOwner(r, sender, after) == IF r.registryOwner = sender THEN after ELSE {}

\* Ownable of the registry and of a token (its own contract).
TransferOwnership(r, sender, newOwner) ==
  ByOwner(r, sender, {[r EXCEPT !.registryOwner = newOwner]})

TransferTokenOwnership(r, sender, newOwner, t) ==
  IF r.tokenOwner[t] = sender THEN {[r EXCEPT !.tokenOwner[t] = newOwner]} ELSE {}

ChangeFee(r, kind, polyFee) ==
  IF r.fee[kind] = polyFee THEN {} ELSE {[r EXCEPT !.fee[kind] = polyFee]}

\* PolyToken.approve, and the getTokens of its faucet.
ApproveAmount(r, sender, amount) == {[r EXCEPT !.allowance[sender] = amount]}

GetTokens(r, to, amount) ==
  {[r EXCEPT !.poly[to] = IF @ + amount > MaxPoly THEN MaxPoly ELSE @ + amount]}

\* What one record of a call does.
RegistryChange(r, op, row, now) ==
  LET sender == row[1]
  IN  CASE op = "approve" -> ApproveAmount(r, sender, row[2])
        [] op = "getTokens" -> GetTokens(r, row[2], row[3])
        [] op = "registerTicker" -> RegisterTicker(r, sender, row[2], now)
        [] op = "transferTickerOwnership" ->
             TransferTickerOwnership(r, sender, row[2], row[3])
        [] op = "generateNewSecurityToken" ->
             GenerateSecurityToken(r, sender, row[2], now)
        [] op = "modifyTicker" ->
             ByOwner(r, sender, ModifyTicker(r, row[2], row[3], row[4], row[5]))
        [] op = "removeTicker" ->
             ByOwner(r, sender, RemoveTicker(r, row[2]))
        [] op = "modifySecurityToken" ->
             ByOwner(r, sender,
                     ModifySecurityToken(r, row[2], row[3], row[4], now))
        [] op = "changeExpiryLimit" ->
             ByOwner(r, sender, {[r EXCEPT !.expiryLimit = row[2]]})
        [] op = "changeFee" ->
             ByOwner(r, sender, ChangeFee(r, row[2], row[3]))
        [] op = "changeFees" ->
             ByOwner(r, sender, {[r EXCEPT !.fee = row[2]]})
        [] op = "transferOwnership" -> TransferOwnership(r, sender, row[2])
        [] op = "transferTokenOwnership" ->
             TransferTokenOwnership(r, sender, row[2], row[3])

\* The call of an account, with the account at the head of its record.
RegistryAfter(r, call, now) ==
  InTurn(r, call.rows, LAMBDA reg, row : RegistryChange(reg, call.op, row, now))

=============================================================================
