-------------------------- MODULE TokenCommandsProofs --------------------------
(***************************************************************************)
(* More books under the command line, with what PolymathCLIProofs says of  *)
(* sessions and files: the modules of a token, the tickers of the registry *)
(* and the vesting wallet.                                                 *)
(***************************************************************************)
EXTENDS PolymathCLIProofs

-----------------------------------------------------------------------------
(* Modules of a token, and what is paid for them.                          *)

ModuleData ==
  [type : {"permission", "transfer", "sto"}, attached : BOOLEAN, archived : BOOLEAN,
   paused : BOOLEAN, budget : Nat]

TokenBooks ==
  [modules : Seq(ModuleData), poly : Nat, purse : Nat, fee : ModuleFee,
   usable : BOOLEAN, owner : Client]

ModuleOps ==
  {"transfer", "addModuleWithLabel", "archiveModule", "unarchiveModule", "removeModule",
   "pause", "unpause", "changeModuleBudget", "withdrawERC20"}

\* No program sends more than the largest fee.
ModuleRows(op) ==
  CASE op = "transfer" -> {<<amount>> : amount \in 0..MaxFee}
    [] op = "addModuleWithLabel" -> {"transfer", "sto"} \X Nat \X BOOLEAN
    [] op \in {"archiveModule", "unarchiveModule", "removeModule", "pause", "unpause"} ->
         {<<m>> : m \in Nat}
    [] op = "changeModuleBudget" -> Nat \X PolyTyped \X BOOLEAN
    [] op = "withdrawERC20" -> {<<value>> : value \in PolyTyped}

\* A call of the module menu is about one module.
ModuleCalls ==
  UNION {{[op |-> op, rows |-> <<row>>] : row \in ModuleRows(op)} : op \in ModuleOps}

\* What a call brings into the token.
Pays(call) == IF call.op = "transfer" THEN call.rows[1][1] ELSE 0

LEMMA MaxFeeIs ==
  MaxFee \in Nat /\ MaxFee \in ModuleFee /\ \A fee \in ModuleFee : fee <= MaxFee
BY ModulesAssumption DEF MaxFee

LEMMA CallPays ==
  ASSUME NEW call \in ModuleCalls
  PROVE  /\ Pays(call) \in 0..MaxFee
         /\ \E op \in ModuleOps : \E row \in ModuleRows(op) :
              call = [op |-> op, rows |-> <<row>>]
<1>1. PICK op \in ModuleOps : \E row \in ModuleRows(op) :
        call = [op |-> op, rows |-> <<row>>]
  BY DEF ModuleCalls
<1>2. PICK row \in ModuleRows(op) : call = [op |-> op, rows |-> <<row>>] BY <1>1
<1>3. CASE op = "transfer"
  <2>1. PICK amount \in 0..MaxFee : row = <<amount>> BY <1>3 DEF ModuleRows
  <2>2. Pays(call) = amount BY <1>2, <1>3, <2>1 DEF Pays
  <2>3. QED BY <1>1, <2>2
<1>4. CASE op # "transfer"
  <2>1. Pays(call) = 0 BY <1>2, <1>4 DEF Pays
  <2>2. QED BY <1>1, <2>1, MaxFeeIs
<1>5. QED BY <1>3, <1>4

LEMMA OneModuleChanges ==
  ASSUME NEW b \in TokenBooks, NEW m \in Nat, NEW data,
         m \in 1..Len(b.modules) => data \in ModuleData,
         NEW new, new = [b EXCEPT !.modules = [b.modules EXCEPT ![m] = data]]
  PROVE  new \in TokenBooks /\ new.poly = b.poly /\ new.owner = b.owner
<1> DEFINE list == [b.modules EXCEPT ![m] = data]
<1>1. b.modules \in Seq(ModuleData) BY DEF TokenBooks
<1>2. list \in Seq(ModuleData)
  <2> DEFINE n == Len(b.modules)
  <2>1. n \in Nat /\ b.modules \in [1..n -> ModuleData] BY <1>1
  <2> HIDE DEF n
  <2>2. m \in 1..n => data \in ModuleData BY DEF n
  <2>3. list \in [1..n -> ModuleData] BY <2>1, <2>2
  <2> HIDE DEF list
  <2>4. QED BY <2>1, <2>3
<1> HIDE DEF list
<1>3. new = [b EXCEPT !.modules = list] BY DEF list
<1>4. QED BY <1>2, <1>3 DEF TokenBooks

LEMMA ModuleRecordKeeps ==
  ASSUME NEW b \in TokenBooks, NEW op \in ModuleOps, NEW row \in ModuleRows(op),
         NEW new \in ModulesChange(b, op, row)
  PROVE  /\ new \in TokenBooks /\ new.owner = b.owner
         /\ new.poly <= b.poly + Pays([op |-> op, rows |-> <<row>>])
<1> DEFINE paid == Pays([op |-> op, rows |-> <<row>>])
           Good == new \in TokenBooks /\ new.owner = b.owner /\ new.poly <= b.poly + paid
<1>0. SUFFICES Good
  OBVIOUS
<1>1. /\ b.modules \in Seq(ModuleData) /\ b.poly \in Nat /\ b.purse \in Nat
      /\ b.fee \in ModuleFee /\ b.fee \in Nat
  BY ModulesAssumption DEF TokenBooks
<1>2. \A m \in 1..Len(b.modules) : b.modules[m] \in ModuleData BY <1>1
<1>3. op # "transfer" => paid = 0 BY DEF Pays
<1>4. CASE op = "transfer"
  <2>1. PICK amount \in 0..MaxFee : row = <<amount>> BY <1>4 DEF ModuleRows
  <2>2. amount \in Nat /\ paid = amount BY <1>4, <2>1, MaxFeeIs DEF Pays
  <2> DEFINE purse == b.purse - amount
             poly == b.poly + amount
  <2>3. new \in PayIn(b, amount) BY <1>4, <2>1 DEF ModulesChange
  <2>4. amount <= b.purse /\ new = [b EXCEPT !.purse = purse, !.poly = poly]
    BY <1>1, <2>2, <2>3 DEF PayIn
  <2>5. purse \in Nat /\ poly \in Nat BY <1>1, <2>2, <2>4
  <2> HIDE DEF purse
  <2>6. new \in TokenBooks /\ new.owner = b.owner /\ new.poly = poly
    <3> HIDE DEF poly
    <3> QED BY <2>4, <2>5 DEF TokenBooks
  <2> HIDE DEF paid
  <2>7. QED BY <1>1, <2>2, <2>6
<1> HIDE DEF paid
<1>5. ASSUME op # "transfer", new \in TokenBooks, new.poly = b.poly, new.owner = b.owner
      PROVE  Good
  BY <1>1, <1>3, <1>5
<1>6. CASE op = "withdrawERC20"
  <2>1. PICK value \in PolyTyped : row = <<value>> BY <1>6 DEF ModuleRows
  <2>2. value \in Nat /\ paid = 0 BY <1>3, <1>6, ModulesAssumption
  <2> DEFINE purse == b.purse + value
             poly == b.poly - value
  <2>3. new \in PayOut(b, value) BY <1>6, <2>1 DEF ModulesChange
  <2>4. value <= b.poly /\ new = [b EXCEPT !.purse = purse, !.poly = poly]
    BY <1>1, <2>2, <2>3 DEF PayOut
  <2>5. purse \in Nat /\ poly \in Nat BY <1>1, <2>2, <2>4
  <2> HIDE DEF purse
  <2>6. new \in TokenBooks /\ new.owner = b.owner /\ new.poly = poly
    <3> HIDE DEF poly
    <3> QED BY <2>4, <2>5 DEF TokenBooks
  <2>7. QED BY <1>1, <2>2, <2>6
<1>7. CASE op = "addModuleWithLabel"
  <2>1. PICK type \in {"transfer", "sto"}, maxCost \in Nat, archived \in BOOLEAN :
          row = <<type, maxCost, archived>>
    BY <1>7 DEF ModuleRows
  <2> DEFINE poly == b.poly - b.fee
             list == Append(b.modules, NewModule(type, archived))
  <2>2. new \in AddModuleWithLabel(b, type, maxCost, archived)
    BY <1>7, <2>1 DEF ModulesChange
  <2>3. ~(b.fee > b.poly) /\ new = [b EXCEPT !.poly = poly, !.modules = list]
    BY <2>2 DEF AddModuleWithLabel
  <2>4. poly \in Nat BY <1>1, <2>3
  <2>5. list \in Seq(ModuleData)
    <3>1. NewModule(type, archived) \in ModuleData BY DEF NewModule, ModuleData
    <3>2. QED BY <1>1, <3>1
  <2> HIDE DEF list
  <2>6. new \in TokenBooks /\ new.owner = b.owner /\ new.poly = poly
    <3> HIDE DEF poly
    <3> QED BY <2>3, <2>4, <2>5 DEF TokenBooks
  <2>7. QED BY <1>1, <1>3, <1>7, <2>6
<1>8. CASE op \in {"archiveModule", "unarchiveModule", "removeModule", "pause", "unpause"}
  <2>1. PICK m \in Nat : row = <<m>> BY <1>8 DEF ModuleRows
  <2>2. ASSUME NEW data, m \in 1..Len(b.modules) => data \in ModuleData,
               new = [b EXCEPT !.modules = [b.modules EXCEPT ![m] = data]]
        PROVE  Good
    BY <1>5, <1>8, <2>2, OneModuleChanges
  <2>3. CASE op = "archiveModule"
    <3> DEFINE data == [b.modules[m] EXCEPT !.archived = TRUE]
    <3>1. new = [b EXCEPT !.modules = [b.modules EXCEPT ![m] = data]]
      BY <2>1, <2>3 DEF ModulesChange, ArchiveModule
    <3>2. m \in 1..Len(b.modules) => data \in ModuleData BY <1>2 DEF ModuleData
    <3> HIDE DEF data
    <3>3. QED BY <2>2, <3>1, <3>2
  <2>4. CASE op = "unarchiveModule"
    <3> DEFINE data == [b.modules[m] EXCEPT !.archived = FALSE]
    <3>1. new = [b EXCEPT !.modules = [b.modules EXCEPT ![m] = data]]
      BY <2>1, <2>4 DEF ModulesChange, UnarchiveModule
    <3>2. m \in 1..Len(b.modules) => data \in ModuleData BY <1>2 DEF ModuleData
    <3> HIDE DEF data
    <3>3. QED BY <2>2, <3>1, <3>2
  <2>5. CASE op = "removeModule"
    <3> DEFINE data == [b.modules[m] EXCEPT !.attached = FALSE]
    <3>1. new = [b EXCEPT !.modules = [b.modules EXCEPT ![m] = data]]
      BY <2>1, <2>5 DEF ModulesChange, RemoveModule
    <3>2. m \in 1..Len(b.modules) => data \in ModuleData BY <1>2 DEF ModuleData
    <3> HIDE DEF data
    <3>3. QED BY <2>2, <3>1, <3>2
  <2>6. ASSUME NEW paused \in BOOLEAN, new \in SetPaused(b, m, paused) PROVE Good
    <3> DEFINE data == [b.modules[m] EXCEPT !.paused = paused]
    <3>1. new = [b EXCEPT !.modules = [b.modules EXCEPT ![m] = data]]
      BY <2>6 DEF SetPaused
    <3>2. m \in 1..Len(b.modules) => data \in ModuleData BY <1>2 DEF ModuleData
    <3> HIDE DEF data
    <3>3. QED BY <2>2, <3>1, <3>2
  <2>7. CASE op \in {"pause", "unpause"}
    <3>1. \E paused \in BOOLEAN : new \in SetPaused(b, m, paused)
      BY <2>1, <2>7 DEF ModulesChange
    <3>2. QED BY <2>6, <3>1
  <2>8. QED BY <1>8, <2>3, <2>4, <2>5, <2>7
<1>9. CASE op = "changeModuleBudget"
  <2>1. PICK m \in Nat, change \in PolyTyped, increase \in BOOLEAN :
          row = <<m, change, increase>>
    BY <1>9 DEF ModuleRows
  <2> DEFINE budget == IF increase THEN b.modules[m].budget + change
                       ELSE b.modules[m].budget - change
             data == [b.modules[m] EXCEPT !.budget = budget]
  <2>2. new \in ChangeModuleBudget(b, m, change, increase)
    BY <1>9, <2>1 DEF ModulesChange
  <2>3. /\ ~(~increase /\ change > b.modules[m].budget)
        /\ new = [b EXCEPT !.modules = [b.modules EXCEPT ![m] = data]]
    BY <2>2 DEF ChangeModuleBudget
  <2>4. m \in 1..Len(b.modules) => data \in ModuleData
    <3> SUFFICES ASSUME m \in 1..Len(b.modules) PROVE data \in ModuleData
      OBVIOUS
    <3>1. b.modules[m] \in ModuleData BY <1>2
    <3>2. b.modules[m].budget \in Nat /\ change \in Nat
      BY <3>1, ModulesAssumption DEF ModuleData
    <3>3. budget \in Nat BY <2>3, <3>2
    <3> HIDE DEF budget
    <3>4. QED BY <3>1, <3>3 DEF ModuleData
  <2> HIDE DEF data
  <2>5. QED BY <1>5, <1>9, <2>3, <2>4, OneModuleChanges
<1>10. QED BY <1>4, <1>6, <1>7, <1>8, <1>9 DEF ModuleOps

LEMMA ModuleCallKeeps ==
  ASSUME contract \in TokenBooks, NEW call \in ModuleCalls,
         NEW new \in ModuleCallAfter(call)
  PROVE  /\ new \in TokenBooks /\ new.owner = contract.owner
         /\ new.poly <= contract.poly + Pays(call)
<1>1. PICK op \in ModuleOps : \E row \in ModuleRows(op) :
        call = [op |-> op, rows |-> <<row>>]
  BY CallPays
<1>2. PICK row \in ModuleRows(op) : call = [op |-> op, rows |-> <<row>>] BY <1>1
<1> DEFINE Is(g) == g = [k \in 0..1 |->
                           IF k = 0 THEN {contract}
                           ELSE UNION {ModulesChange(s, op, <<row>>[k]) : s \in g[k - 1]}]
           after == CHOOSE g : Is(g)
           g1 == [k \in 0..1 |-> IF k = 0 THEN {contract}
                                 ELSE ModulesChange(contract, op, row)]
<1>3. ModuleCallAfter(call) = after[1]
  BY <1>2 DEF ModuleCallAfter, InTurn
<1>4. Is(g1)
  <2>1. g1[0] = {contract} /\ <<row>>[1] = row OBVIOUS
  <2>2. UNION {ModulesChange(s, op, row) : s \in g1[0]} = ModulesChange(contract, op, row)
    BY <2>1
  <2>3. \A k \in 0..1 :
          g1[k] = IF k = 0 THEN {contract}
                  ELSE UNION {ModulesChange(s, op, <<row>>[k]) : s \in g1[k - 1]}
    <3>1. \A k \in 0..1 : k = 0 \/ k = 1 OBVIOUS
    <3>2. g1[1] = ModulesChange(contract, op, row) OBVIOUS
    <3>3. 1 - 1 = 0 OBVIOUS
    <3> HIDE DEF g1
    <3>4. QED BY <2>1, <2>2, <3>1, <3>2, <3>3
  <2>4. g1 = [k \in 0..1 |-> g1[k]] OBVIOUS
  <2> HIDE DEF g1
  <2>5. QED BY <2>3, <2>4
<1>5. Is(after)
  <2> HIDE DEF Is, g1
  <2> QED BY <1>4 DEF after
<1> HIDE DEF after
<1>6. after[0] = {contract} BY <1>5
<1>7. after[1] = ModulesChange(contract, op, row)
  <2>1. after[1] = UNION {ModulesChange(s, op, <<row>>[1]) : s \in after[0]} BY <1>5
  <2>2. <<row>>[1] = row OBVIOUS
  <2>3. QED BY <1>6, <2>1, <2>2
<1>8. QED BY <1>2, <1>3, <1>7, ModuleRecordKeeps

\* What the program has shown of the modules.
TokenShown ==
  [place \in {"token"} |-> [modules : SUBSET [address : Nat, data : ModuleData]]]

\* What a program pays is the first of its calls, and what it has not sent yet.
PaysFirst(s) == \A i \in 2..Len(s.calls) : s.calls[i].op # "transfer"
Unsent(s) == IF s.at = "sending" THEN Pays(Head(s.calls)) ELSE 0

\* The POLY of the token, with what waits to be mined and what will be sent.
Funds(poly, s, pool) ==
  /\ PaysFirst(s)
  /\ poly + Unsent(s) <= 2 * MaxFee
  /\ \A call \in pool : poly + Pays(call) + Unsent(s) <= 2 * MaxFee

ModulesInv ==
  current = "modules" =>
    /\ contract \in TokenBooks
    /\ Sessions([c \in Client |-> ModuleCalls], TokenShown)
    /\ Funds(contract.poly, session[contract.owner], mempool[contract.owner])

LEMMA UnsentIs ==
  ASSUME NEW s, IsSession(s, ModuleCalls, TokenShown)
  PROVE  Unsent(s) \in 0..MaxFee
<1>1. CASE s.at = "sending"
  <2>1. s.calls \in Seq(ModuleCalls) /\ s.calls # << >> BY <1>1 DEF IsSession
  <2>2. Head(s.calls) \in ModuleCalls BY <2>1
  <2>3. QED BY <1>1, <2>2, CallPays DEF Unsent
<1>2. CASE s.at # "sending" BY <1>2, MaxFeeIs DEF Unsent
<1>3. QED BY <1>1, <1>2

LEMMA NothingToPay ==
  ASSUME NEW at, NEW about
  PROVE  PaysFirst(Place(at, about)) /\ (at # "sending" => Unsent(Place(at, about)) = 0)
BY DEF PaysFirst, Unsent, Place

LEMMA NextPays ==
  ASSUME NEW s, IsSession(s, ModuleCalls, TokenShown), s.at \in {"sending", "waiting"},
         PaysFirst(s), NEW succeeded
  PROVE  PaysFirst(NextCall(s, succeeded)) /\ Unsent(NextCall(s, succeeded)) = 0
<1>1. CASE ~succeeded /\ ~s.goesOn BY <1>1, NothingToPay DEF NextCall, AtMenu
<1>2. CASE ~(~succeeded /\ ~s.goesOn) /\ Len(s.calls) = 1
  <2>1. s.then # "sending" BY DEF IsSession, Ready, TokenShown
  <2>2. QED BY <1>2, <2>1, NothingToPay DEF NextCall
<1>3. CASE ~(~succeeded /\ ~s.goesOn) /\ Len(s.calls) # 1
  <2> DEFINE t == [s EXCEPT !.at = "sending", !.calls = Tail(@)]
             rest == Tail(s.calls)
  <2>1. /\ {"at", "calls", "about", "then"} \subseteq DOMAIN s
        /\ s.calls \in Seq(ModuleCalls) /\ s.calls # << >>
    BY DEF IsSession
  <2>2. t.at = "sending" /\ t.calls = rest BY <2>1
  <2>3. /\ rest \in Seq(ModuleCalls) /\ Len(rest) = Len(s.calls) - 1
        /\ \A i \in 1..Len(rest) : rest[i] = s.calls[i + 1]
    BY <2>1
  <2>4. Len(s.calls) \in Nat /\ Len(s.calls) # 0 BY <2>1
  <2> HIDE DEF t, rest
  <2>5. \A i \in 1..Len(rest) : rest[i].op # "transfer"
    <3>1. \A i \in 1..Len(rest) : i + 1 \in 2..Len(s.calls) BY <2>3, <2>4
    <3>2. QED BY <2>3, <3>1 DEF PaysFirst
  <2>6. PaysFirst(t)
    <3>1. \A i \in 2..Len(rest) : i \in 1..Len(rest) BY <2>3
    <3>2. QED BY <2>2, <2>5, <3>1 DEF PaysFirst
  <2>7. Unsent(t) = 0
    <3>1. 1 \in 1..Len(rest) /\ Head(rest) = rest[1]
      <4>1. Len(rest) \in Nat /\ Len(rest) # 0 BY <1>3, <2>3, <2>4
      <4>2. 1 \in 1..Len(rest) BY <4>1
      <4>3. Head(rest) = rest[1] BY <2>3 DEF Head
      <4>4. QED BY <4>2, <4>3
    <3>2. QED BY <2>2, <2>5, <3>1 DEF Unsent, Pays
  <2>8. QED BY <1>3, <2>6, <2>7 DEF NextCall, t
<1>4. QED BY <1>1, <1>2, <1>3

\* A program that gives up or goes on without paying.
LEMMA FundsStay ==
  ASSUME NEW poly \in Nat, NEW s, IsSession(s, ModuleCalls, TokenShown),
         NEW pool \in SUBSET ModuleCalls, Funds(poly, s, pool),
         NEW now2, PaysFirst(now2), Unsent(now2) = 0
  PROVE  Funds(poly, now2, pool)
<1>1. Unsent(s) \in Nat BY UnsentIs
<1>2. poly + 0 <= 2 * MaxFee
  BY <1>1, MaxFeeIs DEF Funds
<1>3. ASSUME NEW call \in pool PROVE poly + Pays(call) + 0 <= 2 * MaxFee
  <2>1. Pays(call) \in Nat BY CallPays
  <2>2. poly + Pays(call) + Unsent(s) <= 2 * MaxFee BY DEF Funds
  <2>3. QED BY <1>1, <2>1, <2>2, MaxFeeIs
<1>4. QED BY <1>2, <1>3 DEF Funds

\* What a program begins that pays enough and no more.
LEMMA FundsBegun ==
  ASSUME NEW c \in Client, Sessions([d \in Client |-> ModuleCalls], TokenShown),
         NEW list \in Seq(ModuleCalls), list # << >>,
         \A i \in 2..Len(list) : list[i].op # "transfer",
         NEW about, Begin(c, list, about), NEW poly,
         poly + Pays(list[1]) <= 2 * MaxFee,
         \A call \in mempool[c] : poly + Pays(call) + Pays(list[1]) <= 2 * MaxFee
  PROVE  Funds(poly, session'[c], mempool'[c])
<1> DEFINE s == Sending(list, about)
<1>1. s.at = "sending" /\ s.calls = list BY DEF Sending, Place
<1>2. session' = [session EXCEPT ![c] = s] /\ mempool' = mempool
  BY <1>1 DEF Begin, StartCommand
<1> HIDE DEF s
<1>3. session'[c] = s BY <1>2 DEF Sessions
<1>4. Head(list) = list[1] OBVIOUS
<1>5. PaysFirst(s) /\ Unsent(s) = Pays(list[1]) BY <1>1, <1>4 DEF PaysFirst, Unsent
<1>6. QED BY <1>2, <1>3, <1>5 DEF Funds

\* What the owner's program does.
LEMMA ModulesStepKeeps ==
  ASSUME ModulesInv, NEW c \in Client, ModulesStep(c)
  PROVE  ModulesInv'
<1> DEFINE calls == [d \in Client |-> ModuleCalls]
           Kept == /\ contract' \in TokenBooks /\ contract'.owner = contract.owner
                   /\ Sessions(calls, TokenShown)'
                   /\ Funds(contract'.poly, session'[c], mempool'[c])
<1>1. /\ current = "modules" /\ contract \in TokenBooks /\ contract.owner = c
      /\ Sessions(calls, TokenShown) /\ calls[c] = ModuleCalls
      /\ Funds(contract.poly, session[c], mempool[c])
  BY DEF ModulesStep, ModulesInv
<1>2. SUFFICES Kept
  <2>1. calls' = calls OBVIOUS
  <2>2. QED BY <1>1, <2>1 DEF ModulesInv
<1>3. /\ IsSession(session[c], ModuleCalls, TokenShown)
      /\ mempool[c] \subseteq ModuleCalls
      /\ contract.poly \in Nat /\ contract.fee \in ModuleFee
      /\ contract.modules \in Seq(ModuleData)
  BY <1>1 DEF Sessions, TokenBooks
<1>4. Unsent(session[c]) \in Nat BY <1>3, UnsentIs
<1>5. ASSUME NEW list \in Seq(ModuleCalls), list # << >>,
             \A i \in 2..Len(list) : list[i].op # "transfer",
             Begin(c, list, {}),
             contract.poly + Pays(list[1]) <= 2 * MaxFee,
             \A call \in mempool[c] :
               contract.poly + Pays(call) + Pays(list[1]) <= 2 * MaxFee
      PROVE  Kept
  <2>1. Funds(contract.poly, session'[c], mempool'[c]) BY <1>1, <1>5, FundsBegun
  <2> HIDE DEF calls
  <2>2. Sessions(calls, TokenShown)' /\ SameContract BY <1>1, <1>5, Begins
  <2>3. QED BY <1>1, <2>1, <2>2 DEF SameContract
<1>6. ASSUME NEW op \in ModuleOps \ {"transfer"}, NEW row \in ModuleRows(op),
             Begin(c, One(op, row), {})
      PROVE  Kept
  <2> DEFINE call == [op |-> op, rows |-> <<row>>]
             list == <<call>>
  <2>1. call \in ModuleCalls BY DEF ModuleCalls
  <2>2. call.op # "transfer" OBVIOUS
  <2>3. Begin(c, list, {}) BY <1>6 DEF One
  <2> HIDE DEF call
  <2>4. list \in Seq(ModuleCalls) /\ list # << >> /\ list[1] = call /\ Len(list) = 1
    BY <2>1
  <2>5. Pays(list[1]) = 0 BY <2>2, <2>4 DEF Pays
  <2> HIDE DEF list
  <2>6. contract.poly + 0 <= 2 * MaxFee
        /\ \A other \in mempool[c] : contract.poly + Pays(other) + 0 <= 2 * MaxFee
    <3>1. Funds(contract.poly, AtMenu, mempool[c])
      BY <1>1, <1>3, FundsStay, NothingToPay DEF AtMenu
    <3>2. Unsent(AtMenu) = 0 BY NothingToPay DEF AtMenu
    <3>3. QED BY <3>1, <3>2 DEF Funds
  <2>7. \A i \in 2..Len(list) : list[i].op # "transfer" BY <2>4
  <2>8. QED BY <1>5, <2>3, <2>4, <2>5, <2>6, <2>7
<1>7. ASSUME NEW type \in {"transfer", "sto"}, AddModule(c, type) PROVE Kept
  <2> DEFINE poly == contract.poly
             fee == contract.fee
             missing == MissingPoly
  <2>1. fee \in Nat /\ poly \in Nat /\ fee <= MaxFee /\ MaxFee \in Nat
    BY <1>3, ModulesAssumption, MaxFeeIs
  <2>2. PICK archived \in BOOLEAN :
          Begin(c, PolyFirst(missing)
                     \o One("addModuleWithLabel", <<type, fee, archived>>), {})
    BY <1>7 DEF AddModule
  <2> DEFINE row == <<type, fee, archived>>
  <2>3. row \in ModuleRows("addModuleWithLabel") BY <2>1 DEF ModuleRows
  <2>4. /\ missing = IF poly < fee THEN fee - poly ELSE 0
        /\ missing \in 0..MaxFee
    BY <2>1 DEF MissingPoly
  <2> HIDE DEF row, missing
  <2>5. CASE missing > 0
    <3> DEFINE pay == [op |-> "transfer", rows |-> <<<<missing>>>>]
               add == [op |-> "addModuleWithLabel", rows |-> <<row>>]
               list == <<pay>> \o <<add>>
    <3>1. pay \in ModuleCalls /\ add \in ModuleCalls
      <4>1. <<missing>> \in ModuleRows("transfer") BY <2>4 DEF ModuleRows
      <4>2. "transfer" \in ModuleOps /\ "addModuleWithLabel" \in ModuleOps BY DEF ModuleOps
      <4>3. QED BY <2>3, <4>1, <4>2 DEF ModuleCalls
    <3>2. Pays(pay) = missing /\ add.op # "transfer" BY DEF Pays
    <3>3. PolyFirst(missing) = <<pay>> /\ One("addModuleWithLabel", row) = <<add>>
      BY <2>5 DEF PolyFirst, One
    <3>4. Begin(c, <<pay>> \o <<add>>, {}) BY <2>2, <3>3 DEF row
    <3> HIDE DEF pay, add
    <3>5. /\ list \in Seq(ModuleCalls) /\ Len(list) = 2
          /\ list[1] = pay /\ list[2] = add
      BY <3>1
    <3>6. /\ list # << >> /\ \A i \in 2..Len(list) : list[i].op # "transfer"
      <4> HIDE DEF list
      <4>1. \A i \in 2..Len(list) : i = 2 BY <3>5
      <4>2. list # << >> BY <3>5, NotEmpty
      <4>3. QED BY <3>2, <3>5, <4>1, <4>2
    <3>7. Begin(c, list, {}) BY <3>4
    <3> HIDE DEF list
    <3>8. poly + missing = fee BY <2>1, <2>4, <2>5
    <3>9. ASSUME NEW call \in mempool[c]
          PROVE  poly + Pays(call) + missing <= 2 * MaxFee
      <4>1. Pays(call) \in 0..MaxFee BY <1>3, CallPays
      <4> HIDE DEF poly, fee
      <4>2. QED BY <2>1, <2>4, <3>8, <4>1
    <3>10. poly + missing <= 2 * MaxFee
      <4> HIDE DEF poly, fee
      <4> QED BY <2>1, <3>8
    <3>11. poly + Pays(list[1]) <= 2 * MaxFee
          /\ \A call \in mempool[c] : poly + Pays(call) + Pays(list[1]) <= 2 * MaxFee
      BY <3>2, <3>5, <3>9, <3>10
    <3>12. QED BY <1>5, <3>5, <3>6, <3>7, <3>11
  <2>6. CASE ~(missing > 0)
    <3>1. PolyFirst(missing) = << >> BY <2>6 DEF PolyFirst
    <3> DEFINE list == One("addModuleWithLabel", row)
    <3>2. list \in Seq({[op |-> "addModuleWithLabel", rows |-> <<row>>]}) BY DEF One
    <3> HIDE DEF list
    <3>3. << >> \o list = list BY <3>2
    <3>4. Begin(c, list, {}) BY <2>2, <3>1, <3>3 DEF row, list
    <3>5. QED BY <1>6, <2>3, <3>4 DEF ModuleOps, list
  <2>7. QED BY <2>5, <2>6
<1>8. CASE At(c, "menu") /\ Show(c, "token", {[modules |-> GetAllModules]})
  <2> DEFINE about == {[modules |-> GetAllModules]}
  <2>1. GetAllModules \subseteq [address : Nat, data : ModuleData]
    BY <1>3 DEF GetAllModules
  <2>2. about # {} /\ about \subseteq TokenShown["token"]
    BY <2>1 DEF TokenShown
  <2>3. session' = [session EXCEPT ![c] = Place("token", about)]
        /\ UNCHANGED <<contract, mempool>>
    BY <1>8 DEF Show
  <2>4. Show(c, "token", about) BY <1>8
  <2> HIDE DEF about, calls
  <2>5. Sessions(calls, TokenShown)' BY <1>1, <2>2, <2>4, Shows
  <2>6. session'[c] = Place("token", about) BY <1>1, <2>3 DEF Sessions
  <2>7. Funds(contract.poly, session'[c], mempool[c])
    BY <1>1, <1>3, <2>6, FundsStay, NothingToPay
  <2>8. QED BY <1>1, <2>3, <2>5, <2>7
<1>9. CASE At(c, "token") /\ (ListModuleOptions(c) \/ WithdrawFromContract(c))
  <2>1. \A m \in Shown(c).modules : m.address \in Nat
    <3>1. "token" \in DOMAIN TokenShown BY DEF TokenShown
    <3> HIDE DEF calls
    <3>2. Shown(c) \in TokenShown["token"] BY <1>1, <1>9, <3>1, ShownIsShown
    <3>3. QED BY <3>2 DEF TokenShown
  <2>2. ASSUME NEW op \in {"archiveModule", "unarchiveModule", "removeModule", "pause",
                           "unpause"},
               \E m \in Shown(c).modules : Begin(c, One(op, <<m.address>>), {})
        PROVE  Kept
    <3>1. PICK m \in Shown(c).modules : Begin(c, One(op, <<m.address>>), {}) BY <2>2
    <3>2. <<m.address>> \in ModuleRows(op) BY <2>1 DEF ModuleRows
    <3>3. op \in ModuleOps \ {"transfer"} BY DEF ModuleOps
    <3>4. QED BY <1>6, <3>1, <3>2, <3>3
  <2>3. CASE PauseShown(c) BY <2>2, <2>3 DEF PauseShown, ShownWhere
  <2>4. CASE UnpauseShown(c) BY <2>2, <2>4 DEF UnpauseShown, ShownWhere
  <2>5. CASE ArchiveShown(c) BY <2>2, <2>5 DEF ArchiveShown, ShownWhere
  <2>6. CASE UnarchiveShown(c) BY <2>2, <2>6 DEF UnarchiveShown, ShownWhere
  <2>7. CASE RemoveShown(c) BY <2>2, <2>7 DEF RemoveShown, ShownWhere
  <2>8. CASE ChangeBudget(c)
    <3>1. PICK m \in Shown(c).modules, amount \in PolyTyped, increase \in BOOLEAN :
            Begin(c, One("changeModuleBudget", <<m.address, amount, increase>>), {})
      BY <2>8 DEF ChangeBudget, ShownWhere
    <3>2. <<m.address, amount, increase>> \in ModuleRows("changeModuleBudget")
      BY <2>1 DEF ModuleRows
    <3>3. "changeModuleBudget" \in ModuleOps \ {"transfer"} BY DEF ModuleOps
    <3>4. QED BY <1>6, <3>1, <3>2, <3>3
  <2>9. CASE WithdrawFromContract(c)
    <3>1. PICK value \in PolyTyped : Begin(c, One("withdrawERC20", <<value>>), {})
      BY <2>9 DEF WithdrawFromContract
    <3>2. <<value>> \in ModuleRows("withdrawERC20") BY DEF ModuleRows
    <3>3. "withdrawERC20" \in ModuleOps \ {"transfer"} BY DEF ModuleOps
    <3>4. QED BY <1>6, <3>1, <3>2, <3>3
  <2>10. CASE AddModuleOfType(c)
    BY <1>7, <2>10 DEF AddModuleOfType, AddTransferManagerModule, AddSTOModule
  <2>11. QED
    BY <1>9, <2>3, <2>4, <2>5, <2>6, <2>7, <2>8, <2>9, <2>10 DEF ListModuleOptions
<1>10. CASE Send(c, ModuleCallAfter(ToSend(c)))
  <2> HIDE DEF calls
  <2>1. Sessions(calls, TokenShown)' /\ SameContract BY <1>1, <1>10, Sends
  <2>2. session[c].at = "sending" BY <1>10 DEF Send
  <2>3. CASE Leave(c, NextCall(session[c], FALSE))
    <3>1. session'[c] = NextCall(session[c], FALSE) /\ mempool' = mempool
      BY <1>1, <2>3 DEF Leave, Sessions
    <3>2. PaysFirst(session'[c]) /\ Unsent(session'[c]) = 0
      BY <1>1, <1>3, <2>2, <3>1, NextPays DEF Funds
    <3>3. Funds(contract.poly, session'[c], mempool[c])
      BY <1>1, <1>3, <3>2, FundsStay
    <3>4. QED BY <1>1, <2>1, <3>1, <3>3 DEF SameContract
  <2>4. CASE /\ mempool' = [mempool EXCEPT ![c] = {ToSend(c)}]
             /\ session' = [session EXCEPT ![c].at = "waiting"]
    <3> DEFINE s == [session[c] EXCEPT !.at = "waiting"]
    <3>1. session'[c] = s /\ mempool'[c] = {ToSend(c)} BY <1>1, <2>4 DEF Sessions
    <3>2. s.at = "waiting" /\ s.calls = session[c].calls BY <1>3 DEF IsSession
    <3> HIDE DEF s
    <3>3. PaysFirst(s) /\ Unsent(s) = 0 BY <1>1, <3>2 DEF Funds, PaysFirst, Unsent
    <3>4. Unsent(session[c]) = Pays(ToSend(c)) BY <2>2 DEF Unsent, ToSend
    <3>5. Pays(ToSend(c)) \in Nat BY <1>4, <3>4
    <3>6. contract.poly + Pays(ToSend(c)) <= 2 * MaxFee BY <1>1, <3>4 DEF Funds
    <3>7. contract.poly + Pays(ToSend(c)) + 0 <= 2 * MaxFee
          /\ contract.poly + 0 <= 2 * MaxFee
      BY <1>3, <3>5, <3>6, MaxFeeIs
    <3>8. Funds(contract.poly, session'[c], mempool'[c])
      BY <3>1, <3>3, <3>7 DEF Funds
    <3>9. QED BY <1>1, <2>1, <3>8 DEF SameContract
  <2>5. QED BY <1>10, <2>3, <2>4 DEF Send
<1>11. ASSUME NEW call \in mempool[c], Mine(c, ModuleCallAfter(call)) PROVE Kept
  <2>1. call \in ModuleCalls BY <1>3
  <2>2. Pays(call) \in Nat BY <2>1, CallPays
  <2> HIDE DEF calls
  <2>3. /\ Sessions(calls, TokenShown)'
        /\ contract' \in ModuleCallAfter(call) \/ contract' = contract
        /\ mempool' = [mempool EXCEPT ![c] = {}]
    BY <1>1, <1>11, Mines
  <2>4. /\ contract' \in TokenBooks /\ contract'.owner = contract.owner
        /\ contract'.poly <= contract.poly + Pays(call)
    <3>1. CASE contract' = contract BY <1>1, <1>3, <2>2, <3>1
    <3>2. CASE contract' \in ModuleCallAfter(call)
      BY <1>1, <2>1, <3>2, ModuleCallKeeps
    <3>3. QED BY <2>3, <3>1, <3>2
  <2>5. mempool'[c] = {} BY <1>1, <2>3 DEF Sessions
  <2>6. PICK succeeded \in BOOLEAN :
          session'[c] = AfterReceipt(session[c], succeeded)
    BY <1>1, <1>11 DEF Mine, Sessions
  <2>7. PaysFirst(session'[c]) /\ Unsent(session'[c]) \in {0, Unsent(session[c])}
    <3>1. CASE session[c].at = "waiting"
      BY <1>1, <1>3, <2>6, <3>1, NextPays DEF AfterReceipt, Funds
    <3>2. CASE session[c].at # "waiting" BY <1>1, <2>6, <3>2 DEF AfterReceipt, Funds
    <3>3. QED BY <3>1, <3>2
  <2>8. contract'.poly + Unsent(session'[c]) <= 2 * MaxFee
    <3>1. contract.poly + Pays(call) + Unsent(session[c]) <= 2 * MaxFee
      BY <1>1 DEF Funds
    <3>2. contract'.poly \in Nat BY <2>4 DEF TokenBooks
    <3>3. QED BY <1>3, <1>4, <2>2, <2>4, <2>7, <3>1, <3>2, MaxFeeIs
  <2>9. Funds(contract'.poly, session'[c], mempool'[c])
    BY <2>5, <2>7, <2>8 DEF Funds
  <2>10. QED BY <2>3, <2>4, <2>9
<1>12. QED BY <1>8, <1>9, <1>10, <1>11 DEF ModulesStep, ModulesManager

LEMMA FactoryStepKeeps == ASSUME ModulesInv, FactoryStep PROVE ModulesInv'
<1>1. /\ current = "modules" /\ contract \in TokenBooks
      /\ Sessions([c \in Client |-> ModuleCalls], TokenShown)
      /\ Funds(contract.poly, session[contract.owner], mempool[contract.owner])
      /\ contract' \in FactoryMoves(contract)
      /\ UNCHANGED <<now, current, session, mempool, begun>>
  BY DEF FactoryStep, ModulesInv
<1>2. /\ contract' \in TokenBooks
      /\ contract'.poly = contract.poly /\ contract'.owner = contract.owner
  <2>1. CASE \E fee \in ModuleFee : contract' = [contract EXCEPT !.fee = fee]
    BY <1>1, <2>1 DEF TokenBooks
  <2>2. CASE contract' = [contract EXCEPT !.usable = ~@]
    BY <1>1, <2>2 DEF TokenBooks
  <2>3. QED BY <1>1, <2>1, <2>2 DEF FactoryMoves
<1>3. Sessions([c \in Client |-> ModuleCalls], TokenShown)' BY <1>1 DEF Sessions
<1>4. QED BY <1>1, <1>2, <1>3 DEF ModulesInv

LEMMA ModulesAtFirst == Init => ModulesInv
<1> SUFFICES ASSUME Init, current = "modules"
             PROVE  /\ contract \in TokenBooks
                    /\ Sessions([c \in Client |-> ModuleCalls], TokenShown)
                    /\ Funds(contract.poly, session[contract.owner],
                             mempool[contract.owner])
  BY DEF ModulesInv
<1>1. PICK c \in Client, fee \in ModuleFee,
           before \in {<< >>, <<NewModule("permission", FALSE)>>} :
        contract = NewToken(c, before, fee)
  BY DEF Init, ConfigExistingModules, ListsInit, Lists, ApprovalsInit, RestrictionsInit,
     GeneralInit, LimitsInit, RegistryInit, PermissionsInit, WalletInit, ModulesInit,
     IssuanceInit
<1>2. contract = [modules |-> before, poly |-> 0, purse |-> Purse, fee |-> fee,
                  usable |-> TRUE, owner |-> c]
  BY <1>1 DEF NewToken
<1>3. before \in Seq(ModuleData)
  <2> DEFINE data == NewModule("permission", FALSE)
  <2>1. data \in ModuleData BY DEF NewModule, ModuleData
  <2> HIDE DEF data
  <2>2. << >> \in Seq(ModuleData) /\ <<data>> \in Seq(ModuleData) BY <2>1
  <2>3. before = << >> \/ before = <<data>> BY DEF data
  <2>4. QED BY <2>2, <2>3
<1>5. contract \in TokenBooks /\ contract.poly = 0 /\ contract.owner = c
  BY <1>2, <1>3, ModulesAssumption DEF TokenBooks
<1>6. SessionInit BY DEF Init
<1>7. DOMAIN TokenShown \cap {"menu", "sending", "waiting"} = {} BY DEF TokenShown
<1>8. Sessions([d \in Client |-> ModuleCalls], TokenShown) BY <1>6, <1>7, SessionsAtFirst
<1>9. session[c] = AtMenu /\ mempool[c] = {} BY <1>6 DEF SessionInit
<1>10. Funds(0, AtMenu, {})
  BY NothingToPay, MaxFeeIs DEF Funds, AtMenu
<1>11. QED BY <1>5, <1>8, <1>9, <1>10

LEMMA ModulesKept == ModulesInv /\ [Next]_sessionVars => ModulesInv'
<1> SUFFICES ASSUME ModulesInv, [Next]_sessionVars PROVE ModulesInv'
  OBVIOUS
<1>1. CASE current = "modules"
  <2> DEFINE o == contract.owner
  <2>1. /\ contract \in TokenBooks /\ o \in Client
        /\ Sessions([c \in Client |-> ModuleCalls], TokenShown)
        /\ Funds(contract.poly, session[o], mempool[o])
    BY <1>1 DEF ModulesInv, TokenBooks
  <2>2. CASE \E c \in Client : ModulesStep(c) BY <2>2, ModulesStepKeeps
  <2>3. CASE FactoryStep BY <2>3, FactoryStepKeeps
  <2>4. CASE (\E c \in Client : Kill(c)) \/ UNCHANGED sessionVars \/ Tick
    <3>1. Sessions([c \in Client |-> ModuleCalls], TokenShown)'
          /\ UNCHANGED <<current, contract>>
      BY <2>1, <2>4, CommonSteps
    <3>2. Funds(contract.poly, session'[o], mempool'[o])
      <4>1. CASE \E c \in Client : Kill(c)
        <5>1. PICK c \in Client : Kill(c) BY <4>1
        <5>2. session' = [session EXCEPT ![c] = AtMenu] /\ mempool' = mempool
          BY <5>1 DEF Kill, Throw, Leave
        <5>3. session'[o] \in {session[o], AtMenu} BY <2>1, <5>2 DEF Sessions
        <5>4. Funds(contract.poly, AtMenu, mempool[o])
          <6>1. /\ IsSession(session[o], ModuleCalls, TokenShown)
                /\ mempool[o] \in SUBSET ModuleCalls /\ contract.poly \in Nat
            BY <2>1 DEF Sessions, TokenBooks
          <6>2. QED BY <2>1, <6>1, FundsStay, NothingToPay DEF AtMenu
        <5>5. QED BY <2>1, <5>2, <5>3, <5>4
      <4>2. CASE UNCHANGED sessionVars \/ Tick
        <5>1. session' = session /\ mempool' = mempool BY <4>2 DEF Tick, sessionVars
        <5>2. QED BY <2>1, <5>1
      <4>3. QED BY <2>4, <4>1, <4>2
    <3>3. QED BY <2>1, <3>1, <3>2 DEF ModulesInv
  <2>5. QED BY <1>1, <2>2, <2>3, <2>4, StepsOf
<1>2. CASE current # "modules" BY <1>2, ModuleStays DEF ModulesInv
<1>3. QED BY <1>1, <1>2

\* token_manager.js: what programs that were stopped had paid into the token does
\* not add up, over any number of restarts and changes of the fee.
THEOREM LeftoverIsAlwaysUsed == Spec => []LeftoverIsUsed
<1>1. ModulesInv => LeftoverIsUsed
  <2> SUFFICES ASSUME contract \in TokenBooks,
                      Sessions([c \in Client |-> ModuleCalls], TokenShown),
                      Funds(contract.poly, session[contract.owner], mempool[contract.owner])
               PROVE  contract.poly <= 2 * MaxFee
    BY DEF ModulesInv, LeftoverIsUsed
  <2> DEFINE s == session[contract.owner]
  <2>1. contract.poly \in Nat /\ IsSession(s, ModuleCalls, TokenShown)
    BY DEF TokenBooks, Sessions
  <2>2. Unsent(s) \in Nat BY <2>1, UnsentIs
  <2>3. contract.poly + Unsent(s) <= 2 * MaxFee BY DEF Funds
  <2> HIDE DEF s
  <2>4. QED BY <2>1, <2>2, <2>3, MaxFeeIs
<1>2. QED BY <1>1, ModulesAtFirst, ModulesKept, PTL DEF Spec

-----------------------------------------------------------------------------
(* Tickers.                                                                *)

Registries ==
  [registryOwner : User, paused : BOOLEAN, expiryLimit : Nat, fee : [FeeKind -> Nat],
   tickerOwner : [Ticker -> User \cup {NoUser}], expiryDate : [Ticker -> Nat],
   status : [Ticker -> BOOLEAN], tokenOwner : [Ticker -> User \cup {NoUser}],
   tickerIndex : [Ticker -> Nat], userToTickers : [User -> Seq(Ticker)],
   poly : [User -> Nat], allowance : [User -> Nat]]

\* Those of some tickers are in the array of their owner, at their index, and the
\* arrays hold nothing else.
Filed(r, S) ==
  /\ \A t \in S : /\ r.tickerOwner[t] \in User
                  /\ r.tickerIndex[t] < Len(r.userToTickers[r.tickerOwner[t]])
  /\ \A u \in User, t \in Ticker : \A k \in 1..Len(r.userToTickers[u]) :
       (r.userToTickers[u][k] = t) <=>
         (t \in S /\ r.tickerOwner[t] = u /\ k = r.tickerIndex[t] + 1)

Owned(r) == {t \in Ticker : r.tickerOwner[t] # NoUser}

RegistryBooks ==
  {r \in Registries :
     /\ Filed(r, Owned(r))
     /\ \A t \in Ticker : /\ r.status[t] <=> r.tokenOwner[t] # NoUser
                          /\ r.status[t] => r.tickerOwner[t] # NoUser}

\* Two registries that differ in the arrays only.
SameButArrays(r, new) ==
  /\ new.registryOwner = r.registryOwner /\ new.paused = r.paused
  /\ new.expiryLimit = r.expiryLimit /\ new.fee = r.fee
  /\ new.tickerOwner = r.tickerOwner /\ new.expiryDate = r.expiryDate
  /\ new.status = r.status /\ new.tokenOwner = r.tokenOwner
  /\ new.poly = r.poly /\ new.allowance = r.allowance

LEMMA TickerFiled ==
  ASSUME NEW r \in Registries, NEW S \in SUBSET Ticker, Filed(r, S),
         NEW t \in Ticker, t \notin S, NEW u \in User,
         NEW new \in Registries,
         new.userToTickers = [r.userToTickers EXCEPT ![u] = Append(@, t)],
         new.tickerIndex = [r.tickerIndex EXCEPT ![t] = Len(r.userToTickers[u])],
         new.tickerOwner = [r.tickerOwner EXCEPT ![t] = u]
  PROVE  Filed(new, S \cup {t})
<1> DEFINE arrays == r.userToTickers
           after == new.userToTickers
           n == Len(arrays[u])
<1>1. /\ arrays \in [User -> Seq(Ticker)] /\ after \in [User -> Seq(Ticker)]
      /\ r.tickerIndex \in [Ticker -> Nat] /\ new.tickerIndex \in [Ticker -> Nat]
      /\ r.tickerOwner \in [Ticker -> User \cup {NoUser}]
      /\ new.tickerOwner \in [Ticker -> User \cup {NoUser}]
  BY DEF Registries
<1>2. /\ \A v \in User \ {u} : after[v] = arrays[v]
      /\ after[u] = Append(arrays[u], t)
  BY <1>1
<1>3. /\ \A s \in Ticker \ {t} : /\ new.tickerIndex[s] = r.tickerIndex[s]
                                 /\ new.tickerOwner[s] = r.tickerOwner[s]
      /\ new.tickerIndex[t] = n /\ new.tickerOwner[t] = u
  BY <1>1
<1> HIDE DEF arrays, after, n
<1>4. /\ n \in Nat /\ Len(after[u]) = n + 1
      /\ \A k \in 1..n : after[u][k] = arrays[u][k]
      /\ after[u][n + 1] = t
  BY <1>1, <1>2 DEF n
<1>5. ASSUME NEW s \in S \cup {t}
      PROVE  /\ new.tickerOwner[s] \in User
             /\ new.tickerIndex[s] < Len(after[new.tickerOwner[s]])
  <2>1. CASE s = t BY <1>3, <1>4, <2>1
  <2>2. CASE s # t
    <3> DEFINE v == r.tickerOwner[s]
    <3>1. s \in S /\ s \in Ticker /\ new.tickerOwner[s] = v
          /\ new.tickerIndex[s] = r.tickerIndex[s]
      BY <1>3, <2>2
    <3>2. v \in User /\ r.tickerIndex[s] < Len(arrays[v]) /\ r.tickerIndex[s] \in Nat
      BY <1>1, <3>1 DEF Filed, arrays
    <3> HIDE DEF v
    <3>3. CASE v = u BY <1>4, <3>1, <3>2, <3>3 DEF n
    <3>4. CASE v # u BY <1>2, <3>1, <3>2, <3>4
    <3>5. QED BY <3>3, <3>4
  <2>3. QED BY <2>1, <2>2
<1>6. ASSUME NEW v \in User, NEW s \in Ticker, NEW k \in 1..Len(after[v])
      PROVE  (after[v][k] = s) <=>
               (s \in S \cup {t} /\ new.tickerOwner[s] = v /\ k = new.tickerIndex[s] + 1)
  <2>1. ASSUME NEW j \in 1..Len(arrays[v])
        PROVE  (arrays[v][j] = s) <=>
                 (s \in S /\ r.tickerOwner[s] = v /\ j = r.tickerIndex[s] + 1)
    BY DEF Filed, arrays
  <2>2. CASE v # u
    <3>1. after[v] = arrays[v] BY <1>2, <2>2
    <3>2. k \in 1..Len(arrays[v]) BY <3>1
    <3>3. CASE s = t BY <1>3, <2>1, <2>2, <3>1, <3>2, <3>3
    <3>4. CASE s # t BY <1>3, <2>1, <3>1, <3>2, <3>4
    <3>5. QED BY <3>3, <3>4
  <2>3. CASE v = u /\ k = n + 1
    <3>1. CASE s = t BY <1>3, <1>4, <2>3, <3>1
    <3>2. CASE s # t
      <4>1. after[v][k] # s BY <1>4, <2>3, <3>2
      <4>2. s \in S /\ r.tickerOwner[s] = u => r.tickerIndex[s] < n
        BY DEF Filed, arrays, n
      <4>3. r.tickerIndex[s] \in Nat BY <1>1
      <4>4. QED BY <1>3, <1>4, <2>3, <3>2, <4>1, <4>2, <4>3
    <3>3. QED BY <3>1, <3>2
  <2>4. CASE v = u /\ k # n + 1
    <3>1. k \in 1..n BY <1>4, <2>4
    <3>2. k \in 1..Len(arrays[v]) /\ after[v][k] = arrays[v][k]
      BY <1>4, <2>4, <3>1 DEF n
    <3>3. CASE s = t
      <4>1. arrays[v][k] # t BY <2>1, <3>2, <3>3
      <4>2. k # new.tickerIndex[s] + 1 BY <1>3, <2>4, <3>3
      <4>3. QED BY <3>2, <3>3, <4>1, <4>2
    <3>4. CASE s # t BY <1>3, <2>1, <3>2, <3>4
    <3>5. QED BY <3>3, <3>4
  <2>5. QED BY <2>2, <2>3, <2>4
<1>7. QED BY <1>5, <1>6 DEF Filed, after

LEMMA RestIs ==
  ASSUME NEW S, NEW tickers \in Seq(S), NEW i \in Nat, i < Len(tickers)
  PROVE  LET rest == Front([tickers EXCEPT ![i + 1] = Last(tickers)])
             m == Len(tickers)
         IN  /\ rest \in Seq(S) /\ Len(rest) = m - 1
             /\ tickers[m] \in S
             /\ \A k \in 1..(m - 1) :
                  rest[k] = IF k = i + 1 THEN tickers[m] ELSE tickers[k]
<1> DEFINE m == Len(tickers)
           changed == [tickers EXCEPT ![i + 1] = tickers[m]]
           rest == SubSeq(changed, 1, m - 1)
<1>1. m \in Nat /\ m # 0 /\ m \in 1..m /\ i + 1 \in 1..m /\ tickers[m] \in S OBVIOUS
<1>2. /\ changed \in Seq(S) /\ Len(changed) = m
      /\ \A k \in 1..m : changed[k] = IF k = i + 1 THEN tickers[m] ELSE tickers[k]
  <2>1. tickers \in [1..m -> S] OBVIOUS
  <2> HIDE DEF m
  <2>2. changed \in [1..m -> S]
        /\ \A k \in 1..m : changed[k] = IF k = i + 1 THEN tickers[m] ELSE tickers[k]
    BY <1>1, <2>1
  <2> HIDE DEF changed
  <2>3. changed \in Seq(S) /\ Len(changed) = m BY <1>1, <2>2
  <2>4. QED BY <2>2, <2>3
<1>3. Front([tickers EXCEPT ![i + 1] = Last(tickers)]) = rest
  BY <1>2 DEF Front, Last
<1> HIDE DEF m, changed
<1>4. /\ rest \in Seq(S) /\ Len(rest) = m - 1
      /\ \A k \in 1..(m - 1) : rest[k] = changed[k]
  BY <1>1, <1>2
<1>5. \A k \in 1..(m - 1) : k \in 1..m BY <1>1
<1> HIDE DEF rest
<1>6. QED BY <1>1, <1>2, <1>3, <1>4, <1>5 DEF m

LEMMA TickerDeleted ==
  ASSUME NEW r \in Registries, NEW S \in SUBSET Ticker, Filed(r, S),
         NEW t \in S, NEW u \in User, NEW new \in DeleteTickerOwnership(r, u, t)
  PROVE  /\ r.tickerOwner[t] = u
         /\ new \in Registries /\ SameButArrays(r, new)
         /\ Filed(new, S \ {t})
<1> DEFINE tickers == r.userToTickers[u]
           i == r.tickerIndex[t]
           m == Len(tickers)
           last == tickers[m]
           rest == Front([tickers EXCEPT ![i + 1] = Last(tickers)])
           index == IF Len(rest) > i THEN [r.tickerIndex EXCEPT ![rest[i + 1]] = i]
                    ELSE r.tickerIndex
<1>1. /\ i < m /\ r.tickerOwner[t] = u
      /\ new = [r EXCEPT !.userToTickers = [r.userToTickers EXCEPT ![u] = rest],
                         !.tickerIndex = index]
  <2>1. i < m /\ r.tickerOwner[t] = u BY DEF DeleteTickerOwnership
  <2> DEFINE arrays == [r.userToTickers EXCEPT ![u] = rest]
  <2>2. new = IF Len(rest) > i
                THEN [r EXCEPT !.userToTickers = arrays,
                               !.tickerIndex = [r.tickerIndex EXCEPT ![rest[i + 1]] = i]]
                ELSE [r EXCEPT !.userToTickers = arrays]
    BY <2>1 DEF DeleteTickerOwnership
  <2> HIDE DEF arrays, rest
  <2>3. CASE Len(rest) > i
    <3>1. index = [r.tickerIndex EXCEPT ![rest[i + 1]] = i] BY <2>3
    <3>2. QED BY <2>1, <2>2, <2>3, <3>1 DEF arrays
  <2>4. CASE ~(Len(rest) > i)
    <3>1. index = r.tickerIndex BY <2>4
    <3>2. [r EXCEPT !.userToTickers = arrays]
            = [r EXCEPT !.userToTickers = arrays, !.tickerIndex = r.tickerIndex]
      BY DEF Registries
    <3>3. QED BY <2>1, <2>2, <2>4, <3>1, <3>2 DEF arrays
  <2>5. QED BY <2>3, <2>4
<1>2. /\ r.userToTickers \in [User -> Seq(Ticker)] /\ tickers \in Seq(Ticker)
      /\ r.tickerIndex \in [Ticker -> Nat] /\ i \in Nat /\ t \in Ticker /\ m \in Nat
  BY DEF Registries
<1>3. /\ rest \in Seq(Ticker) /\ Len(rest) = m - 1 /\ last \in Ticker
      /\ \A k \in 1..(m - 1) : rest[k] = IF k = i + 1 THEN last ELSE tickers[k]
  <2> HIDE DEF tickers, i
  <2>1. QED BY <1>1, <1>2, RestIs
<1> HIDE DEF rest
<1>4. /\ index \in [Ticker -> Nat]
      /\ \A s \in Ticker : index[s] = IF s = last /\ i # m - 1 THEN i ELSE r.tickerIndex[s]
  <2>1. CASE Len(rest) > i
    <3>1. i + 1 \in 1..(m - 1) /\ i # m - 1 BY <1>2, <1>3, <2>1
    <3>2. rest[i + 1] = last BY <1>3, <3>1
    <3>3. index = [r.tickerIndex EXCEPT ![last] = i] BY <2>1, <3>2
    <3> HIDE DEF index, i, last, m
    <3>4. QED BY <1>2, <1>3, <3>1, <3>3
  <2>2. CASE ~(Len(rest) > i)
    <3>1. i = m - 1
      <4> HIDE DEF i, m
      <4> QED BY <1>1, <1>2, <1>3, <2>2
    <3>2. QED BY <1>2, <2>2, <3>1
  <2>3. QED BY <2>1, <2>2
<1> HIDE DEF index
<1>5. /\ new \in Registries /\ SameButArrays(r, new) /\ new.tickerIndex = index
      /\ new.userToTickers[u] = rest
      /\ \A v \in User \ {u} : new.userToTickers[v] = r.userToTickers[v]
  <2> DEFINE arrays == [r.userToTickers EXCEPT ![u] = rest]
  <2>1. arrays \in [User -> Seq(Ticker)] /\ arrays[u] = rest
        /\ \A v \in User \ {u} : arrays[v] = r.userToTickers[v]
    BY <1>2, <1>3
  <2>2. new = [r EXCEPT !.userToTickers = arrays, !.tickerIndex = index] BY <1>1
  <2> HIDE DEF arrays
  <2>3. new \in Registries BY <1>4, <2>1, <2>2 DEF Registries
  <2>4. SameButArrays(r, new) BY <2>2 DEF Registries, SameButArrays
  <2>5. new.tickerIndex = index /\ new.userToTickers = arrays BY <2>2 DEF Registries
  <2>6. QED BY <2>1, <2>3, <2>4, <2>5
<1>6. \A s \in Ticker, k \in 1..m :
        (tickers[k] = s) <=> (s \in S /\ r.tickerOwner[s] = u /\ k = r.tickerIndex[s] + 1)
  BY DEF Filed
<1>7. /\ last \in S /\ r.tickerOwner[last] = u /\ r.tickerIndex[last] = m - 1
  <2>1. m \in 1..m BY <1>1, <1>2
  <2>2. m = r.tickerIndex[last] + 1 /\ last \in S /\ r.tickerOwner[last] = u
    BY <1>3, <1>6, <2>1
  <2>3. r.tickerIndex[last] \in Nat BY <1>2, <1>3
  <2>4. QED BY <1>2, <2>2, <2>3
<1>8. tickers[i + 1] = t
  <2>1. i + 1 \in 1..m BY <1>1, <1>2
  <2>2. QED BY <1>1, <1>2, <1>6, <2>1
<1>9. \A s \in S : /\ s \in Ticker /\ r.tickerOwner[s] \in User /\ r.tickerIndex[s] \in Nat
                   /\ r.tickerIndex[s] < Len(r.userToTickers[r.tickerOwner[s]])
  BY <1>2 DEF Filed
<1>10. new.tickerOwner = r.tickerOwner BY <1>5 DEF SameButArrays
<1>11. ASSUME NEW s \in S \ {t}
       PROVE  /\ new.tickerOwner[s] \in User
              /\ new.tickerIndex[s] < Len(new.userToTickers[new.tickerOwner[s]])
  <2> DEFINE v == r.tickerOwner[s]
             j == r.tickerIndex[s]
  <2>1. /\ s \in Ticker /\ v \in User /\ j \in Nat /\ j < Len(r.userToTickers[v])
        /\ new.tickerOwner[s] = v
    BY <1>9, <1>10
  <2>2. index[s] = IF s = last /\ i # m - 1 THEN i ELSE j BY <1>4, <2>1
  <2>3. CASE v # u
    <3>1. s # last BY <1>7, <2>3
    <3>2. QED BY <1>5, <2>1, <2>2, <2>3, <3>1
  <2>4. CASE v = u
    <3>1. j < m BY <2>1, <2>4
    <3>2. CASE s = last
      <4>1. i # m - 1 BY <1>1, <1>2, <1>8, <3>2
      <4> HIDE DEF m, i, last
      <4>2. i < m - 1 BY <1>1, <1>2, <4>1
      <4>3. QED BY <1>3, <1>5, <2>1, <2>2, <2>4, <3>2, <4>1, <4>2
    <3>3. CASE s # last
      <4>1. j # m - 1
        <5>1. m \in 1..m BY <1>1, <1>2
        <5>2. m = j + 1 => tickers[m] = s BY <1>6, <2>1, <2>4, <5>1
        <5>3. QED BY <1>2, <3>3, <5>2
      <4> HIDE DEF m, i, last, j
      <4>2. j < m - 1 BY <1>2, <2>1, <3>1, <4>1
      <4>3. QED BY <1>3, <1>5, <2>1, <2>2, <2>4, <3>3, <4>2
    <3>4. QED BY <3>2, <3>3
  <2>5. QED BY <2>3, <2>4
<1>12. ASSUME NEW v \in User, NEW s \in Ticker, NEW k \in 1..Len(new.userToTickers[v])
       PROVE  (new.userToTickers[v][k] = s) <=>
                (s \in S \ {t} /\ new.tickerOwner[s] = v /\ k = new.tickerIndex[s] + 1)
  <2>1. /\ index[s] = IF s = last /\ i # m - 1 THEN i ELSE r.tickerIndex[s]
        /\ r.tickerIndex[s] \in Nat
    BY <1>2, <1>4
  <2>2. CASE v # u
    <3>1. k \in 1..Len(r.userToTickers[v]) /\ new.userToTickers[v] = r.userToTickers[v]
      BY <1>5, <2>2
    <3>2. (r.userToTickers[v][k] = s) <=>
            (s \in S /\ r.tickerOwner[s] = v /\ k = r.tickerIndex[s] + 1)
      BY <3>1 DEF Filed
    <3>3. r.tickerOwner[s] = v => s # last /\ s # t BY <1>1, <1>7, <2>2
    <3>4. QED BY <1>5, <1>10, <2>1, <3>1, <3>2, <3>3
  <2>3. CASE v = u
    <3>1. k \in 1..(m - 1) /\ k \in 1..m /\ k # m BY <1>2, <1>3, <1>5, <2>3
    <3>2. new.userToTickers[v][k] = IF k = i + 1 THEN last ELSE tickers[k]
      BY <1>3, <1>5, <2>3, <3>1
    <3>3. (tickers[k] = s) <=>
            (s \in S /\ r.tickerOwner[s] = u /\ k = r.tickerIndex[s] + 1)
      BY <1>6, <3>1
    <3> HIDE DEF m, i, last, tickers
    <3>4. CASE s = last
      <4>1. r.tickerIndex[s] = m - 1 /\ s \in S /\ r.tickerOwner[s] = u BY <1>7, <3>4
      <4>2. CASE i = m - 1
        <5>1. k # i + 1 /\ last = t
          BY <1>2, <1>8, <3>1, <4>2 DEF last
        <5>2. tickers[k] # s BY <1>2, <3>1, <3>3, <4>1
        <5>3. QED BY <3>2, <3>4, <5>1, <5>2
      <4>3. CASE i # m - 1
        <5>1. index[s] = i BY <2>1, <3>4, <4>3
        <5>2. s # t BY <1>1, <1>2, <4>1, <4>3 DEF i
        <5>3. k # i + 1 => tickers[k] # s BY <1>2, <3>1, <3>3, <4>1
        <5>4. QED BY <1>5, <1>10, <2>3, <3>2, <3>4, <4>1, <5>1, <5>2, <5>3
      <4>4. QED BY <4>2, <4>3
    <3>5. CASE s # last
      <4>1. index[s] = r.tickerIndex[s] BY <2>1, <3>5
      <4>2. CASE k = i + 1
        <5>1. tickers[k] = t BY <1>8, <4>2
        <5>2. s # t => ~(s \in S /\ r.tickerOwner[s] = u /\ k = r.tickerIndex[s] + 1)
          BY <3>3, <5>1
        <5>3. QED BY <1>5, <1>10, <2>3, <3>2, <3>5, <4>1, <4>2, <5>2
      <4>3. CASE k # i + 1
        <5>1. s = t => r.tickerIndex[s] = i BY DEF i
        <5>2. s = t => tickers[k] # s BY <3>3, <4>3, <5>1
        <5>3. QED BY <1>5, <1>10, <2>3, <3>2, <3>3, <4>1, <4>3, <5>2
      <4>4. QED BY <4>2, <4>3
    <3>6. QED BY <3>4, <3>5
  <2>4. QED BY <2>2, <2>3
<1>13. Filed(new, S \ {t}) BY <1>11, <1>12 DEF Filed
<1>14. QED BY <1>1, <1>5, <1>13

\* A ticker has a token exactly when it is launched, and then an owner.
Launched(r, t) ==
  /\ r.status[t] <=> r.tokenOwner[t] # NoUser
  /\ r.status[t] => r.tickerOwner[t] # NoUser

LEMMA TickerFreed ==
  ASSUME NEW r \in Registries, Filed(r, Owned(r)), NEW t \in Ticker,
         NEW free \in FromPreviousOwner(r, t)
  PROVE  /\ free \in Registries /\ SameButArrays(r, free)
         /\ Filed(free, Owned(r) \ {t})
<1>1. Owned(r) \in SUBSET Ticker BY DEF Owned
<1>2. CASE r.tickerOwner[t] = NoUser
  <2>1. free = r BY <1>2 DEF FromPreviousOwner
  <2>2. Owned(r) \ {t} = Owned(r) BY <1>2 DEF Owned
  <2>3. QED BY <2>1, <2>2 DEF SameButArrays
<1>3. CASE r.tickerOwner[t] # NoUser
  <2>1. t \in Owned(r) BY <1>3 DEF Owned
  <2>2. r.tickerOwner[t] \in User BY <1>3 DEF Registries
  <2>3. free \in DeleteTickerOwnership(r, r.tickerOwner[t], t)
    BY <1>3 DEF FromPreviousOwner
  <2>4. QED BY <1>1, <2>1, <2>2, <2>3, TickerDeleted
<1>4. QED BY <1>2, <1>3

\* What else becomes of a ticker that is added.
LEMMA TickerAdded ==
  ASSUME NEW r \in Registries, NEW S \in SUBSET Ticker, Filed(r, S),
         NEW t \in Ticker, t \notin S, NEW u \in User,
         NEW expiry \in Nat, NEW status \in BOOLEAN
  PROVE  LET new == AddTicker(r, u, t, expiry, status)
         IN  /\ new \in Registries /\ Filed(new, S \cup {t})
             /\ new.tickerOwner = [r.tickerOwner EXCEPT ![t] = u]
             /\ new.status = [r.status EXCEPT ![t] = status]
             /\ new.tokenOwner = r.tokenOwner
<1> DEFINE new == AddTicker(r, u, t, expiry, status)
           arrays == [r.userToTickers EXCEPT ![u] = Append(@, t)]
           index == [r.tickerIndex EXCEPT ![t] = Len(r.userToTickers[u])]
           owner == [r.tickerOwner EXCEPT ![t] = u]
           expiries == [r.expiryDate EXCEPT ![t] = expiry]
           statuses == [r.status EXCEPT ![t] = status]
<1>1. new = [r EXCEPT !.userToTickers = arrays, !.tickerIndex = index,
                      !.tickerOwner = owner, !.expiryDate = expiries,
                      !.status = statuses]
  BY DEF AddTicker, SetTickerOwnership, Registries
<1>2. /\ r.userToTickers \in [User -> Seq(Ticker)] /\ r.tickerIndex \in [Ticker -> Nat]
      /\ r.tickerOwner \in [Ticker -> User \cup {NoUser}]
      /\ r.expiryDate \in [Ticker -> Nat] /\ r.status \in [Ticker -> BOOLEAN]
  BY DEF Registries
<1>3. /\ arrays \in [User -> Seq(Ticker)] /\ index \in [Ticker -> Nat]
      /\ owner \in [Ticker -> User \cup {NoUser}]
      /\ expiries \in [Ticker -> Nat] /\ statuses \in [Ticker -> BOOLEAN]
  BY <1>2
<1> HIDE DEF new, arrays, index, owner, expiries, statuses
<1>4. new \in Registries BY <1>1, <1>3 DEF Registries
<1>5. /\ new.userToTickers = arrays /\ new.tickerIndex = index
      /\ new.tickerOwner = owner /\ new.status = statuses
      /\ new.tokenOwner = r.tokenOwner
  BY <1>1 DEF Registries
<1>6. Filed(new, S \cup {t})
  BY <1>4, <1>5, TickerFiled DEF arrays, index, owner
<1>7. QED BY <1>4, <1>5, <1>6 DEF new, owner, statuses

\* A registry with a ticker taken from its owner, if it had one, to be given to
\* somebody as a launched one or not.
Freed(r, t, free, status) ==
  /\ \A s \in Ticker \ {t} : Launched(r, s)
  /\ free \in Registries /\ Filed(free, Owned(r) \ {t})
  /\ free.tickerOwner = r.tickerOwner /\ free.status = r.status
  /\ \A s \in Ticker \ {t} : free.tokenOwner[s] = r.tokenOwner[s]
  /\ status <=> free.tokenOwner[t] # NoUser

LEMMA TickerGoesTo ==
  ASSUME NEW r \in Registries, NEW t \in Ticker, NEW u \in User,
         NEW expiry \in Nat, NEW status \in BOOLEAN,
         NEW free, Freed(r, t, free, status),
         NEW new, new = AddTicker(free, u, t, expiry, status)
  PROVE  /\ new \in RegistryBooks
         /\ \A s \in Ticker \ {t} : new.tickerOwner[s] = r.tickerOwner[s]
<1>0. /\ \A s \in Ticker \ {t} : Launched(r, s)
      /\ free \in Registries /\ Filed(free, Owned(r) \ {t})
      /\ free.tickerOwner = r.tickerOwner /\ free.status = r.status
      /\ \A s \in Ticker \ {t} : free.tokenOwner[s] = r.tokenOwner[s]
      /\ status <=> free.tokenOwner[t] # NoUser
  BY DEF Freed
<1>1. (Owned(r) \ {t}) \in SUBSET Ticker /\ t \notin (Owned(r) \ {t}) BY DEF Owned
<1>2. /\ new \in Registries /\ Filed(new, (Owned(r) \ {t}) \cup {t})
      /\ new.tickerOwner = [free.tickerOwner EXCEPT ![t] = u]
      /\ new.status = [free.status EXCEPT ![t] = status]
      /\ new.tokenOwner = free.tokenOwner
  BY <1>0, <1>1, TickerAdded
<1>3. /\ r.tickerOwner \in [Ticker -> User \cup {NoUser}] /\ r.status \in [Ticker -> BOOLEAN]
  BY DEF Registries
<1>4. /\ \A s \in Ticker \ {t} : /\ new.tickerOwner[s] = r.tickerOwner[s]
                                 /\ new.status[s] = r.status[s]
                                 /\ new.tokenOwner[s] = r.tokenOwner[s]
      /\ new.tickerOwner[t] = u /\ new.status[t] = status
      /\ new.tokenOwner[t] = free.tokenOwner[t]
  BY <1>0, <1>2, <1>3
<1>5. u # NoUser BY RegistryAssumption
<1>6. Owned(new) = (Owned(r) \ {t}) \cup {t} BY <1>4, <1>5 DEF Owned
<1>7. \A s \in Ticker : Launched(new, s)
  <2>1. Launched(new, t) BY <1>0, <1>4, <1>5 DEF Launched
  <2>2. \A s \in Ticker \ {t} : Launched(new, s) BY <1>0, <1>4 DEF Launched
  <2>3. QED BY <2>1, <2>2
<1>8. QED BY <1>2, <1>4, <1>6, <1>7 DEF RegistryBooks, Launched

\* Reserved, of any registry at any time.
Held(r, t, time) ==
  r.tickerOwner[t] # NoUser /\ (r.status[t] \/ time <= r.expiryDate[t])

\* What an account may make of the tickers of others.
MayBecome(r, time, c) ==
  {new \in RegistryBooks :
     \A t \in Ticker :
       (Held(r, t, time) /\ new.tickerOwner[t] # r.tickerOwner[t]) =>
         c \in {r.tickerOwner[t], r.registryOwner}}

\* Nobody's ticker changes hands.
LEMMA TickersStay ==
  ASSUME NEW r \in RegistryBooks, NEW time, NEW c, NEW new \in Registries,
         new.tickerOwner = r.tickerOwner, new.tickerIndex = r.tickerIndex,
         new.userToTickers = r.userToTickers, \A t \in Ticker : Launched(new, t)
  PROVE  new \in MayBecome(r, time, c)
<1>1. Owned(new) = Owned(r) BY DEF Owned
<1>2. Filed(new, Owned(new)) BY <1>1 DEF RegistryBooks, Filed
<1>3. QED BY <1>2 DEF RegistryBooks, Launched, MayBecome

LEMMA BooksStay ==
  ASSUME NEW r \in RegistryBooks, NEW time, NEW c, NEW new \in Registries,
         new.tickerOwner = r.tickerOwner, new.tickerIndex = r.tickerIndex,
         new.userToTickers = r.userToTickers, new.status = r.status,
         new.tokenOwner = r.tokenOwner
  PROVE  new \in MayBecome(r, time, c)
<1>1. \A t \in Ticker : Launched(new, t) BY DEF RegistryBooks, Launched
<1>2. QED BY <1>1, TickersStay

LEMMA FeeTaken ==
  ASSUME NEW r \in Registries, NEW c \in User, NEW kind \in FeeKind,
         NEW paid \in TakeFee(r, c, kind)
  PROVE  /\ paid \in Registries
         /\ paid.registryOwner = r.registryOwner /\ paid.expiryLimit = r.expiryLimit
         /\ paid.tickerOwner = r.tickerOwner /\ paid.tickerIndex = r.tickerIndex
         /\ paid.userToTickers = r.userToTickers /\ paid.expiryDate = r.expiryDate
         /\ paid.status = r.status /\ paid.tokenOwner = r.tokenOwner
<1> DEFINE fee == r.fee[kind]
           poly == [r.poly EXCEPT ![c] = @ - fee]
           allowance == [r.allowance EXCEPT ![c] = @ - fee]
<1>1. /\ fee \in Nat /\ r.poly \in [User -> Nat] /\ r.allowance \in [User -> Nat]
  BY DEF Registries
<1>2. /\ fee <= r.poly[c] /\ fee <= r.allowance[c]
      /\ paid = [r EXCEPT !.poly = poly, !.allowance = allowance]
  BY <1>1 DEF TakeFee, Registries
<1>3. r.poly[c] - fee \in Nat /\ r.allowance[c] - fee \in Nat BY <1>1, <1>2
<1>4. poly \in [User -> Nat] /\ allowance \in [User -> Nat] BY <1>1, <1>3
<1> HIDE DEF poly, allowance
<1>5. paid \in Registries BY <1>2, <1>4 DEF Registries
<1>6. QED BY <1>2, <1>5 DEF Registries

LEMMA RegisterKeeps ==
  ASSUME NEW r \in RegistryBooks, NEW time \in Nat, NEW c \in User, NEW t \in Ticker,
         NEW new \in RegisterTicker(r, c, t, time)
  PROVE  new \in MayBecome(r, time, c)
<1>1. r \in Registries /\ \A s \in Ticker : Launched(r, s)
      /\ Filed(r, Owned(r))
  BY DEF RegistryBooks, Launched
<1>2. TickerAvailable(r, t, time) BY DEF RegisterTicker
<1>3. PICK paid \in TakeFee(r, c, "registration") :
        \E free \in FromPreviousOwner(paid, t) :
          new = AddTicker(free, c, t, time + r.expiryLimit, FALSE)
  BY DEF RegisterTicker
<1>4. PICK free \in FromPreviousOwner(paid, t) :
        new = AddTicker(free, c, t, time + r.expiryLimit, FALSE)
  BY <1>3
<1>5. "registration" \in FeeKind BY DEF FeeKind
<1>6. /\ paid \in Registries
      /\ paid.tickerOwner = r.tickerOwner /\ paid.tickerIndex = r.tickerIndex
      /\ paid.userToTickers = r.userToTickers
      /\ paid.status = r.status /\ paid.tokenOwner = r.tokenOwner
  BY <1>1, <1>5, FeeTaken
<1>7. Owned(paid) = Owned(r) BY <1>6 DEF Owned
<1>8. Filed(paid, Owned(paid)) BY <1>1, <1>6, <1>7 DEF Filed
<1>9. /\ free \in Registries /\ SameButArrays(paid, free)
      /\ Filed(free, Owned(paid) \ {t})
  BY <1>6, <1>8, TickerFreed
<1>10. ~r.status[t]
  <2>1. r.tickerOwner[t] = NoUser => ~r.status[t] BY <1>1 DEF Launched
  <2>2. QED BY <1>2, <2>1 DEF TickerAvailable
<1>11. /\ free.tickerOwner = r.tickerOwner /\ free.status = r.status
       /\ free.tokenOwner = r.tokenOwner /\ Filed(free, Owned(r) \ {t})
  BY <1>6, <1>7, <1>9 DEF SameButArrays
<1>12. FALSE <=> free.tokenOwner[t] # NoUser
  BY <1>1, <1>10, <1>11 DEF Launched
<1> DEFINE expiry == time + r.expiryLimit
<1>13. expiry \in Nat BY <1>1 DEF Registries
<1>14. new = AddTicker(free, c, t, expiry, FALSE) BY <1>4
<1> HIDE DEF expiry
<1>15. /\ new \in RegistryBooks
       /\ \A s \in Ticker \ {t} : new.tickerOwner[s] = r.tickerOwner[s]
  <2>1. Freed(r, t, free, FALSE) BY <1>1, <1>9, <1>11, <1>12 DEF Freed
  <2> DEFINE status == FALSE
  <2>2. /\ status \in BOOLEAN /\ Freed(r, t, free, status)
        /\ new = AddTicker(free, c, t, expiry, status)
    BY <1>14, <2>1
  <2> HIDE DEF status
  <2>3. QED BY <1>1, <1>13, <2>2, TickerGoesTo
<1>16. ~Held(r, t, time)
  <2>1. r.expiryDate[t] \in Nat BY <1>1 DEF Registries
  <2>2. QED BY <1>2, <2>1 DEF Held, TickerAvailable
<1>17. QED BY <1>15, <1>16 DEF MayBecome

LEMMA ModifyTickerKeeps ==
  ASSUME NEW r \in Registries, Filed(r, Owned(r)), NEW t \in Ticker, NEW u \in User,
         \A s \in Ticker \ {t} : Launched(r, s),
         NEW expiry \in Nat, NEW status \in BOOLEAN,
         status \/ Launched(r, t),
         NEW new \in ModifyTicker(r, u, t, expiry, status)
  PROVE  new \in RegistryBooks
<1> DEFINE Unlaunched(free) == IF r.status[t] /\ ~status
                                 THEN [free EXCEPT !.tokenOwner[t] = NoUser] ELSE free
<1>1. ~(status /\ r.tokenOwner[t] = NoUser) BY DEF ModifyTicker
<1>2. PICK freed \in FromPreviousOwner(r, t) :
        new = AddTicker(Unlaunched(freed), u, t, expiry, status)
  BY DEF ModifyTicker
<1>3. /\ freed \in Registries /\ SameButArrays(r, freed)
      /\ Filed(freed, Owned(r) \ {t})
  BY TickerFreed
<1> DEFINE free == Unlaunched(freed)
           tokens == IF r.status[t] /\ ~status
                       THEN [r.tokenOwner EXCEPT ![t] = NoUser] ELSE r.tokenOwner
<1>4. r.tokenOwner \in [Ticker -> User \cup {NoUser}] BY DEF Registries
<1>5. tokens \in [Ticker -> User \cup {NoUser}] BY <1>4
<1>6. freed.tokenOwner = r.tokenOwner BY <1>3 DEF SameButArrays
<1>7. free = [freed EXCEPT !.tokenOwner = tokens]
  <2>1. CASE r.status[t] /\ ~status BY <1>6, <2>1
  <2>2. CASE ~(r.status[t] /\ ~status)
    <3>1. free = freed /\ tokens = freed.tokenOwner BY <1>6, <2>2
    <3> HIDE DEF free, tokens
    <3>2. QED BY <1>3, <3>1 DEF Registries
  <2>3. QED BY <2>1, <2>2
<1>8. \A s \in Ticker \ {t} : tokens[s] = r.tokenOwner[s] BY <1>4
<1>9. status <=> tokens[t] # NoUser BY <1>1, <1>4 DEF Launched
<1>10. new = AddTicker(free, u, t, expiry, status) BY <1>2
<1> HIDE DEF free, tokens, Unlaunched
<1>11. /\ free \in Registries /\ free.tokenOwner = tokens
       /\ free.tickerOwner = freed.tickerOwner /\ free.status = freed.status
       /\ free.tickerIndex = freed.tickerIndex
       /\ free.userToTickers = freed.userToTickers
  <2>1. free \in Registries BY <1>3, <1>5, <1>7 DEF Registries
  <2>2. QED BY <1>3, <1>7, <2>1 DEF Registries
<1>12. free.tickerOwner = r.tickerOwner /\ free.status = r.status
  BY <1>3, <1>11 DEF SameButArrays
<1>13. Filed(free, Owned(r) \ {t}) BY <1>3, <1>11 DEF Filed
<1>14. Freed(r, t, free, status) BY <1>8, <1>9, <1>11, <1>12, <1>13 DEF Freed
<1>15. QED BY <1>10, <1>14, TickerGoesTo

LEMMA TransferTickerKeeps ==
  ASSUME NEW r \in RegistryBooks, NEW time, NEW c \in User, NEW u \in User,
         NEW t \in Ticker, NEW new \in TransferTickerOwnership(r, c, u, t)
  PROVE  new \in MayBecome(r, time, c)
<1>1. r \in Registries /\ \A s \in Ticker : Launched(r, s)
      /\ Filed(r, Owned(r))
  BY DEF RegistryBooks, Launched
<1>2. /\ r.tickerOwner[t] = c
      /\ \E deleted \in DeleteTickerOwnership(r, c, t) :
           new = [SetTickerOwnership(deleted, u, t) EXCEPT !.tickerOwner[t] = u]
  BY DEF TransferTickerOwnership
<1>3. PICK freed \in DeleteTickerOwnership(r, c, t) :
        new = [SetTickerOwnership(freed, u, t) EXCEPT !.tickerOwner[t] = u]
  BY <1>2
<1>4. c # NoUser /\ u # NoUser BY RegistryAssumption
<1>5. t \in Owned(r) /\ Owned(r) \in SUBSET Ticker BY <1>2, <1>4 DEF Owned
<1>6. freed \in Registries /\ SameButArrays(r, freed) /\ Filed(freed, Owned(r) \ {t})
  BY <1>1, <1>5, TickerDeleted
<1> DEFINE arrays == [freed.userToTickers EXCEPT ![u] = Append(@, t)]
           index == [freed.tickerIndex EXCEPT ![t] = Len(freed.userToTickers[u])]
           owner == [freed.tickerOwner EXCEPT ![t] = u]
<1>7. new = [freed EXCEPT !.userToTickers = arrays, !.tickerIndex = index,
                          !.tickerOwner = owner]
  BY <1>3, <1>6 DEF SetTickerOwnership, Registries
<1>8. /\ freed.userToTickers \in [User -> Seq(Ticker)]
      /\ freed.tickerIndex \in [Ticker -> Nat]
      /\ freed.tickerOwner \in [Ticker -> User \cup {NoUser}]
  BY <1>6 DEF Registries
<1>9. /\ arrays \in [User -> Seq(Ticker)] /\ index \in [Ticker -> Nat]
      /\ owner \in [Ticker -> User \cup {NoUser}]
      /\ owner[t] = u /\ \A s \in Ticker \ {t} : owner[s] = freed.tickerOwner[s]
  BY <1>8
<1> HIDE DEF arrays, index, owner
<1>10. /\ new \in Registries
       /\ new.userToTickers = arrays /\ new.tickerIndex = index
       /\ new.tickerOwner = owner /\ new.status = r.status
       /\ new.tokenOwner = r.tokenOwner
  <2>1. new \in Registries BY <1>6, <1>7, <1>9 DEF Registries
  <2>2. freed.status = r.status /\ freed.tokenOwner = r.tokenOwner
    BY <1>6 DEF SameButArrays
  <2>3. QED BY <1>6, <1>7, <2>1, <2>2 DEF Registries
<1>11. Filed(new, (Owned(r) \ {t}) \cup {t})
  <2>1. (Owned(r) \ {t}) \in SUBSET Ticker /\ t \notin (Owned(r) \ {t}) BY <1>5
  <2>2. QED BY <1>6, <1>10, <2>1, TickerFiled DEF arrays, index, owner
<1>12. /\ new.tickerOwner[t] = u
       /\ \A s \in Ticker \ {t} : new.tickerOwner[s] = r.tickerOwner[s]
  BY <1>6, <1>9, <1>10 DEF SameButArrays
<1>13. Owned(new) = (Owned(r) \ {t}) \cup {t} BY <1>4, <1>12 DEF Owned
<1>14. \A s \in Ticker : Launched(new, s)
  <2>1. ASSUME NEW s \in Ticker PROVE Launched(new, s)
    <3>1. new.tickerOwner[s] = NoUser => r.tickerOwner[s] = NoUser BY <1>4, <1>12
    <3>2. QED BY <1>1, <1>10, <3>1 DEF Launched
  <2>2. QED BY <2>1
<1>15. new \in RegistryBooks BY <1>10, <1>11, <1>13, <1>14 DEF RegistryBooks, Launched
<1>16. QED BY <1>2, <1>12, <1>15 DEF MayBecome

LEMMA RemoveTickerKeeps ==
  ASSUME NEW r \in RegistryBooks, NEW t \in Ticker, NEW new \in RemoveTicker(r, t)
  PROVE  new \in RegistryBooks
<1>1. r \in Registries /\ \A s \in Ticker : Launched(r, s)
      /\ Filed(r, Owned(r))
  BY DEF RegistryBooks, Launched
<1>2. r.tickerOwner[t] # NoUser BY DEF RemoveTicker
<1>3. PICK freed \in FromPreviousOwner(r, t) :
        new = [freed EXCEPT !.tokenOwner[t] = NoUser, !.tickerOwner[t] = NoUser,
                            !.expiryDate[t] = 0, !.status[t] = FALSE]
  BY <1>2 DEF RemoveTicker, FromPreviousOwner
<1>4. freed \in Registries /\ SameButArrays(r, freed) /\ Filed(freed, Owned(r) \ {t})
  BY <1>1, TickerFreed
<1> DEFINE tokens == [freed.tokenOwner EXCEPT ![t] = NoUser]
           owner == [freed.tickerOwner EXCEPT ![t] = NoUser]
           expiries == [freed.expiryDate EXCEPT ![t] = 0]
           statuses == [freed.status EXCEPT ![t] = FALSE]
<1>5. new = [freed EXCEPT !.tokenOwner = tokens, !.tickerOwner = owner,
                          !.expiryDate = expiries, !.status = statuses]
  BY <1>3, <1>4 DEF Registries
<1>6. /\ freed.tokenOwner \in [Ticker -> User \cup {NoUser}]
      /\ freed.tickerOwner \in [Ticker -> User \cup {NoUser}]
      /\ freed.expiryDate \in [Ticker -> Nat] /\ freed.status \in [Ticker -> BOOLEAN]
  BY <1>4 DEF Registries
<1>7. /\ tokens \in [Ticker -> User \cup {NoUser}]
      /\ owner \in [Ticker -> User \cup {NoUser}]
      /\ expiries \in [Ticker -> Nat] /\ statuses \in [Ticker -> BOOLEAN]
  BY <1>6
<1>8. /\ tokens[t] = NoUser /\ owner[t] = NoUser /\ ~statuses[t]
      /\ \A s \in Ticker \ {t} : /\ tokens[s] = freed.tokenOwner[s]
                                 /\ owner[s] = freed.tickerOwner[s]
                                 /\ statuses[s] = freed.status[s]
  BY <1>6
<1> HIDE DEF tokens, owner, expiries, statuses
<1>9. new \in Registries BY <1>4, <1>5, <1>7 DEF Registries
<1>10. /\ new.tokenOwner = tokens /\ new.tickerOwner = owner /\ new.status = statuses
       /\ new.tickerIndex = freed.tickerIndex
       /\ new.userToTickers = freed.userToTickers
  BY <1>4, <1>5 DEF Registries
<1>11. \A s \in Ticker \ {t} : /\ new.tokenOwner[s] = r.tokenOwner[s]
                               /\ new.tickerOwner[s] = r.tickerOwner[s]
                               /\ new.status[s] = r.status[s]
  BY <1>4, <1>8, <1>10 DEF SameButArrays
<1>12. Owned(new) = Owned(r) \ {t} BY <1>8, <1>10, <1>11 DEF Owned
<1>13. Filed(new, Owned(r) \ {t})
  <2>1. \A s \in Owned(r) \ {t} : s \in Ticker /\ new.tickerOwner[s] = freed.tickerOwner[s]
    BY <1>8, <1>10 DEF Owned
  <2>2. QED BY <1>4, <1>10, <2>1 DEF Filed
<1>14. \A s \in Ticker : Launched(new, s)
  <2>1. Launched(new, t) BY <1>8, <1>10 DEF Launched
  <2>2. \A s \in Ticker \ {t} : Launched(new, s) BY <1>1, <1>11 DEF Launched
  <2>3. QED BY <2>1, <2>2
<1>15. QED BY <1>9, <1>12, <1>13, <1>14 DEF RegistryBooks, Launched

LEMMA ModifySecurityTokenKeeps ==
  ASSUME NEW r \in RegistryBooks, NEW time \in Nat, NEW u \in User, NEW t \in Ticker,
         NEW o \in User, NEW new \in ModifySecurityToken(r, u, t, o, time)
  PROVE  new \in RegistryBooks
<1>1. r \in Registries /\ \A s \in Ticker : Launched(r, s)
      /\ Filed(r, Owned(r))
  BY DEF RegistryBooks, Launched
<1> DEFINE expiry == IF r.tickerOwner[t] = NoUser THEN time + r.expiryLimit
                                                  ELSE r.expiryDate[t]
           tokens == [r.tokenOwner EXCEPT ![t] = o]
           known == [r EXCEPT !.tokenOwner = tokens]
           status == TRUE
<1>2. expiry \in Nat /\ tokens \in [Ticker -> User \cup {NoUser}]
      /\ \A s \in Ticker \ {t} : tokens[s] = r.tokenOwner[s]
  BY <1>1 DEF Registries
<1>3. new \in ModifyTicker(known, u, t, expiry, status)
  BY DEF ModifySecurityToken
<1> HIDE DEF expiry, tokens
<1>4. /\ known \in Registries /\ known.tokenOwner = tokens
      /\ known.tickerOwner = r.tickerOwner /\ known.status = r.status
      /\ known.tickerIndex = r.tickerIndex /\ known.userToTickers = r.userToTickers
  BY <1>1, <1>2 DEF Registries
<1> HIDE DEF known
<1>5. Owned(known) = Owned(r) BY <1>4 DEF Owned
<1>6. Filed(known, Owned(known)) BY <1>1, <1>4, <1>5 DEF Filed
<1>7. \A s \in Ticker \ {t} : Launched(known, s) BY <1>1, <1>2, <1>4 DEF Launched
<1>8. status \in BOOLEAN /\ status OBVIOUS
<1> HIDE DEF status
<1>9. QED BY <1>2, <1>3, <1>4, <1>6, <1>7, <1>8, ModifyTickerKeeps

LEMMA GenerateKeeps ==
  ASSUME NEW r \in RegistryBooks, NEW time, NEW c \in User, NEW t \in Ticker,
         NEW new \in GenerateSecurityToken(r, c, t, time)
  PROVE  new \in MayBecome(r, time, c)
<1>1. r \in Registries /\ \A s \in Ticker : Launched(r, s)
  BY DEF RegistryBooks, Launched
<1>2. r.tickerOwner[t] = c BY DEF GenerateSecurityToken
<1>3. PICK paid \in TakeFee(r, c, "launch") :
        new = [paid EXCEPT !.status[t] = TRUE, !.tokenOwner[t] = c]
  BY DEF GenerateSecurityToken
<1>4. "launch" \in FeeKind BY DEF FeeKind
<1>5. /\ paid \in Registries
      /\ paid.tickerOwner = r.tickerOwner /\ paid.tickerIndex = r.tickerIndex
      /\ paid.userToTickers = r.userToTickers
      /\ paid.status = r.status /\ paid.tokenOwner = r.tokenOwner
  BY <1>1, <1>4, FeeTaken
<1> DEFINE statuses == [r.status EXCEPT ![t] = TRUE]
           tokens == [r.tokenOwner EXCEPT ![t] = c]
<1>6. new = [paid EXCEPT !.status = statuses, !.tokenOwner = tokens]
  BY <1>3, <1>5 DEF Registries
<1>7. /\ r.status \in [Ticker -> BOOLEAN] /\ r.tokenOwner \in [Ticker -> User \cup {NoUser}]
  BY <1>1 DEF Registries
<1>8. /\ statuses \in [Ticker -> BOOLEAN] /\ tokens \in [Ticker -> User \cup {NoUser}]
      /\ statuses[t] /\ tokens[t] = c
      /\ \A s \in Ticker \ {t} : statuses[s] = r.status[s] /\ tokens[s] = r.tokenOwner[s]
  BY <1>7
<1> HIDE DEF statuses, tokens
<1>9. new \in Registries BY <1>5, <1>6, <1>8 DEF Registries
<1>10. /\ new.tickerOwner = r.tickerOwner /\ new.tickerIndex = r.tickerIndex
       /\ new.userToTickers = r.userToTickers
       /\ new.status = statuses /\ new.tokenOwner = tokens
  BY <1>5, <1>6 DEF Registries
<1>11. \A s \in Ticker : Launched(new, s)
  <2>1. c # NoUser BY RegistryAssumption
  <2>2. Launched(new, t) BY <1>2, <1>8, <1>10, <2>1 DEF Launched
  <2>3. \A s \in Ticker \ {t} : Launched(new, s) BY <1>1, <1>8, <1>10 DEF Launched
  <2>4. QED BY <2>2, <2>3
<1>12. QED BY <1>9, <1>10, <1>11, TickersStay

LEMMA TokenGiven ==
  ASSUME NEW r \in RegistryBooks, NEW time, NEW c \in User, NEW u \in User,
         NEW t \in Ticker, NEW new \in TransferTokenOwnership(r, c, u, t)
  PROVE  new \in MayBecome(r, time, c)
<1>1. r \in Registries /\ \A s \in Ticker : Launched(r, s)
  BY DEF RegistryBooks, Launched
<1> DEFINE tokens == [r.tokenOwner EXCEPT ![t] = u]
<1>2. r.tokenOwner[t] = c /\ new = [r EXCEPT !.tokenOwner = tokens]
  BY DEF TransferTokenOwnership
<1>3. r.tokenOwner \in [Ticker -> User \cup {NoUser}] BY <1>1 DEF Registries
<1>4. /\ tokens \in [Ticker -> User \cup {NoUser}] /\ tokens[t] = u
      /\ \A s \in Ticker \ {t} : tokens[s] = r.tokenOwner[s]
  BY <1>3
<1> HIDE DEF tokens
<1>5. /\ new \in Registries
      /\ new.tickerOwner = r.tickerOwner /\ new.tickerIndex = r.tickerIndex
      /\ new.userToTickers = r.userToTickers
      /\ new.status = r.status /\ new.tokenOwner = tokens
  BY <1>1, <1>2, <1>4 DEF Registries
<1>6. \A s \in Ticker : Launched(new, s)
  <2>1. c # NoUser /\ u # NoUser BY RegistryAssumption
  <2>2. Launched(new, t) BY <1>1, <1>2, <1>4, <1>5, <2>1 DEF Launched
  <2>3. \A s \in Ticker \ {t} : Launched(new, s) BY <1>1, <1>4, <1>5 DEF Launched
  <2>4. QED BY <2>2, <2>3
<1>7. QED BY <1>5, <1>6, TickersStay

\* What operators record of an account, one record in a call.
RegistryRows(c, op) ==
  CASE op = "approve" -> {c} \X Nat
    [] op = "getTokens" -> {c} \X User \X Nat
    [] op \in {"registerTicker", "generateNewSecurityToken", "removeTicker"} ->
         {c} \X Ticker
    [] op \in {"transferTickerOwnership", "transferTokenOwnership"} ->
         {c} \X User \X Ticker
    [] op = "modifyTicker" -> {c} \X User \X Ticker \X Nat \X BOOLEAN
    [] op = "modifySecurityToken" -> {c} \X User \X Ticker \X User
    [] op = "changeExpiryLimit" -> {c} \X Nat
    [] op = "changeFee" -> {c} \X FeeKind \X Nat
    [] op = "changeFees" -> {c} \X [FeeKind -> Nat]
    [] op = "transferOwnership" -> {c} \X User

RegistryOps ==
  {"approve", "getTokens", "registerTicker", "transferTickerOwnership",
   "generateNewSecurityToken", "modifyTicker", "removeTicker", "modifySecurityToken",
   "changeExpiryLimit", "changeFee", "changeFees", "transferOwnership",
   "transferTokenOwnership"}

RegistryCalls(c) ==
  UNION {{[op |-> op, rows |-> <<row>>] : row \in RegistryRows(c, op)} : op \in RegistryOps}

LEMMA ByOwnerMay ==
  ASSUME NEW r, NEW time, NEW c, r.registryOwner = c, NEW new \in RegistryBooks
  PROVE  new \in MayBecome(r, time, c)
BY DEF MayBecome

LEMMA RegistryRecordKeeps ==
  ASSUME NEW r \in RegistryBooks, NEW time \in Nat, NEW c \in Client,
         NEW op \in RegistryOps, NEW row \in RegistryRows(c, op),
         NEW new \in RegistryChange(r, op, row, time)
  PROVE  new \in MayBecome(r, time, c)
<1>1. /\ r \in Registries /\ \A s \in Ticker : Launched(r, s)
      /\ Filed(r, Owned(r)) /\ c \in User
  BY RegistryAssumption DEF RegistryBooks, Launched
<1>2. ASSUME NEW x \in Registries, x.tickerOwner = r.tickerOwner,
             x.tickerIndex = r.tickerIndex, x.userToTickers = r.userToTickers,
             x.status = r.status, x.tokenOwner = r.tokenOwner
      PROVE  x \in MayBecome(r, time, c)
  BY <1>2, BooksStay
<1>3. CASE op = "approve"
  <2>1. PICK n \in Nat : row = <<c, n>> BY <1>3 DEF RegistryRows
  <2> DEFINE allowance == [r.allowance EXCEPT ![c] = n]
  <2>2. new = [r EXCEPT !.allowance = allowance]
    BY <1>3, <2>1 DEF RegistryChange, ApproveAmount
  <2>3. allowance \in [User -> Nat] BY <1>1 DEF Registries
  <2> HIDE DEF allowance
  <2>4. /\ new \in Registries /\ new.tickerOwner = r.tickerOwner
        /\ new.tickerIndex = r.tickerIndex /\ new.userToTickers = r.userToTickers
        /\ new.status = r.status /\ new.tokenOwner = r.tokenOwner
    BY <1>1, <2>2, <2>3 DEF Registries
  <2>5. QED BY <1>2, <2>4
<1>4. CASE op = "getTokens"
  <2>1. PICK u \in User, n \in Nat : row = <<c, u, n>> BY <1>4 DEF RegistryRows
  <2> DEFINE poly == [r.poly EXCEPT ![u] = IF @ + n > MaxPoly THEN MaxPoly ELSE @ + n]
  <2>2. new = [r EXCEPT !.poly = poly]
    BY <1>4, <2>1 DEF RegistryChange, GetTokens
  <2>3. poly \in [User -> Nat] BY <1>1, RegistryAssumption DEF Registries
  <2> HIDE DEF poly
  <2>4. /\ new \in Registries /\ new.tickerOwner = r.tickerOwner
        /\ new.tickerIndex = r.tickerIndex /\ new.userToTickers = r.userToTickers
        /\ new.status = r.status /\ new.tokenOwner = r.tokenOwner
    BY <1>1, <2>2, <2>3 DEF Registries
  <2>5. QED BY <1>2, <2>4
<1>5. CASE op = "registerTicker"
  <2>1. PICK t \in Ticker : row = <<c, t>> BY <1>5 DEF RegistryRows
  <2>2. new \in RegisterTicker(r, c, t, time) BY <1>5, <2>1 DEF RegistryChange
  <2>3. QED BY <1>1, <2>2, RegisterKeeps
<1>6. CASE op = "generateNewSecurityToken"
  <2>1. PICK t \in Ticker : row = <<c, t>> BY <1>6 DEF RegistryRows
  <2>2. new \in GenerateSecurityToken(r, c, t, time) BY <1>6, <2>1 DEF RegistryChange
  <2>3. QED BY <1>1, <2>2, GenerateKeeps
<1>7. CASE op = "transferTickerOwnership"
  <2>1. PICK u \in User, t \in Ticker : row = <<c, u, t>> BY <1>7 DEF RegistryRows
  <2>2. new \in TransferTickerOwnership(r, c, u, t) BY <1>7, <2>1 DEF RegistryChange
  <2>3. QED BY <1>1, <2>2, TransferTickerKeeps
<1>8. CASE op = "transferTokenOwnership"
  <2>1. PICK u \in User, t \in Ticker : row = <<c, u, t>> BY <1>8 DEF RegistryRows
  <2>2. new \in TransferTokenOwnership(r, c, u, t) BY <1>8, <2>1 DEF RegistryChange
  <2>3. QED BY <1>1, <2>2, TokenGiven
<1>9. CASE op = "modifyTicker"
  <2>1. PICK u \in User, t \in Ticker, expiry \in Nat, status \in BOOLEAN :
          row = <<c, u, t, expiry, status>>
    BY <1>9 DEF RegistryRows
  <2>2. r.registryOwner = c /\ new \in ModifyTicker(r, u, t, expiry, status)
    BY <1>9, <2>1 DEF RegistryChange, ByOwner
  <2>3. new \in RegistryBooks BY <1>1, <2>2, ModifyTickerKeeps
  <2>4. QED BY <2>2, <2>3, ByOwnerMay
<1>10. CASE op = "removeTicker"
  <2>1. PICK t \in Ticker : row = <<c, t>> BY <1>10 DEF RegistryRows
  <2>2. r.registryOwner = c /\ new \in RemoveTicker(r, t)
    BY <1>10, <2>1 DEF RegistryChange, ByOwner
  <2>3. new \in RegistryBooks BY <2>2, RemoveTickerKeeps
  <2>4. QED BY <2>2, <2>3, ByOwnerMay
<1>11. CASE op = "modifySecurityToken"
  <2>1. PICK u \in User, t \in Ticker, o \in User : row = <<c, u, t, o>>
    BY <1>11 DEF RegistryRows
  <2>2. r.registryOwner = c /\ new \in ModifySecurityToken(r, u, t, o, time)
    BY <1>11, <2>1 DEF RegistryChange, ByOwner
  <2>3. new \in RegistryBooks BY <2>2, ModifySecurityTokenKeeps
  <2>4. QED BY <2>2, <2>3, ByOwnerMay
<1>12. CASE op = "changeExpiryLimit"
  <2>1. PICK n \in Nat : row = <<c, n>> BY <1>12 DEF RegistryRows
  <2>2. new = [r EXCEPT !.expiryLimit = n]
    BY <1>12, <2>1 DEF RegistryChange, ByOwner
  <2>3. /\ new \in Registries /\ new.tickerOwner = r.tickerOwner
        /\ new.tickerIndex = r.tickerIndex /\ new.userToTickers = r.userToTickers
        /\ new.status = r.status /\ new.tokenOwner = r.tokenOwner
    BY <1>1, <2>2 DEF Registries
  <2>4. QED BY <1>2, <2>3
<1>13. ASSUME NEW fee \in [FeeKind -> Nat], new = [r EXCEPT !.fee = fee]
       PROVE  new \in MayBecome(r, time, c)
  <2>1. /\ new \in Registries /\ new.tickerOwner = r.tickerOwner
        /\ new.tickerIndex = r.tickerIndex /\ new.userToTickers = r.userToTickers
        /\ new.status = r.status /\ new.tokenOwner = r.tokenOwner
    BY <1>1, <1>13 DEF Registries
  <2>2. QED BY <1>2, <2>1
<1>14. CASE op = "changeFee"
  <2>1. PICK kind \in FeeKind, n \in Nat : row = <<c, kind, n>> BY <1>14 DEF RegistryRows
  <2> DEFINE fee == [r.fee EXCEPT ![kind] = n]
  <2>2. new = [r EXCEPT !.fee = fee]
    BY <1>14, <2>1 DEF RegistryChange, ByOwner, ChangeFee
  <2>3. fee \in [FeeKind -> Nat] BY <1>1 DEF Registries
  <2> HIDE DEF fee
  <2>4. QED BY <1>13, <2>2, <2>3
<1>15. CASE op = "changeFees"
  <2>1. PICK fee \in [FeeKind -> Nat] : row = <<c, fee>> BY <1>15 DEF RegistryRows
  <2>2. new = [r EXCEPT !.fee = fee]
    BY <1>15, <2>1 DEF RegistryChange, ByOwner
  <2>3. QED BY <1>13, <2>2
<1>16. CASE op = "transferOwnership"
  <2>1. PICK u \in User : row = <<c, u>> BY <1>16 DEF RegistryRows
  <2>2. new = [r EXCEPT !.registryOwner = u]
    BY <1>16, <2>1 DEF RegistryChange, ByOwner, TransferOwnership
  <2>3. /\ new \in Registries /\ new.tickerOwner = r.tickerOwner
        /\ new.tickerIndex = r.tickerIndex /\ new.userToTickers = r.userToTickers
        /\ new.status = r.status /\ new.tokenOwner = r.tokenOwner
    BY <1>1, <2>2 DEF Registries
  <2>4. QED BY <1>2, <2>3
<1>17. QED
  BY <1>3, <1>4, <1>5, <1>6, <1>7, <1>8, <1>9, <1>10, <1>11, <1>12, <1>14, <1>15, <1>16
  DEF RegistryOps

LEMMA RegistryCallKeeps ==
  ASSUME contract \in RegistryBooks, now \in Nat, NEW c \in Client,
         NEW call \in RegistryCalls(c), NEW new \in RegistryCallAfter(call)
  PROVE  new \in MayBecome(contract, now, c)
<1>1. PICK op \in RegistryOps : \E row \in RegistryRows(c, op) :
        call = [op |-> op, rows |-> <<row>>]
  BY DEF RegistryCalls
<1>2. PICK row \in RegistryRows(c, op) : call = [op |-> op, rows |-> <<row>>] BY <1>1
<1> DEFINE Is(g) == g = [k \in 0..1 |->
                           IF k = 0 THEN {contract}
                           ELSE UNION {RegistryChange(s, op, <<row>>[k], now) : s \in g[k - 1]}]
           after == CHOOSE g : Is(g)
           g1 == [k \in 0..1 |-> IF k = 0 THEN {contract}
                                 ELSE RegistryChange(contract, op, row, now)]
<1>3. RegistryCallAfter(call) = after[1]
  BY <1>2 DEF RegistryCallAfter, RegistryAfter, InTurn
<1>4. Is(g1)
  <2>1. g1[0] = {contract} /\ <<row>>[1] = row OBVIOUS
  <2>2. UNION {RegistryChange(s, op, row, now) : s \in g1[0]}
          = RegistryChange(contract, op, row, now)
    BY <2>1
  <2>3. \A k \in 0..1 :
          g1[k] = IF k = 0 THEN {contract}
                  ELSE UNION {RegistryChange(s, op, <<row>>[k], now) : s \in g1[k - 1]}
    <3>1. \A k \in 0..1 : k = 0 \/ k = 1 OBVIOUS
    <3>2. g1[1] = RegistryChange(contract, op, row, now) OBVIOUS
    <3>3. 1 - 1 = 0 OBVIOUS
    <3> HIDE DEF g1
    <3>4. QED BY <2>1, <2>2, <3>1, <3>2, <3>3
  <2>4. g1 = [k \in 0..1 |-> g1[k]] OBVIOUS
  <2> HIDE DEF g1
  <2>5. QED BY <2>3, <2>4
<1>5. Is(after)
  <2> HIDE DEF Is, g1
  <2> QED BY <1>4 DEF after
<1> HIDE DEF after
<1>6. after[0] = {contract} BY <1>5
<1>7. after[1] = RegistryChange(contract, op, row, now)
  <2>1. after[1] = UNION {RegistryChange(s, op, <<row>>[1], now) : s \in after[0]} BY <1>5
  <2>2. <<row>>[1] = row OBVIOUS
  <2>3. QED BY <1>6, <2>1, <2>2
<1>8. QED BY <1>3, <1>7, RegistryRecordKeeps

RegistryShown ==
  [place \in {"ticker", "owner", "deploy"} |->
     CASE place = "ticker" -> Nat
       [] place = "owner" -> Ticker
       [] place = "deploy" -> [ticker : Ticker, fee : Nat]]

RegistryInv ==
  current = "registry" =>
    /\ contract \in RegistryBooks /\ now \in Nat
    /\ Sessions([c \in Client |-> RegistryCalls(c)], RegistryShown)

\* Whose ticker changes hands while it is his: his call, or that of the owner of
\* the registry, is mined.
GivenAway ==
  \A t \in Ticker :
    (Held(contract, t, now) /\ contract'.tickerOwner[t] # contract.tickerOwner[t]) =>
      \E c \in Client : /\ mempool[c] # {} /\ mempool'[c] = {}
                        /\ c \in {contract.tickerOwner[t], contract.registryOwner}

LEMMA OneRegistryCall ==
  ASSUME NEW c, NEW op \in RegistryOps, NEW row \in RegistryRows(c, op)
  PROVE  One(op, row) \in Seq(RegistryCalls(c))
<1>1. [op |-> op, rows |-> <<row>>] \in RegistryCalls(c) BY DEF RegistryCalls
<1>2. QED BY <1>1 DEF One

\* The calls that make sure that a fee can be taken, and one that takes it.
LEMMA FeeFirst ==
  ASSUME NEW c, NEW fee \in Nat, NEW op \in RegistryOps, NEW row \in RegistryRows(c, op)
  PROVE  ApprovePoly(c, fee) \o One(op, row) \in Seq(RegistryCalls(c))
<1>1. One(op, row) \in Seq(RegistryCalls(c)) BY OneRegistryCall
<1>2. ApprovePoly(c, fee) \in Seq(RegistryCalls(c))
  <2>1. "approve" \in RegistryOps BY DEF RegistryOps
  <2>2. <<c, fee>> \in RegistryRows(c, "approve") BY DEF RegistryRows
  <2>3. One("approve", <<c, fee>>) \in Seq(RegistryCalls(c))
    BY <2>1, <2>2, OneRegistryCall
  <2>4. QED BY <2>3 DEF ApprovePoly
<1>3. QED BY <1>1, <1>2

LEMMA RegistryStepKeeps ==
  ASSUME RegistryInv, NEW c \in Client, RegistryStep(c)
  PROVE  RegistryInv' /\ GivenAway
<1> DEFINE calls == [d \in Client |-> RegistryCalls(d)]
           Kept == /\ contract' \in RegistryBooks /\ now' = now
                   /\ Sessions(calls, RegistryShown)'
                   /\ GivenAway
<1>1. /\ current = "registry" /\ contract \in RegistryBooks /\ now \in Nat
      /\ Sessions(calls, RegistryShown) /\ calls[c] = RegistryCalls(c)
      /\ contract \in Registries /\ c \in User
  BY RegistryAssumption DEF RegistryStep, RegistryInv, RegistryBooks
<1>2. SUFFICES Kept
  <2>1. calls' = calls OBVIOUS
  <2>2. QED BY <1>1, <2>1 DEF RegistryInv
<1>3. ASSUME Sessions(calls, RegistryShown)', SameContract PROVE Kept
  BY <1>1, <1>3 DEF SameContract, GivenAway
<1> HIDE DEF calls, Kept
<1>4. ASSUME NEW list \in Seq(RegistryCalls(c)), NEW about, Begin(c, list, about) PROVE Kept
  BY <1>1, <1>3, <1>4, Begins
<1>5. ASSUME NEW op \in RegistryOps, NEW row \in RegistryRows(c, op), NEW about,
             Begin(c, One(op, row), about)
      PROVE  Kept
  BY <1>4, <1>5, OneRegistryCall
<1>6. ASSUME Throw(c) PROVE Kept BY <1>1, <1>3, <1>6, Throws
<1>7. ASSUME NEW place \in DOMAIN RegistryShown, NEW about, about # {},
             about \subseteq RegistryShown[place], Show(c, place, about)
      PROVE  Kept
  <2>1. place \notin {"sending", "waiting"} BY DEF RegistryShown
  <2>2. QED BY <1>1, <1>3, <1>7, <2>1, Shows
<1>8. contract.fee \in [FeeKind -> Nat] BY <1>1 DEF Registries
<1>9. CASE ReadRegistrationFee(c)
  <2> DEFINE about == {contract.fee["registration"]}
  <2>1. contract.fee["registration"] \in Nat BY <1>8 DEF FeeKind
  <2>2. /\ "ticker" \in DOMAIN RegistryShown /\ about # {}
        /\ about \subseteq RegistryShown["ticker"]
    BY <2>1 DEF RegistryShown
  <2>3. Show(c, "ticker", about) BY <1>9 DEF ReadRegistrationFee
  <2> HIDE DEF about
  <2>4. QED BY <1>7, <2>2, <2>3
<1>10. CASE At(c, "ticker") /\ StepTickerRegistration(c)
  <2> DEFINE polyFee == Shown(c)
  <2>1. "ticker" \in DOMAIN RegistryShown BY DEF RegistryShown
  <2>2. Shown(c) \in RegistryShown["ticker"] BY <1>1, <1>10, <2>1, ShownIsShown
  <2>3. polyFee \in Nat BY <2>2 DEF RegistryShown
  <2>4. PICK t \in SelectTicker(c) :
          \/ BeginThen(c, ApprovePoly(c, polyFee) \o One("registerTicker", <<c, t>>),
                       {t}, "owner")
          \/ Throw(c)
          \/ Show(c, "owner", {t})
          \/ ReadRegistrationFee(c)
    BY <1>10 DEF StepTickerRegistration
  <2>5. t \in Ticker
    <3>1. contract.userToTickers[c] \in Seq(Ticker) BY <1>1 DEF Registries
    <3>2. ToSet(contract.userToTickers[c]) \subseteq Ticker BY <3>1 DEF ToSet
    <3>3. QED BY <3>2 DEF SelectTicker, TickersByOwner
  <2> HIDE DEF polyFee
  <2>6. CASE BeginThen(c, ApprovePoly(c, polyFee) \o One("registerTicker", <<c, t>>),
                       {t}, "owner")
    <3> DEFINE list == ApprovePoly(c, polyFee) \o One("registerTicker", <<c, t>>)
    <3>1. "registerTicker" \in RegistryOps BY DEF RegistryOps
    <3>2. <<c, t>> \in RegistryRows(c, "registerTicker") BY <2>5 DEF RegistryRows
    <3>3. list \in Seq(RegistryCalls(c)) BY <2>3, <3>1, <3>2, FeeFirst
    <3>4. BeginThen(c, list, {t}, "owner") BY <2>6
    <3> HIDE DEF list
    <3>5. /\ "owner" \in DOMAIN RegistryShown /\ {t} # {}
          /\ {t} \subseteq RegistryShown["owner"]
      BY <2>5 DEF RegistryShown
    <3>6. QED BY <1>1, <1>3, <3>3, <3>4, <3>5, BeginsThen
  <2>7. CASE Show(c, "owner", {t})
    <3>1. /\ "owner" \in DOMAIN RegistryShown /\ {t} # {}
          /\ {t} \subseteq RegistryShown["owner"]
      BY <2>5 DEF RegistryShown
    <3>2. QED BY <1>7, <2>7, <3>1
  <2>8. QED BY <1>6, <1>9, <2>4, <2>6, <2>7
<1>11. CASE At(c, "owner") /\ (StepTransferTickerOwnership(c) \/ ReadLaunchFee(c))
  <2> DEFINE t == Shown(c)
  <2>1. "owner" \in DOMAIN RegistryShown BY DEF RegistryShown
  <2>2. Shown(c) \in RegistryShown["owner"] BY <1>1, <1>11, <2>1, ShownIsShown
  <2>3. t \in Ticker BY <2>2 DEF RegistryShown
  <2>4. CASE StepTransferTickerOwnership(c)
    <3>1. PICK u \in User : Begin(c, One("transferTickerOwnership", <<c, u, t>>), {})
      BY <2>4 DEF StepTransferTickerOwnership
    <3> HIDE DEF t
    <3>2. "transferTickerOwnership" \in RegistryOps BY DEF RegistryOps
    <3>3. <<c, u, t>> \in RegistryRows(c, "transferTickerOwnership")
      BY <2>3 DEF RegistryRows
    <3>4. QED BY <1>5, <3>1, <3>2, <3>3
  <2>5. CASE ReadLaunchFee(c)
    <3> DEFINE about == {[ticker |-> t, fee |-> contract.fee["launch"]]}
    <3>1. Show(c, "deploy", about) BY <2>5 DEF ReadLaunchFee
    <3> HIDE DEF t
    <3>2. contract.fee["launch"] \in Nat BY <1>8 DEF FeeKind
    <3>3. /\ "deploy" \in DOMAIN RegistryShown /\ about # {}
          /\ about \subseteq RegistryShown["deploy"]
      BY <2>3, <3>2 DEF RegistryShown
    <3> HIDE DEF about
    <3>4. QED BY <1>7, <3>1, <3>3
  <2>6. QED BY <1>11, <2>4, <2>5
<1>12. CASE At(c, "deploy") /\ StepTokenDeploy(c)
  <2> DEFINE s == Shown(c)
  <2>1. "deploy" \in DOMAIN RegistryShown BY DEF RegistryShown
  <2>2. Shown(c) \in RegistryShown["deploy"] BY <1>1, <1>12, <2>1, ShownIsShown
  <2>3. s.ticker \in Ticker /\ s.fee \in Nat BY <2>2 DEF RegistryShown
  <2>4. \/ Begin(c, ApprovePoly(c, s.fee)
                      \o One("generateNewSecurityToken", <<c, s.ticker>>), {})
        \/ Throw(c)
    BY <1>12 DEF StepTokenDeploy
  <2> HIDE DEF s
  <2> DEFINE list == ApprovePoly(c, s.fee)
                       \o One("generateNewSecurityToken", <<c, s.ticker>>)
  <2>5. "generateNewSecurityToken" \in RegistryOps BY DEF RegistryOps
  <2>6. <<c, s.ticker>> \in RegistryRows(c, "generateNewSecurityToken")
    BY <2>3 DEF RegistryRows
  <2>7. list \in Seq(RegistryCalls(c)) BY <2>3, <2>5, <2>6, FeeFirst
  <2>8. Begin(c, list, {}) \/ Throw(c) BY <2>4
  <2> HIDE DEF list
  <2>9. QED BY <1>4, <1>6, <2>7, <2>8
<1>13. CASE SendPoly(c)
  <2>1. PICK u \in User : Begin(c, One("getTokens", <<c, u, MaxPoly>>), {})
    BY <1>13 DEF SendPoly
  <2>2. "getTokens" \in RegistryOps BY DEF RegistryOps
  <2>3. <<c, u, MaxPoly>> \in RegistryRows(c, "getTokens")
    BY RegistryAssumption DEF RegistryRows
  <2>4. QED BY <1>5, <2>1, <2>2, <2>3
<1>14. CASE TransferOwnershipTo(c)
  <2>1. PICK u \in User :
          \/ Begin(c, One("transferOwnership", <<c, u>>), {})
          \/ \E t \in Ticker : Begin(c, One("transferTokenOwnership", <<c, u, t>>), {})
    BY <1>14 DEF TransferOwnershipTo
  <2>2. CASE Begin(c, One("transferOwnership", <<c, u>>), {})
    <3>1. "transferOwnership" \in RegistryOps BY DEF RegistryOps
    <3>2. <<c, u>> \in RegistryRows(c, "transferOwnership") BY DEF RegistryRows
    <3>3. QED BY <1>5, <2>2, <3>1, <3>2
  <2>3. ASSUME NEW t \in Ticker, Begin(c, One("transferTokenOwnership", <<c, u, t>>), {})
        PROVE  Kept
    <3>1. "transferTokenOwnership" \in RegistryOps BY DEF RegistryOps
    <3>2. <<c, u, t>> \in RegistryRows(c, "transferTokenOwnership") BY DEF RegistryRows
    <3>3. QED BY <1>5, <2>3, <3>1, <3>2
  <2>4. QED BY <2>1, <2>2, <2>3
<1>15. "modifyTicker" \in RegistryOps BY DEF RegistryOps
<1>16. ASSUME NEW u \in User, NEW t \in Ticker, NEW expiry \in ExpiryDate,
              NEW status \in BOOLEAN
       PROVE  <<c, u, t, expiry, status>> \in RegistryRows(c, "modifyTicker")
  <2>1. expiry \in Nat BY RegistryAssumption
  <2>2. QED BY <2>1 DEF RegistryRows
<1>17. CASE StepRegisterTickers(c)
  <2>1. PICK tickers \in Migration :
          BeginAll(c, [k \in DOMAIN tickers |->
                         [op |-> "modifyTicker",
                          rows |-> <<<<c, tickers[k][1], tickers[k][2], tickers[k][3],
                                       FALSE>>>>]])
    BY <1>17 DEF StepRegisterTickers
  <2>2. PICK n \in 1..2 : tickers \in [1..n -> User \X Ticker \X ExpiryDate]
    BY DEF Migration
  <2> DEFINE call(k) == [op |-> "modifyTicker",
                         rows |-> <<<<c, tickers[k][1], tickers[k][2], tickers[k][3],
                                      FALSE>>>>]
             list == [k \in 1..n |-> call(k)]
  <2>3. ASSUME NEW k \in 1..n PROVE call(k) \in RegistryCalls(c)
    <3>1. tickers[k] \in User \X Ticker \X ExpiryDate BY <2>2
    <3>2. /\ tickers[k][1] \in User /\ tickers[k][2] \in Ticker
          /\ tickers[k][3] \in ExpiryDate
      BY <3>1
    <3> DEFINE row == <<c, tickers[k][1], tickers[k][2], tickers[k][3], FALSE>>
    <3>3. row \in RegistryRows(c, "modifyTicker") BY <1>16, <3>2
    <3>4. call(k) = [op |-> "modifyTicker", rows |-> <<row>>] OBVIOUS
    <3> HIDE DEF row, call
    <3>5. QED BY <1>15, <3>3, <3>4 DEF RegistryCalls
  <2> HIDE DEF call
  <2>4. list \in [1..n -> RegistryCalls(c)] BY <2>3
  <2>5. BeginAll(c, list) BY <2>1, <2>2 DEF call
  <2> HIDE DEF list
  <2>6. list \in Seq(RegistryCalls(c)) BY <2>4
  <2>7. QED BY <1>1, <1>3, <2>5, <2>6, BeginsAll
<1>18. CASE ModifyOrRemoveTicker(c)
  <2>1. PICK t \in Ticker :
          \/ Begin(c, One("removeTicker", <<c, t>>), {})
          \/ \E u \in User, expiry \in ExpiryDate, status \in BOOLEAN :
               Begin(c, One("modifyTicker", <<c, u, t, expiry, status>>), {})
    BY <1>18 DEF ModifyOrRemoveTicker
  <2>2. CASE Begin(c, One("removeTicker", <<c, t>>), {})
    <3>1. "removeTicker" \in RegistryOps BY DEF RegistryOps
    <3>2. <<c, t>> \in RegistryRows(c, "removeTicker") BY DEF RegistryRows
    <3>3. QED BY <1>5, <2>2, <3>1, <3>2
  <2>3. CASE \E u \in User, expiry \in ExpiryDate, status \in BOOLEAN :
               Begin(c, One("modifyTicker", <<c, u, t, expiry, status>>), {})
    BY <1>5, <1>15, <1>16, <2>3
  <2>4. QED BY <2>1, <2>2, <2>3
<1>19. CASE ModifyTokenOf(c)
  <2>1. PICK t \in Ticker, u \in User, o \in User :
          Begin(c, One("modifySecurityToken", <<c, u, t, o>>), {})
    BY <1>19 DEF ModifyTokenOf
  <2>2. "modifySecurityToken" \in RegistryOps BY DEF RegistryOps
  <2>3. <<c, u, t, o>> \in RegistryRows(c, "modifySecurityToken") BY DEF RegistryRows
  <2>4. QED BY <1>5, <2>1, <2>2, <2>3
<1>20. CASE ChangeExpiryLimit(c)
  <2>1. PICK limit \in ExpiryLimit : Begin(c, One("changeExpiryLimit", <<c, limit>>), {})
    BY <1>20 DEF ChangeExpiryLimit
  <2>2. "changeExpiryLimit" \in RegistryOps BY DEF RegistryOps
  <2>3. <<c, limit>> \in RegistryRows(c, "changeExpiryLimit")
    BY RegistryAssumption DEF RegistryRows
  <2>4. QED BY <1>5, <2>1, <2>2, <2>3
<1>21. CASE ChangeFeesTo(c)
  <2>1. PICK fees \in FeesInPoly :
          \/ \E kind \in FeeKind : Begin(c, One("changeFee", <<c, kind, fees[kind]>>), {})
          \/ Begin(c, One("changeFees", <<c, fees>>), {})
    BY <1>21 DEF ChangeFeesTo
  <2>2. fees \in [FeeKind -> Nat] BY RegistryAssumption
  <2>3. ASSUME NEW kind \in FeeKind, Begin(c, One("changeFee", <<c, kind, fees[kind]>>), {})
        PROVE  Kept
    <3>1. "changeFee" \in RegistryOps BY DEF RegistryOps
    <3>2. <<c, kind, fees[kind]>> \in RegistryRows(c, "changeFee")
      BY <2>2 DEF RegistryRows
    <3>3. QED BY <1>5, <2>3, <3>1, <3>2
  <2>4. CASE Begin(c, One("changeFees", <<c, fees>>), {})
    <3>1. "changeFees" \in RegistryOps BY DEF RegistryOps
    <3>2. <<c, fees>> \in RegistryRows(c, "changeFees") BY <2>2 DEF RegistryRows
    <3>3. QED BY <1>5, <2>4, <3>1, <3>2
  <2>5. QED BY <2>1, <2>3, <2>4
<1>22. CASE Send(c, RegistryCallAfter(ToSend(c)))
  BY <1>1, <1>3, <1>22, Sends
<1>23. ASSUME NEW call \in mempool[c], Mine(c, RegistryCallAfter(call)) PROVE Kept
  <2>1. call \in RegistryCalls(c) BY <1>1 DEF Sessions
  <2>2. /\ Sessions(calls, RegistryShown)' /\ UNCHANGED <<now, current>>
        /\ contract' \in RegistryCallAfter(call) \/ contract' = contract
        /\ mempool' = [mempool EXCEPT ![c] = {}]
    BY <1>1, <1>23, Mines
  <2>3. contract' \in MayBecome(contract, now, c)
    <3>1. CASE contract' \in RegistryCallAfter(call)
      BY <1>1, <2>1, <3>1, RegistryCallKeeps
    <3>2. CASE contract' = contract BY <1>1, <3>2 DEF MayBecome
    <3>3. QED BY <2>2, <3>1, <3>2
  <2>4. mempool[c] # {} /\ mempool'[c] = {} BY <1>1, <2>2 DEF Sessions
  <2>5. GivenAway BY <2>3, <2>4 DEF GivenAway, MayBecome
  <2>6. contract' \in RegistryBooks BY <2>3 DEF MayBecome
  <2>7. QED BY <2>2, <2>5, <2>6 DEF Kept
<1>24. CASE ST20Generator(c)
  BY <1>9, <1>10, <1>11, <1>12, <1>24 DEF ST20Generator
<1>25. CASE StrActions(c)
  BY <1>18, <1>19, <1>20, <1>21, <1>25 DEF StrActions
<1>26. QED BY <1>13, <1>14, <1>17, <1>22, <1>23, <1>24, <1>25 DEF RegistryStep

LEMMA RegistryMovesKeep ==
  ASSUME RegistryInv, RegistryMoves
  PROVE  RegistryInv' /\ GivenAway
<1>1. /\ contract \in RegistryBooks /\ now \in Nat /\ contract \in Registries
      /\ Sessions([c \in Client |-> RegistryCalls(c)], RegistryShown)
      /\ PriceMoves \/ PauseOrUnpause
      /\ UNCHANGED <<now, current, session, mempool>>
  BY DEF RegistryMoves, RegistryInv, RegistryBooks
<1>2. /\ contract' \in Registries /\ contract'.tickerOwner = contract.tickerOwner
      /\ contract'.tickerIndex = contract.tickerIndex
      /\ contract'.userToTickers = contract.userToTickers
      /\ contract'.status = contract.status /\ contract'.tokenOwner = contract.tokenOwner
  <2>1. CASE PriceMoves
    <3>1. PICK fees \in FeesInPoly : contract' = [contract EXCEPT !.fee = fees]
      BY <2>1 DEF PriceMoves
    <3>2. fees \in [FeeKind -> Nat] BY RegistryAssumption
    <3>3. QED BY <1>1, <3>1, <3>2 DEF Registries
  <2>2. CASE PauseOrUnpause BY <1>1, <2>2 DEF PauseOrUnpause, Registries
  <2>3. QED BY <1>1, <2>1, <2>2
<1>3. contract' \in MayBecome(contract, now, NoUser) BY <1>1, <1>2, BooksStay
<1>4. contract' \in RegistryBooks BY <1>3 DEF MayBecome
<1>5. Sessions([c \in Client |-> RegistryCalls(c)], RegistryShown)'
  BY <1>1 DEF Sessions
<1>6. QED BY <1>1, <1>2, <1>4, <1>5 DEF RegistryInv, GivenAway

LEMMA RegistryAtFirst == Init => RegistryInv
<1> SUFFICES ASSUME Init, current = "registry"
             PROVE  /\ contract \in RegistryBooks /\ now \in Nat
                    /\ Sessions([c \in Client |-> RegistryCalls(c)], RegistryShown)
  BY DEF RegistryInv
<1>1. PICK u \in Client, fee \in FirstFees, limit \in ExpiryLimit :
        contract = NewRegistry(u, fee, limit)
  BY DEF Init, ConfigExistingModules, ListsInit, Lists, ApprovalsInit, RestrictionsInit,
     GeneralInit, LimitsInit, RegistryInit, PermissionsInit, WalletInit, ModulesInit,
     IssuanceInit
<1>2. u \in User /\ fee \in [FeeKind -> Nat] /\ limit \in Nat /\ MaxPoly \in Nat
  BY RegistryAssumption
<1> DEFINE arrays == [v \in User |-> << >>]
<1>3. arrays \in [User -> Seq(Ticker)] /\ \A v \in User : Len(arrays[v]) = 0 OBVIOUS
<1>4. contract = [registryOwner |-> u, paused |-> FALSE, expiryLimit |-> limit,
                  fee |-> fee, tickerOwner |-> [t \in Ticker |-> NoUser],
                  expiryDate |-> [t \in Ticker |-> 0],
                  status |-> [t \in Ticker |-> FALSE],
                  tokenOwner |-> [t \in Ticker |-> NoUser],
                  tickerIndex |-> [t \in Ticker |-> 0], userToTickers |-> arrays,
                  poly |-> [v \in User |-> MaxPoly], allowance |-> [v \in User |-> 0]]
  BY <1>1 DEF NewRegistry
<1> HIDE DEF arrays
<1>5. contract \in Registries BY <1>2, <1>3, <1>4 DEF Registries
<1>6. /\ contract.userToTickers = arrays
      /\ \A t \in Ticker : /\ contract.tickerOwner[t] = NoUser /\ ~contract.status[t]
                           /\ contract.tokenOwner[t] = NoUser
  BY <1>4
<1>7. Owned(contract) = {} BY <1>6 DEF Owned
<1>8. Filed(contract, Owned(contract)) BY <1>3, <1>6, <1>7 DEF Filed
<1>9. contract \in RegistryBooks BY <1>5, <1>6, <1>8 DEF RegistryBooks
<1>10. SessionInit BY DEF Init
<1>11. now \in Nat BY <1>10 DEF SessionInit
<1>12. DOMAIN RegistryShown \cap {"menu", "sending", "waiting"} = {} BY DEF RegistryShown
<1>13. Sessions([c \in Client |-> RegistryCalls(c)], RegistryShown)
  BY <1>10, <1>12, SessionsAtFirst
<1>14. QED BY <1>9, <1>11, <1>13

LEMMA RegistryNext ==
  RegistryInv /\ [Next]_sessionVars =>
    RegistryInv' /\ (current = "registry" => GivenAway)
<1> SUFFICES ASSUME RegistryInv, [Next]_sessionVars
             PROVE  RegistryInv' /\ (current = "registry" => GivenAway)
  OBVIOUS
<1>1. CASE current = "registry"
  <2>1. CASE \E c \in Client : RegistryStep(c) BY <2>1, RegistryStepKeeps
  <2>2. CASE RegistryMoves BY <2>2, RegistryMovesKeep
  <2>3. CASE (\E c \in Client : Kill(c)) \/ UNCHANGED sessionVars \/ Tick
    <3>1. Sessions([c \in Client |-> RegistryCalls(c)], RegistryShown)'
          /\ UNCHANGED <<current, contract>>
      BY <1>1, <2>3, CommonSteps DEF RegistryInv
    <3>2. now' \in Nat BY <1>1, ModuleStays DEF RegistryInv
    <3>3. QED BY <1>1, <3>1, <3>2 DEF RegistryInv, GivenAway
  <2>4. QED BY <1>1, <2>1, <2>2, <2>3, StepsOf
<1>2. CASE current # "registry" BY <1>2, ModuleStays DEF RegistryInv
<1>3. QED BY <1>1, <1>2

LEMMA RegistryKept == RegistryInv /\ [Next]_sessionVars => RegistryInv'
BY RegistryNext

\* SecurityTokenRegistry.sol: the array of an account holds its tickers, each at
\* the index kept for it, and a ticker has a token exactly when it is launched,
\* after any registrations, transfers, migrations and removals.
THEOREM TickersAlwaysAgree == Spec => []TickersAgree
<1>1. RegistryInv => TickersAgree
  <2> SUFFICES ASSUME contract \in RegistryBooks, NEW t \in Ticker
               PROVE  /\ \A u \in User :
                           LET tickers == contract.userToTickers[u]
                           IN  IF contract.tickerOwner[t] = u
                                 THEN \A k \in 1..Len(tickers) :
                                        (tickers[k] = t) <=> (k = contract.tickerIndex[t] + 1)
                                 ELSE t \notin ToSet(tickers)
                      /\ contract.status[t] <=> contract.tokenOwner[t] # NoUser
    BY DEF RegistryInv, TickersAgree
  <2>1. Filed(contract, Owned(contract)) /\ contract \in Registries BY DEF RegistryBooks
  <2>2. contract.status[t] <=> contract.tokenOwner[t] # NoUser BY DEF RegistryBooks
  <2>3. ASSUME NEW u \in User
        PROVE  LET tickers == contract.userToTickers[u]
               IN  IF contract.tickerOwner[t] = u
                     THEN \A k \in 1..Len(tickers) :
                            (tickers[k] = t) <=> (k = contract.tickerIndex[t] + 1)
                     ELSE t \notin ToSet(tickers)
    <3> DEFINE tickers == contract.userToTickers[u]
    <3>1. \A k \in 1..Len(tickers) :
            (tickers[k] = t) <=> (/\ t \in Owned(contract) /\ contract.tickerOwner[t] = u
                                  /\ k = contract.tickerIndex[t] + 1)
      BY <2>1 DEF Filed
    <3>2. u # NoUser BY RegistryAssumption
    <3>3. contract.tickerOwner[t] = u => t \in Owned(contract) BY <3>2 DEF Owned
    <3>4. tickers \in Seq(Ticker) BY <2>1 DEF Registries
    <3> HIDE DEF tickers
    <3>5. contract.tickerOwner[t] # u => t \notin ToSet(tickers)
      BY <3>1, <3>4 DEF ToSet
    <3>6. QED BY <3>1, <3>3, <3>5 DEF tickers
  <2>4. QED BY <2>2, <2>3
<1>2. QED BY <1>1, RegistryAtFirst, RegistryKept, PTL DEF Spec

\* Whoever has launched a ticker, or reserved it until now, loses it by his own
\* call or that of the owner of the registry only.
THEOREM ReservationAlwaysKept == Spec => ReservationKept
<1>1. RegistryInv /\ [Next]_sessionVars =>
        [current = "registry" =>
           \A t \in Ticker :
             (Reserved(t) /\ contract'.tickerOwner[t] # contract.tickerOwner[t]) =>
               \E c \in Client :
                 /\ mempool[c] # {} /\ mempool'[c] = {}
                 /\ c \in {contract.tickerOwner[t], contract.registryOwner}]_sessionVars
  BY RegistryNext DEF GivenAway, Held, Reserved
<1>2. QED BY <1>1, RegistryAtFirst, RegistryKept, PTL DEF Spec, ReservationKept
-----------------------------------------------------------------------------
(* The vesting wallet.                                                     *)

LEMMA AllRecords ==
  ASSUME NEW R, NEW rows \in Seq(R), NEW wanted, R \subseteq wanted
  PROVE  RowsIn(rows, wanted) = rows
<1> DEFINE n == Len(rows)
           Is(g) == g = [k \in 0..n |->
                           IF k = 0 THEN << >>
                           ELSE IF rows[k] \in wanted THEN Append(g[k - 1], rows[k])
                           ELSE g[k - 1]]
           some == [k \in 0..n |-> SubSeq(rows, 1, k)]
           kept == CHOOSE g : Is(g)
<1>1. n \in Nat /\ \A k \in 1..n : rows[k] \in R /\ rows[k] \in wanted OBVIOUS
<1>2. RowsIn(rows, wanted) = kept[n] BY DEF RowsIn
<1>3. some[0] = << >> /\ some[n] = rows
  <2>1. SubSeq(rows, 1, 0) = << >> OBVIOUS
  <2>2. SubSeq(rows, 1, n) = rows OBVIOUS
  <2>3. QED BY <1>1, <2>1, <2>2
<1>4. ASSUME NEW k \in 1..n PROVE some[k] = Append(some[k - 1], rows[k])
  <2>1. k - 1 \in 0..n /\ k \in 0..n BY <1>1
  <2>2. SubSeq(rows, 1, k) = Append(SubSeq(rows, 1, k - 1), rows[k])
    <3> DEFINE s == SubSeq(rows, 1, k)
               t == SubSeq(rows, 1, k - 1)
    <3>1. /\ s \in Seq(R) /\ Len(s) = k
          /\ \A j \in 1..k : s[j] = rows[j]
      BY <1>1
    <3>2. /\ t \in Seq(R) /\ Len(t) = k - 1
          /\ \A j \in 1..k - 1 : t[j] = rows[j]
      BY <1>1
    <3> HIDE DEF s, t
    <3>3. /\ Append(t, rows[k]) \in Seq(R) /\ Len(Append(t, rows[k])) = k
          /\ \A j \in 1..k : Append(t, rows[k])[j] = rows[j]
      BY <1>1, <3>2
    <3>4. s = Append(t, rows[k]) BY <3>1, <3>3
    <3>5. QED BY <3>4 DEF s, t
  <2>3. QED BY <2>1, <2>2
<1> HIDE DEF n
<1>5. Is(some)
  <2>1. \A k \in 0..n : k # 0 => k \in 1..n BY <1>1
  <2>2. some = [k \in 0..n |-> some[k]] OBVIOUS
  <2> HIDE DEF some
  <2>3. QED BY <1>1, <1>3, <1>4, <2>1, <2>2
<1>6. Is(kept)
  <2> HIDE DEF Is
  <2> QED BY <1>5 DEF kept
<1> HIDE DEF kept
<1> DEFINE same == [k \in 0..n |-> kept[k] = some[k]]
<1>7. \A k \in 0..n : same[k] \in {TRUE}
  <2>1. same[0] \in {TRUE}
    <3>1. 0 \in 0..n BY <1>1
    <3>2. kept[0] = << >> BY <1>6, <3>1
    <3> HIDE DEF some
    <3>3. QED BY <1>3, <3>1, <3>2
  <2> HIDE DEF some
  <2>2. ASSUME NEW k \in 1..n, same[k - 1] \in {TRUE} PROVE same[k] \in {TRUE}
    <3>1. k \in 0..n /\ k # 0 /\ k - 1 \in 0..n BY <1>1
    <3>2. kept[k - 1] = some[k - 1] BY <2>2, <3>1
    <3>3. kept[k] = Append(kept[k - 1], rows[k]) BY <1>1, <1>6, <3>1
    <3>4. kept[k] = some[k] BY <1>4, <3>2, <3>3
    <3>5. QED BY <3>1, <3>4
  <2> HIDE DEF same
  <2>3. QED BY <1>1, <2>1, <2>2, LoopKeeps
<1> HIDE DEF some
<1>8. n \in 0..n BY <1>1
<1>9. same[n] = (kept[n] = some[n]) BY <1>8
<1>10. same[n] \in {TRUE} BY <1>7, <1>8
<1> HIDE DEF same
<1>11. QED BY <1>2, <1>3, <1>9, <1>10

\* What the program relies on: names in arrays, and where they are.
IsNames(list) == list \in Seq(TemplateName)
IsSchedules(list) ==
  \E S : list \in Seq(S) /\ \A s \in S : "templateName" \in DOMAIN s

LEMMA EmptyIsSchedules == IsSchedules(<< >>)
<1> DEFINE S == {}
<1>1. << >> \in Seq(S) /\ \A s \in S : "templateName" \in DOMAIN s OBVIOUS
<1> HIDE DEF S
<1>2. QED BY <1>1 DEF IsSchedules

WalletLists(w) ==
  /\ {"schedules", "userToTemplates", "userToTemplateIndex"} \subseteq DOMAIN w
  /\ DOMAIN w.schedules = Beneficiary /\ DOMAIN w.userToTemplates = Beneficiary
  /\ w.userToTemplateIndex \in [Beneficiary -> [TemplateName -> Nat]]
  /\ \A b \in Beneficiary :
       IsSchedules(w.schedules[b]) /\ IsNames(w.userToTemplates[b])

WalletBook(x) ==
  /\ {"wallet", "added"} \subseteq DOMAIN x
  /\ WalletLists(x.wallet)
  /\ \A a \in x.added : a.name \in TemplateName

WalletOps ==
  {"approve", "depositTokens", "sendToTreasury", "addTemplate", "removeTemplate",
   "addSchedule", "addScheduleFromTemplate", "modifySchedule", "revokeSchedule",
   "revokeAllSchedules", "pushAvailableTokens", "pullAvailableTokens"}

RightRow(op, row) ==
  /\ op = "addTemplate" => row[2] \in TemplateName
  /\ op \in {"addSchedule", "addScheduleFromTemplate"} => row[3] \in TemplateName
  /\ op = "revokeSchedule" => row[2] \in Beneficiary /\ row[3] \in TemplateName
  /\ op = "revokeAllSchedules" => row[2] \in Beneficiary

-----------------------------------------------------------------------------
(* What an operation does to these arrays.                                 *)

SameLists(v, w) ==
  /\ DOMAIN v = DOMAIN w /\ v.schedules = w.schedules
  /\ v.userToTemplates = w.userToTemplates
  /\ v.userToTemplateIndex = w.userToTemplateIndex

LEMMA SameListsKeep ==
  ASSUME NEW w, WalletLists(w), NEW v, SameLists(v, w)
  PROVE  WalletLists(v)
BY DEF WalletLists, SameLists

\* Deposits, withdrawals and templates.
LEMMA QuietOperations ==
  ASSUME NEW w, WalletLists(w), NEW a, NEW t, NEW p,
         NEW v, \/ v \in Deposit(w, a) \/ v \in DepositTokens(w, a)
                \/ v \in SendToTreasury(w, a)
                \/ v \in AddTemplate(w, t, p) \/ v \in RemoveTemplate(w, t)
  PROVE  SameLists(v, w)
<1>1. {"schedules", "userToTemplates", "userToTemplateIndex"} \subseteq DOMAIN w
  BY DEF WalletLists
<1>2. ASSUME v \in Deposit(w, a) PROVE SameLists(v, w)
  BY <1>1, <1>2 DEF Deposit, SameLists
<1>3. CASE v \in DepositTokens(w, a)
  <2>1. v \in Deposit(w, a) BY <1>3 DEF DepositTokens
  <2>2. QED BY <1>2, <2>1
<1>4. CASE v \in SendToTreasury(w, a) BY <1>1, <1>4 DEF SendToTreasury, SameLists
<1>5. CASE v \in AddTemplate(w, t, p) BY <1>1, <1>5 DEF AddTemplate, SameLists
<1>6. CASE v \in RemoveTemplate(w, t) BY <1>1, <1>6 DEF RemoveTemplate, SameLists
<1>7. QED BY <1>2, <1>3, <1>4, <1>5, <1>6

\* Other schedules of one beneficiary.
LEMMA OtherSchedules ==
  ASSUME NEW w, WalletLists(w), NEW b, NEW list, b \in Beneficiary => IsSchedules(list),
         NEW v, DOMAIN v = DOMAIN w, v.schedules = [w.schedules EXCEPT ![b] = list],
         v.userToTemplates = w.userToTemplates,
         v.userToTemplateIndex = w.userToTemplateIndex
  PROVE  WalletLists(v)
BY DEF WalletLists

LEMMA SendTokensLists ==
  ASSUME NEW w, WalletLists(w), NEW b, NEW time, NEW v \in SendTokens(w, b, time)
  PROVE  WalletLists(v)
<1> DEFINE old == w.schedules[b]
           list == [i \in DOMAIN old |-> Claimed(w, old[i], time)]
<1>1. /\ DOMAIN v = DOMAIN w /\ v.schedules = [w.schedules EXCEPT ![b] = list]
      /\ v.userToTemplates = w.userToTemplates
      /\ v.userToTemplateIndex = w.userToTemplateIndex
  BY DEF SendTokens, WalletLists
<1>2. ASSUME b \in Beneficiary PROVE IsSchedules(list)
  <2>1. PICK S : old \in Seq(S) /\ \A s \in S : "templateName" \in DOMAIN s
    BY <1>2 DEF WalletLists, IsSchedules
  <2> DEFINE n == Len(old)
             new == {Claimed(w, s, time) : s \in S}
  <2>2. n \in Nat /\ DOMAIN old = 1..n /\ \A i \in 1..n : old[i] \in S BY <2>1
  <2>3. \A s \in new : "templateName" \in DOMAIN s BY <2>1 DEF Claimed
  <2>4. list \in [1..n -> new] BY <2>2
  <2> HIDE DEF list, new, n
  <2>5. list \in Seq(new) BY <2>2, <2>4
  <2>6. QED BY <2>3, <2>5 DEF IsSchedules
<1> HIDE DEF list
<1>3. QED BY <1>1, <1>2, OtherSchedules

LEMMA ModifyLists ==
  ASSUME NEW w, WalletLists(w), NEW b, NEW t, NEW start, NEW time,
         NEW v \in ModifySchedule(w, b, t, start, time)
  PROVE  WalletLists(v)
<1> DEFINE old == w.schedules[b]
           i == w.userToTemplateIndex[b][t] + 1
           list == [old EXCEPT ![i] = [@ EXCEPT !.startTime = start]]
<1>1. /\ DOMAIN v = DOMAIN w /\ v.schedules = [w.schedules EXCEPT ![b] = list]
      /\ v.userToTemplates = w.userToTemplates
      /\ v.userToTemplateIndex = w.userToTemplateIndex
  BY DEF ModifySchedule, WalletLists
<1>2. ASSUME b \in Beneficiary PROVE IsSchedules(list)
  <2>1. PICK S : old \in Seq(S) /\ \A s \in S : "templateName" \in DOMAIN s
    BY <1>2 DEF WalletLists, IsSchedules
  <2> DEFINE n == Len(old)
             new == S \cup {[s EXCEPT !.startTime = start] : s \in S}
  <2> HIDE DEF i
  <2>2. n \in Nat /\ old = [j \in 1..n |-> old[j]] /\ \A j \in 1..n : old[j] \in S
    BY <2>1
  <2>3. \A s \in new : "templateName" \in DOMAIN s BY <2>1
  <2>4. list \in [1..n -> new] BY <2>2
  <2> HIDE DEF list, new, n
  <2>5. list \in Seq(new) BY <2>2, <2>4
  <2>6. QED BY <2>3, <2>5 DEF IsSchedules
<1> HIDE DEF list
<1>3. QED BY <1>1, <1>2, OtherSchedules

\* All three of one beneficiary.
LEMMA OtherLists ==
  ASSUME NEW w, WalletLists(w), NEW b \in Beneficiary,
         NEW list, IsSchedules(list), NEW names, IsNames(names),
         NEW index, index \in [TemplateName -> Nat],
         NEW v, DOMAIN v = DOMAIN w, v.schedules = [w.schedules EXCEPT ![b] = list],
         v.userToTemplates = [w.userToTemplates EXCEPT ![b] = names],
         v.userToTemplateIndex = [w.userToTemplateIndex EXCEPT ![b] = index]
  PROVE  WalletLists(v)
BY DEF WalletLists

LEMMA NothingElse ==
  ASSUME NEW w, WalletLists(w), NEW b, b \notin Beneficiary,
         NEW list, NEW names, NEW index,
         NEW v, DOMAIN v = DOMAIN w, v.schedules = [w.schedules EXCEPT ![b] = list],
         v.userToTemplates = [w.userToTemplates EXCEPT ![b] = names],
         v.userToTemplateIndex = [w.userToTemplateIndex EXCEPT ![b] = index]
  PROVE  WalletLists(v)
BY DEF WalletLists

LEMMA ScheduledLists ==
  ASSUME NEW w, WalletLists(w), NEW b, NEW t \in TemplateName, NEW start
  PROVE  WalletLists(Scheduled(w, b, t, start))
<1> DEFINE s == [templateName |-> t, claimedTokens |-> 0, startTime |-> start]
           v == Scheduled(w, b, t, start)
           list == Append(w.schedules[b], s)
           names == Append(w.userToTemplates[b], t)
           index == [w.userToTemplateIndex[b] EXCEPT ![t] = Len(w.schedules[b])]
<1>1. /\ DOMAIN v = DOMAIN w /\ v.schedules = [w.schedules EXCEPT ![b] = list]
      /\ v.userToTemplates = [w.userToTemplates EXCEPT ![b] = names]
      /\ v.userToTemplateIndex = [w.userToTemplateIndex EXCEPT ![b] = index]
  BY DEF Scheduled, WalletLists
<1>2. ASSUME b \in Beneficiary
      PROVE  IsSchedules(list) /\ IsNames(names) /\ index \in [TemplateName -> Nat]
  <2>1. PICK S : w.schedules[b] \in Seq(S) /\ \A x \in S : "templateName" \in DOMAIN x
    BY <1>2 DEF WalletLists, IsSchedules
  <2>2. list \in Seq(S \cup {s}) BY <2>1
  <2>3. \A x \in S \cup {s} : "templateName" \in DOMAIN x BY <2>1
  <2>4. IsSchedules(list) BY <2>2, <2>3 DEF IsSchedules
  <2>5. IsNames(names) BY <1>2 DEF WalletLists, IsNames
  <2>6. Len(w.schedules[b]) \in Nat BY <2>1
  <2>7. index \in [TemplateName -> Nat] BY <1>2, <2>6 DEF WalletLists
  <2>8. QED BY <2>4, <2>5, <2>7
<1> HIDE DEF v, list, names, index
<1>3. CASE b \in Beneficiary
  <2>1. WalletLists(v) BY <1>1, <1>2, <1>3, OtherLists
  <2>2. QED BY <2>1 DEF v
<1>4. CASE b \notin Beneficiary
  <2>1. WalletLists(v) BY <1>1, <1>4, NothingElse
  <2>2. QED BY <2>1 DEF v
<1>5. QED BY <1>3, <1>4

LEMMA FromTemplateLists ==
  ASSUME NEW w, WalletLists(w), NEW b, NEW t \in TemplateName, NEW start, NEW time,
         NEW v \in AddScheduleFromTemplate(w, b, t, start, time)
  PROVE  WalletLists(v)
<1>1. PICK u \in Deposit(w, Missing(w, t)) : v = Scheduled(u, b, t, start)
  BY DEF AddScheduleFromTemplate
<1>2. WalletLists(u) BY <1>1, QuietOperations, SameListsKeep
<1>3. QED BY <1>1, <1>2, ScheduledLists

LEMMA AddScheduleLists ==
  ASSUME NEW w, WalletLists(w), NEW b, NEW t \in TemplateName, NEW p, NEW start,
         NEW time, NEW v \in AddSchedule(w, b, t, p, start, time)
  PROVE  WalletLists(v)
<1>1. PICK u \in AddTemplate(w, t, p) : v \in AddScheduleFromTemplate(u, b, t, start, time)
  BY DEF AddSchedule
<1>2. WalletLists(u) BY <1>1, QuietOperations, SameListsKeep
<1>3. QED BY <1>1, <1>2, FromTemplateLists

\* Nobody but b loses a schedule, and b that of t.
OnlyLost(w, v, b, t) ==
  \A x \in Beneficiary, y \in TemplateName :
    (HasSchedule(w, x, y) /\ ~HasSchedule(v, x, y)) => x = b /\ y = t

LEMMA WithoutOne ==
  ASSUME NEW S, NEW list \in Seq(S), NEW p \in 0..Len(list) - 1
  PROVE  /\ Without(list, p) \in Seq(S) /\ Len(Without(list, p)) = Len(list) - 1
         /\ \A j \in 1..Len(list) - 1 :
              Without(list, p)[j] = IF j = p + 1 THEN list[Len(list)] ELSE list[j]
<1> DEFINE n == Len(list)
           moved == [list EXCEPT ![p + 1] = list[n]]
<1>1. n \in Nat /\ p \in Nat /\ p + 1 \in 1..n /\ n \in 1..n OBVIOUS
<1>2. moved \in Seq(S) /\ Len(moved) = n BY <1>1
<1>3. \A j \in 1..n : moved[j] = IF j = p + 1 THEN list[n] ELSE list[j] BY <1>1
<1>4. Without(list, p) = SubSeq(moved, 1, n - 1) BY DEF Without
<1> HIDE DEF moved
<1>5. /\ SubSeq(moved, 1, n - 1) \in Seq(S) /\ Len(SubSeq(moved, 1, n - 1)) = n - 1
      /\ \A j \in 1..n - 1 : SubSeq(moved, 1, n - 1)[j] = moved[j]
  BY <1>1, <1>2
<1>6. \A j \in 1..n - 1 : j \in 1..n BY <1>1
<1> HIDE DEF n
<1>7. QED BY <1>3, <1>4, <1>5, <1>6 DEF n

LEMMA WithoutAny ==
  ASSUME NEW S, NEW list \in Seq(S), NEW p \in Nat
  PROVE  Without(list, p) \in Seq(S)
<1> DEFINE n == Len(list)
           moved == [list EXCEPT ![p + 1] = list[n]]
<1>1. n \in Nat /\ (n # 0 => list[n] \in S) /\ list \in [1..n -> S] OBVIOUS
<1>2. moved \in [1..n -> S]
  <2> HIDE DEF n
  <2>1. \A j \in 1..n : list[j] \in S /\ n # 0 BY <1>1
  <2>2. \A j \in 1..n : moved[j] = IF j = p + 1 THEN list[n] ELSE list[j] BY <1>1
  <2>3. moved = [j \in 1..n |-> moved[j]] BY <1>1
  <2> HIDE DEF moved
  <2>4. QED BY <1>1, <2>1, <2>2, <2>3
<1> HIDE DEF moved
<1>3. moved \in Seq(S) /\ Len(moved) = n BY <1>1, <1>2
<1>4. SubSeq(moved, 1, n - 1) \in Seq(S)
  <2>1. n - 1 <= Len(moved) BY <1>1, <1>3
  <2>2. \A i \in 1..n - 1 : i \in 1..Len(moved) BY <1>1, <1>3
  <2>3. QED BY <1>1, <1>3, <2>1, <2>2
<1>5. QED BY <1>4 DEF Without, moved

LEMMA DeleteUserLists ==
  ASSUME NEW w, WalletLists(w), NEW b \in Beneficiary, NEW t \in TemplateName,
         HasSchedule(w, b, t)
  PROVE  /\ WalletLists(DeleteUserToTemplates(w, b, t))
         /\ OnlyLost(w, DeleteUserToTemplates(w, b, t), b, t)
<1> DEFINE v == DeleteUserToTemplates(w, b, t)
           old == w.schedules[b]
           p == w.userToTemplateIndex[b][t]
           n == Len(old)
           last == Last(old).templateName
           list == Without(old, p)
           names == Without(w.userToTemplates[b], p)
           index == [w.userToTemplateIndex[b] EXCEPT ![last] = p, ![t] = 0]
<1>1. /\ DOMAIN v = DOMAIN w /\ v.schedules = [w.schedules EXCEPT ![b] = list]
      /\ v.userToTemplates = [w.userToTemplates EXCEPT ![b] = names]
      /\ v.userToTemplateIndex = [w.userToTemplateIndex EXCEPT ![b] = index]
  BY DEF DeleteUserToTemplates, WalletLists
<1>2. p \in Nat /\ w.userToTemplateIndex[b] \in [TemplateName -> Nat] BY DEF WalletLists
<1>3. PICK S : old \in Seq(S) /\ \A s \in S : "templateName" \in DOMAIN s
  BY DEF WalletLists, IsSchedules
<1>4. n \in Nat /\ p < n /\ old[p + 1].templateName = t BY <1>3 DEF HasSchedule
<1>5. p \in 0..n - 1 BY <1>2, <1>4
<1>6. /\ list \in Seq(S) /\ Len(list) = n - 1
      /\ \A j \in 1..n - 1 : list[j] = IF j = p + 1 THEN old[n] ELSE old[j]
  BY <1>3, <1>5, WithoutOne
<1>7. last = old[n].templateName BY DEF Last
<1> HIDE DEF v, list, last
<1>8. WalletLists(v)
  <2>1. IsSchedules(list) BY <1>3, <1>6 DEF IsSchedules
  <2>2. IsNames(names)
    <3>1. w.userToTemplates[b] \in Seq(TemplateName) BY DEF WalletLists, IsNames
    <3>2. QED BY <1>2, <3>1, WithoutAny DEF IsNames
  <2>3. index \in [TemplateName -> Nat] BY <1>2
  <2> HIDE DEF names, index
  <2>4. QED BY <1>1, <2>1, <2>2, <2>3, OtherLists
<1>9. ASSUME NEW x \in Beneficiary, NEW y \in TemplateName, HasSchedule(w, x, y),
             x # b \/ y # t
      PROVE  HasSchedule(v, x, y)
  <2>1. CASE x # b
    <3>1. v.schedules[x] = w.schedules[x]
          /\ v.userToTemplateIndex[x] = w.userToTemplateIndex[x]
      BY <1>1, <2>1 DEF WalletLists
    <3>2. QED BY <1>9, <3>1 DEF HasSchedule
  <2>2. CASE x = b /\ y # t
    <3> DEFINE q == w.userToTemplateIndex[b][y]
    <3>1. q \in Nat /\ q < n /\ old[q + 1].templateName = y
      BY <1>2, <1>9, <2>2 DEF HasSchedule
    <3>2. v.schedules[b] = list /\ v.userToTemplateIndex[b] = index
      BY <1>1 DEF WalletLists
    <3>3. CASE y = last
      <4>1. index[y] = p BY <1>2, <2>2, <3>3
      <4>2. p + 1 # n BY <1>4, <1>7, <2>2, <3>3
      <4> HIDE DEF n, p, old, index
      <4>3. p < n - 1 /\ p + 1 \in 1..n - 1 BY <1>2, <1>4, <4>2
      <4>4. list[p + 1] = old[n] BY <1>6, <4>3
      <4>5. QED BY <1>6, <1>7, <2>2, <3>2, <3>3, <4>1, <4>3, <4>4 DEF HasSchedule
    <3>4. CASE y # last
      <4>1. index[y] = q BY <1>2, <2>2, <3>4
      <4>2. q + 1 # n /\ q # p BY <1>4, <1>7, <2>2, <3>1, <3>4
      <4> HIDE DEF n, p, q, old, index
      <4>3. q < n - 1 /\ q + 1 \in 1..n - 1 /\ q + 1 # p + 1
        BY <1>2, <1>4, <3>1, <4>2
      <4>4. list[q + 1] = old[q + 1] BY <1>6, <4>3
      <4>5. QED BY <1>6, <2>2, <3>1, <3>2, <4>1, <4>3, <4>4 DEF HasSchedule
    <3>5. QED BY <3>3, <3>4
  <2>3. QED BY <1>9, <2>1, <2>2
<1>10. QED BY <1>8, <1>9 DEF OnlyLost, v

LEMMA DeleteTemplateLists ==
  ASSUME NEW w, WalletLists(w), NEW b, NEW t
  PROVE  SameLists(DeleteTemplateToUsers(w, b, t), w)
BY DEF DeleteTemplateToUsers, SameLists, WalletLists

LEMMA SameSchedules ==
  ASSUME NEW v, NEW w, SameLists(v, w), NEW x, NEW y
  PROVE  HasSchedule(v, x, y) <=> HasSchedule(w, x, y)
BY DEF SameLists, HasSchedule

LEMMA RevokeLists ==
  ASSUME NEW w, WalletLists(w), NEW b \in Beneficiary, NEW t \in TemplateName, NEW time,
         NEW v \in RevokeSchedule(w, b, t, time)
  PROVE  WalletLists(v) /\ OnlyLost(w, v, b, t)
<1> DEFINE s == ScheduleOf(w, b, t)
           amount == GetAvailableTokens(w, s, time)
           paid == [w EXCEPT !.balance = @ - amount,
                        !.received[b] = @ + amount,
                        !.unassignedTokens =
                          @ + NumberOfTokens(w, s) - GetReleasedTokens(w, s, time)]
           u == DeleteUserToTemplates(paid, b, t)
<1>1. SameLists(paid, w) BY DEF SameLists, WalletLists
<1>2. HasSchedule(w, b, t) /\ v = DeleteTemplateToUsers(u, b, t) BY DEF RevokeSchedule
<1> HIDE DEF paid
<1>3. WalletLists(paid) /\ HasSchedule(paid, b, t)
  BY <1>1, <1>2, SameListsKeep, SameSchedules
<1>4. WalletLists(u) /\ OnlyLost(paid, u, b, t) BY <1>3, DeleteUserLists
<1> HIDE DEF u
<1>5. SameLists(v, u) BY <1>2, <1>4, DeleteTemplateLists
<1>6. WalletLists(v) BY <1>4, <1>5, SameListsKeep
<1>7. \A x, y : /\ HasSchedule(paid, x, y) <=> HasSchedule(w, x, y)
                /\ HasSchedule(v, x, y) <=> HasSchedule(u, x, y)
  BY <1>1, <1>5, SameSchedules
<1>8. QED BY <1>4, <1>6, <1>7 DEF OnlyLost

\* All schedules of one, template by template.
LEMMA DropLists ==
  ASSUME NEW w, WalletLists(w), NEW b \in Beneficiary
  PROVE  WalletLists(DropSchedules(w, b))
<1> DEFINE names == [i \in DOMAIN w.schedules[b] |-> w.schedules[b][i].templateName]
           index == [t \in TemplateName |->
                       IF t \in ToSet(names) THEN 0 ELSE w.userToTemplateIndex[b][t]]
           dropped == [w EXCEPT
                    !.unassignedTokens = @ + UnclaimedOf(w, b),
                    !.schedules[b] = << >>,
                    !.userToTemplates[b] = << >>,
                    !.userToTemplateIndex[b] =
                      [t \in TemplateName |-> IF t \in ToSet(names) THEN 0 ELSE @[t]]]
           n == Len(names)
           Is(g, m) == g = [k \in 0..m |-> IF k = 0 THEN dropped
                              ELSE DeleteTemplateToUsers(g[k - 1], b, names[k])]
           left == CHOOSE g : Is(g, n)
<1>1. DropSchedules(w, b) = left[n] BY DEF DropSchedules
<1>2. n \in Nat
  <2>1. PICK S : w.schedules[b] \in Seq(S) BY DEF WalletLists, IsSchedules
  <2> DEFINE m == Len(w.schedules[b])
             T == {s.templateName : s \in S}
  <2>2. m \in Nat /\ names \in [1..m -> T] BY <2>1
  <2> HIDE DEF names, m, T
  <2>3. names \in Seq(T) BY <2>2
  <2>4. QED BY <2>3
<1>3. WalletLists(dropped)
  <2>1. w.userToTemplateIndex[b] \in [TemplateName -> Nat] BY DEF WalletLists
  <2>2. index \in [TemplateName -> Nat] BY <2>1
  <2>3. IsSchedules(<< >>) /\ IsNames(<< >>)
    <3>1. IsSchedules(<< >>) BY EmptyIsSchedules
    <3>2. << >> \in Seq(TemplateName) OBVIOUS
    <3>3. QED BY <3>1, <3>2 DEF IsNames
  <2>4. /\ DOMAIN dropped = DOMAIN w
        /\ dropped.schedules = [w.schedules EXCEPT ![b] = << >>]
        /\ dropped.userToTemplates = [w.userToTemplates EXCEPT ![b] = << >>]
        /\ dropped.userToTemplateIndex = [w.userToTemplateIndex EXCEPT ![b] = index]
    BY DEF WalletLists
  <2> HIDE DEF dropped, index
  <2>5. QED BY <2>2, <2>3, <2>4, OtherLists
<1> HIDE DEF dropped, n, names
<1>4. \E g : Is(g, n)
  <2> DEFINE Wrong == {m \in 0..n : \A g : ~Is(g, m)}
  <2> SUFFICES ASSUME Wrong # {} PROVE FALSE
    BY <1>2
  <2>1. PICK m \in Wrong : \A j \in Wrong : ~(<<j, m>> \in OpToRel(<, Nat))
    <3>1. Wrong \subseteq Nat BY <1>2
    <3> HIDE DEF Wrong
    <3>2. QED BY <3>1, WFMin, NatLessThanWellFounded
  <2>2. m # 0
    <3> SUFFICES ASSUME m = 0 PROVE FALSE
      OBVIOUS
    <3> DEFINE g == [k \in 0..0 |-> dropped]
    <3>1. Is(g, 0) OBVIOUS
    <3>2. QED BY <2>1, <3>1
  <2>3. m \in 1..n /\ m - 1 \in 0..n
    <3>1. m \in 0..n OBVIOUS
    <3> HIDE DEF Wrong
    <3>2. QED BY <1>2, <2>2, <3>1
  <2>4. <<m - 1, m>> \in OpToRel(<, Nat) BY <1>2, <2>3 DEF OpToRel
  <2>5. m - 1 \notin Wrong BY <2>1, <2>4
  <2>6. PICK g : Is(g, m - 1) BY <2>3, <2>5
  <2> DEFINE new == DeleteTemplateToUsers(g[m - 1], b, names[m])
             h == [k \in 0..m |-> IF k = m THEN new ELSE g[k]]
  <2>7. h[m] = new /\ \A k \in 0..m - 1 : h[k] = g[k] BY <1>2, <2>3
  <2>8. ASSUME NEW k \in 0..m
        PROVE  h[k] = IF k = 0 THEN dropped
                      ELSE DeleteTemplateToUsers(h[k - 1], b, names[k])
    <3> HIDE DEF h
    <3>1. CASE k = m BY <1>2, <2>3, <2>7, <3>1
    <3>2. CASE k # m
      <4>1. k \in 0..m - 1 /\ (k # 0 => k - 1 \in 0..m - 1) BY <1>2, <2>3, <3>2
      <4>2. g[k] = IF k = 0 THEN dropped
                   ELSE DeleteTemplateToUsers(g[k - 1], b, names[k])
        BY <2>6, <4>1
      <4>3. QED BY <2>7, <4>1, <4>2
    <3>3. QED BY <3>1, <3>2
  <2>9. Is(h, m)
    <3>1. h = [k \in 0..m |-> h[k]] OBVIOUS
    <3> HIDE DEF h
    <3>2. QED BY <2>8, <3>1
  <2>10. QED BY <2>1, <2>9
<1>5. Is(left, n)
  <2> HIDE DEF Is
  <2> QED BY <1>4 DEF left
<1> HIDE DEF left
<1> DEFINE good == [k \in 0..n |-> WalletLists(left[k])]
<1>6. \A k \in 0..n : good[k] \in {TRUE}
  <2>1. good[0] \in {TRUE} BY <1>2, <1>3, <1>5
  <2>2. ASSUME NEW k \in 1..n, good[k - 1] \in {TRUE} PROVE good[k] \in {TRUE}
    <3>1. k \in 0..n /\ k # 0 /\ k - 1 \in 0..n BY <1>2
    <3>2. WalletLists(left[k - 1]) BY <2>2, <3>1
    <3>3. left[k] = DeleteTemplateToUsers(left[k - 1], b, names[k]) BY <1>5, <3>1
    <3>4. WalletLists(left[k]) BY <3>2, <3>3, DeleteTemplateLists, SameListsKeep
    <3>5. QED BY <3>1, <3>4
  <2> HIDE DEF good
  <2>3. QED BY <1>2, <2>1, <2>2, LoopKeeps
<1>7. n \in 0..n BY <1>2
<1>8. good[n] = WalletLists(left[n]) BY <1>7
<1>9. good[n] \in {TRUE} BY <1>6, <1>7
<1> HIDE DEF good
<1>10. QED BY <1>1, <1>8, <1>9

-----------------------------------------------------------------------------
(* What a call does.                                                       *)

LEMMA WalletRecordKeeps ==
  ASSUME NEW x, WalletBook(x), NEW op \in WalletOps, NEW row, RightRow(op, row),
         NEW y \in OneAfter(x, op, row)
  PROVE  /\ WalletBook(y)
         /\ op = "revokeSchedule" => OnlyLost(x.wallet, y.wallet, row[2], row[3])
<1> DEFINE w == x.wallet
           b == row[2]
           t == row[3]
<1>0. /\ {"wallet", "added"} \subseteq DOMAIN x /\ WalletLists(w)
      /\ \A a \in x.added : a.name \in TemplateName
  BY DEF WalletBook
<1>1. ASSUME NEW z, DOMAIN z = DOMAIN x, WalletLists(z.wallet), z.added = x.added
      PROVE  WalletBook(z)
  BY <1>0, <1>1 DEF WalletBook
<1>2. ASSUME NEW wallets, \A v \in wallets : WalletLists(v), NEW z \in With(x, wallets)
      PROVE  WalletBook(z) /\ z.wallet \in wallets
  <2>1. PICK v \in wallets : z = [x EXCEPT !.wallet = v] BY <1>2 DEF With
  <2>2. DOMAIN z = DOMAIN x /\ z.wallet = v /\ z.added = x.added BY <1>0, <2>1
  <2>3. QED BY <1>1, <1>2, <2>2
<1>3. ASSUME NEW sender, NEW wallets, \A v \in wallets : WalletLists(v),
             NEW z \in Taking(x, sender, wallets)
      PROVE  WalletBook(z)
  <2>1. PICK v \in wallets : \E a : z = [x EXCEPT !.wallet = v, !.allowance[sender] = a]
    BY <1>3 DEF Taking
  <2>2. DOMAIN z = DOMAIN x /\ z.wallet = v /\ z.added = x.added BY <1>0, <2>1
  <2>3. QED BY <1>1, <1>3, <2>2
<1>4. ASSUME NEW states, \A s \in states : WalletBook(s), NEW name \in TemplateName,
             NEW data, NEW z \in Noted(states, name, data)
      PROVE  WalletBook(z)
  <2> DEFINE event == [name |-> name, amount |-> data.numberOfTokens]
  <2>1. PICK s \in states : z = [s EXCEPT !.added = @ \cup {event}] BY <1>4 DEF Noted
  <2>2. /\ {"wallet", "added"} \subseteq DOMAIN s /\ WalletLists(s.wallet)
        /\ \A a \in s.added : a.name \in TemplateName
    BY <1>4 DEF WalletBook
  <2>3. DOMAIN z = DOMAIN s /\ z.wallet = s.wallet /\ z.added = s.added \cup {event}
    BY <2>1, <2>2
  <2>4. event.name \in TemplateName OBVIOUS
  <2> HIDE DEF event
  <2>5. QED BY <2>2, <2>3, <2>4 DEF WalletBook
<1>5. ASSUME NEW a, NEW u, NEW p,
             NEW v, \/ v \in DepositTokens(w, a) \/ v \in SendToTreasury(w, a)
                    \/ v \in AddTemplate(w, u, p) \/ v \in RemoveTemplate(w, u)
      PROVE  WalletLists(v)
  <2>1. SameLists(v, w) BY <1>0, <1>5, QuietOperations
  <2>2. QED BY <1>0, <2>1, SameListsKeep
<1> HIDE DEF w
<1>6. CASE op = "approve"
  <2>1. y = [x EXCEPT !.allowance[row[1]] = row[2]] BY <1>6 DEF OneAfter
  <2>2. DOMAIN y = DOMAIN x /\ y.wallet = x.wallet /\ y.added = x.added BY <1>0, <2>1
  <2>3. QED BY <1>0, <1>1, <1>6, <2>2 DEF w
<1>7. CASE op = "depositTokens"
  <2>1. y \in Taking(x, row[1], DepositTokens(w, b)) BY <1>7 DEF OneAfter, w
  <2>2. QED BY <1>3, <1>5, <1>7, <2>1
<1>8. CASE op = "sendToTreasury"
  <2>1. y \in With(x, SendToTreasury(w, b)) BY <1>8 DEF OneAfter, w
  <2>2. QED BY <1>2, <1>5, <1>8, <2>1
<1>9. CASE op = "addTemplate"
  <2>1. y \in Noted(With(x, AddTemplate(w, b, t)), b, t) BY <1>9 DEF OneAfter, w
  <2>2. \A s \in With(x, AddTemplate(w, b, t)) : WalletBook(s) BY <1>2, <1>5
  <2>3. b \in TemplateName BY <1>9 DEF RightRow
  <2>4. QED BY <1>4, <1>9, <2>1, <2>2, <2>3
<1>10. CASE op = "removeTemplate"
  <2>1. y \in With(x, RemoveTemplate(w, b)) BY <1>10 DEF OneAfter, w
  <2>2. QED BY <1>2, <1>5, <1>10, <2>1
<1>11. CASE op = "addSchedule"
  <2> DEFINE wallets == AddSchedule(w, b, t, row[4], row[5], now)
  <2>1. y \in Noted(Taking(x, row[1], wallets), t, row[4]) BY <1>11 DEF OneAfter, w
  <2>2. t \in TemplateName BY <1>11 DEF RightRow
  <2>3. \A v \in wallets : WalletLists(v) BY <1>0, <2>2, AddScheduleLists
  <2> HIDE DEF wallets
  <2>4. \A s \in Taking(x, row[1], wallets) : WalletBook(s) BY <1>3, <2>3
  <2>5. QED BY <1>4, <1>11, <2>1, <2>2, <2>4
<1>12. CASE op = "addScheduleFromTemplate"
  <2> DEFINE wallets == AddScheduleFromTemplate(w, b, t, row[4], now)
  <2>1. y \in Taking(x, row[1], wallets) BY <1>12 DEF OneAfter, w
  <2>2. t \in TemplateName BY <1>12 DEF RightRow
  <2>3. \A v \in wallets : WalletLists(v) BY <1>0, <2>2, FromTemplateLists
  <2> HIDE DEF wallets
  <2>4. QED BY <1>3, <1>12, <2>1, <2>3
<1>13. CASE op = "modifySchedule"
  <2>1. y \in With(x, ModifySchedule(w, b, t, row[4], now)) BY <1>13 DEF OneAfter, w
  <2>2. \A v \in ModifySchedule(w, b, t, row[4], now) : WalletLists(v)
    BY <1>0, ModifyLists
  <2>3. QED BY <1>2, <1>13, <2>1, <2>2
<1>14. CASE op = "revokeSchedule"
  <2> DEFINE wallets == RevokeSchedule(w, b, t, now)
  <2>1. y \in With(x, wallets) BY <1>14 DEF OneAfter, w
  <2>2. b \in Beneficiary /\ t \in TemplateName BY <1>14 DEF RightRow
  <2>3. \A v \in wallets : WalletLists(v) /\ OnlyLost(w, v, b, t)
    BY <1>0, <2>2, RevokeLists
  <2> HIDE DEF wallets
  <2>4. WalletBook(y) /\ y.wallet \in wallets BY <1>2, <2>1, <2>3
  <2>5. QED BY <2>3, <2>4 DEF w
<1>15. CASE op = "revokeAllSchedules"
  <2>1. y \in With(x, RevokeAllSchedules(w, b, now)) BY <1>15 DEF OneAfter, w
  <2>2. b \in Beneficiary BY <1>15 DEF RightRow
  <2>3. \A v \in RevokeAllSchedules(w, b, now) : WalletLists(v)
    BY <1>0, <2>2, SendTokensLists, DropLists DEF RevokeAllSchedules
  <2>4. QED BY <1>2, <1>15, <2>1, <2>3
<1>16. CASE op = "pushAvailableTokens"
  <2>1. y \in With(x, SendTokens(w, b, now)) BY <1>16 DEF OneAfter, w
  <2>2. \A v \in SendTokens(w, b, now) : WalletLists(v) BY <1>0, SendTokensLists
  <2>3. QED BY <1>2, <1>16, <2>1, <2>2
<1>17. CASE op = "pullAvailableTokens"
  <2>1. y \in With(x, PullAvailableTokens(w, row[1], now)) BY <1>17 DEF OneAfter, w
  <2>2. \A v \in PullAvailableTokens(w, row[1], now) : WalletLists(v)
    BY <1>0, SendTokensLists DEF PullAvailableTokens
  <2>3. QED BY <1>2, <1>17, <2>1, <2>2
<1>18. QED
  BY <1>6, <1>7, <1>8, <1>9, <1>10, <1>11, <1>12, <1>13, <1>14, <1>15, <1>16, <1>17
  DEF WalletOps

\* The records of a call, and a call that revokes what was chosen.
RightRows(op, rows) ==
  \E R : rows \in Seq(R) /\ \A row \in R : RightRow(op, row)

LEMMA WalletCallKeeps ==
  ASSUME WalletBook(contract), NEW call, call.op \in WalletOps,
         RightRows(call.op, call.rows), NEW y \in WalletCallAfter(call)
  PROVE  /\ WalletBook(y)
         /\ \A row : call.op = "revokeSchedule" /\ call.rows = <<row>> =>
                       OnlyLost(contract.wallet, y.wallet, row[2], row[3])
<1> DEFINE op == call.op
           rows == call.rows
           n == Len(rows)
           Is(g, m) == g = [k \in 0..m |-> IF k = 0 THEN {contract}
                              ELSE UNION {OneAfter(x, op, rows[k]) : x \in g[k - 1]}]
           after == CHOOSE g : Is(g, n)
<1>1. WalletCallAfter(call) = after[n] BY DEF WalletCallAfter, InTurn
<1>2. n \in Nat /\ \A k \in 1..n : RightRow(op, rows[k]) BY DEF RightRows
<1>3. \A row : rows = <<row>> => n = 1 /\ rows[1] = row OBVIOUS
<1> HIDE DEF op, rows, n
<1>4. \E g : Is(g, n)
  <2> DEFINE Wrong == {m \in 0..n : \A g : ~Is(g, m)}
  <2>0. Wrong = {} => \E g : Is(g, n)
    <3> HIDE DEF Is
    <3>1. QED BY <1>2
  <2> SUFFICES ASSUME Wrong # {} PROVE FALSE
    BY <2>0
  <2>1. PICK m \in Wrong : \A j \in Wrong : ~(<<j, m>> \in OpToRel(<, Nat))
    <3>1. Wrong \subseteq Nat BY <1>2
    <3> HIDE DEF Wrong
    <3>2. QED BY <3>1, WFMin, NatLessThanWellFounded
  <2>2. m # 0
    <3> SUFFICES ASSUME m = 0 PROVE FALSE
      OBVIOUS
    <3> DEFINE g == [k \in 0..0 |-> {contract}]
    <3>1. Is(g, 0) OBVIOUS
    <3>2. QED BY <2>1, <3>1
  <2>3. m \in 1..n /\ m - 1 \in 0..n
    <3>1. m \in 0..n OBVIOUS
    <3> HIDE DEF Wrong
    <3>2. QED BY <1>2, <2>2, <3>1
  <2>4. <<m - 1, m>> \in OpToRel(<, Nat) BY <1>2, <2>3 DEF OpToRel
  <2>5. m - 1 \notin Wrong BY <2>1, <2>4
  <2>6. PICK g : Is(g, m - 1) BY <2>3, <2>5
  <2> DEFINE new == UNION {OneAfter(x, op, rows[m]) : x \in g[m - 1]}
             h == [k \in 0..m |-> IF k = m THEN new ELSE g[k]]
  <2>7. h[m] = new /\ \A k \in 0..m - 1 : h[k] = g[k] BY <1>2, <2>3
  <2>8. ASSUME NEW k \in 0..m
        PROVE  h[k] = IF k = 0 THEN {contract}
                      ELSE UNION {OneAfter(x, op, rows[k]) : x \in h[k - 1]}
    <3> HIDE DEF h
    <3>1. CASE k = m
      <4>1. h[k - 1] = g[m - 1] BY <1>2, <2>3, <2>7, <3>1
      <4>2. k # 0 BY <2>3, <3>1
      <4>3. QED BY <2>7, <3>1, <4>1, <4>2
    <3>2. CASE k # m
      <4>1. k \in 0..m - 1 /\ (k # 0 => k - 1 \in 0..m - 1) BY <1>2, <2>3, <3>2
      <4>2. g[k] = IF k = 0 THEN {contract}
                   ELSE UNION {OneAfter(x, op, rows[k]) : x \in g[k - 1]}
        BY <2>6, <4>1
      <4>3. k # 0 => h[k - 1] = g[k - 1] BY <2>7, <4>1
      <4>4. QED BY <2>7, <4>1, <4>2, <4>3
    <3>3. QED BY <3>1, <3>2
  <2>9. Is(h, m)
    <3>1. h = [k \in 0..m |-> h[k]] OBVIOUS
    <3> HIDE DEF h
    <3>2. QED BY <2>8, <3>1
  <2>10. QED BY <2>1, <2>9
<1>5. Is(after, n)
  <2> HIDE DEF Is
  <2> QED BY <1>4 DEF after
<1> HIDE DEF after
<1> DEFINE Kept(k) == \A x \in after[k] : WalletBook(x)
           good == [k \in 0..n |-> Kept(k)]
<1>6. after[0] = {contract} BY <1>2, <1>5
<1>7. ASSUME NEW k \in 1..n, Kept(k - 1) PROVE Kept(k)
  <2>1. k \in 0..n /\ k # 0 BY <1>2
  <2>2. after[k] = UNION {OneAfter(x, op, rows[k]) : x \in after[k - 1]} BY <1>5, <2>1
  <2>3. op \in WalletOps /\ RightRow(op, rows[k]) BY <1>2 DEF op
  <2>4. QED BY <1>7, <2>2, <2>3, WalletRecordKeeps
<1>8. Kept(n)
  <2>1. good[0] \in {TRUE} BY <1>2, <1>6
  <2>2. ASSUME NEW k \in 1..n, good[k - 1] \in {TRUE} PROVE good[k] \in {TRUE}
    <3>1. k \in 0..n /\ k - 1 \in 0..n BY <1>2
    <3>2. Kept(k - 1) BY <2>2, <3>1
    <3>3. Kept(k) BY <1>7, <3>2
    <3>4. QED BY <3>1, <3>3
  <2> HIDE DEF good
  <2>3. \A k \in 0..n : good[k] \in {TRUE} BY <1>2, <2>1, <2>2, LoopKeeps
  <2>4. n \in 0..n BY <1>2
  <2>5. good[n] BY <2>3, <2>4
  <2> HIDE DEF Kept
  <2>6. QED BY <2>4, <2>5 DEF good
<1>9. ASSUME NEW row, op = "revokeSchedule", rows = <<row>>
      PROVE  OnlyLost(contract.wallet, y.wallet, row[2], row[3])
  <2>1. n = 1 /\ rows[1] = row BY <1>3, <1>9
  <2>2. after[1] = UNION {OneAfter(x, op, rows[1]) : x \in after[0]} BY <1>5, <2>1
  <2>3. y \in OneAfter(contract, op, row) BY <1>1, <1>6, <2>1, <2>2
  <2>4. op \in WalletOps /\ RightRow(op, row) BY <1>2, <2>1 DEF op
  <2>5. QED BY <1>9, <2>3, <2>4, WalletRecordKeeps
<1>10. QED BY <1>1, <1>8, <1>9 DEF op, rows

-----------------------------------------------------------------------------
(* What the programs of the wallet have in their hands.                    *)

RightCall(c, call, about) ==
  /\ call.op \in WalletOps
  /\ RightRows(call.op, call.rows)
  /\ call.op = "revokeSchedule" =>
       \E b \in Beneficiary, t \in TemplateName :
         /\ call.rows = <<<<c, b, t>>>>
         /\ about = {[beneficiary |-> b, templateName |-> t]}

RightCalls(c, calls, about) ==
  \E S : calls \in Seq(S) /\ \A call \in S : RightCall(c, call, about)

\* The schedules of one beneficiary, as they were when they were read.
ShowsSchedules(about) ==
  \E b \in Beneficiary : \E list, S :
    /\ about = {[beneficiary |-> b, schedules |-> list]}
    /\ list \in Seq(S) /\ \A s \in S : s.templateName \in TemplateName

WalletSession(c, s, pool) ==
  /\ {"at", "calls", "about", "then"} \subseteq DOMAIN s
  /\ RightCalls(c, s.calls, s.about)
  /\ s.at \in {"sending", "waiting"} => s.calls # << >> /\ s.then = "menu"
  /\ s.at = "waiting" => pool \subseteq {Head(s.calls)}
  /\ s.at = "schedules" => ShowsSchedules(s.about)
  /\ \A call \in pool : \E about : RightCall(c, call, about)

WalletSessions ==
  /\ session = [c \in Client |-> session[c]] /\ mempool = [c \in Client |-> mempool[c]]
  /\ \A c \in Client : WalletSession(c, session[c], mempool[c])

WalletInv == current = "wallet" => WalletBook(contract) /\ WalletSessions

LEMMA NoCallsAreRight ==
  ASSUME NEW c, NEW about
  PROVE  RightCalls(c, << >>, about)
<1> DEFINE S == {}
<1>1. << >> \in Seq(S) /\ \A call \in S : RightCall(c, call, about) OBVIOUS
<1> HIDE DEF S
<1>2. QED BY <1>1 DEF RightCalls

LEMMA OneWallet ==
  ASSUME WalletSessions, NEW c \in Client, NEW s, WalletSession(c, s, mempool'[c]),
         session' = [session EXCEPT ![c] = s], DOMAIN mempool' = Client,
         mempool' = [d \in DOMAIN mempool' |-> mempool'[d]],
         \A d \in Client \ {c} : mempool'[d] = mempool[d]
  PROVE  WalletSessions'
<1>1. session' = [d \in Client |-> session'[d]] BY DEF WalletSessions
<1>2. ASSUME NEW d \in Client PROVE WalletSession(d, session'[d], mempool'[d])
  BY <1>2 DEF WalletSessions
<1>3. WalletSessions' <=>
        /\ session' = [d \in Client |-> session'[d]]
        /\ mempool' = [d \in Client |-> mempool'[d]]
        /\ \A d \in Client : WalletSession(d, session'[d], mempool'[d])
  BY DEF WalletSessions
<1>4. QED BY <1>1, <1>2, <1>3

\* Only the session changes.
LEMMA OneWalletSession ==
  ASSUME WalletSessions, NEW c \in Client, NEW s, WalletSession(c, s, mempool[c]),
         session' = [session EXCEPT ![c] = s], mempool' = mempool
  PROVE  WalletSessions'
<1>1. DOMAIN mempool' = Client /\ mempool' = [d \in DOMAIN mempool' |-> mempool'[d]]
  BY DEF WalletSessions
<1>2. QED BY <1>1, OneWallet

LEMMA WalletPlace ==
  ASSUME WalletSessions, NEW c \in Client, NEW place, place \notin {"sending", "waiting"},
         NEW about, place = "schedules" => ShowsSchedules(about)
  PROVE  WalletSession(c, Place(place, about), mempool[c])
<1>1. RightCalls(c, << >>, about) BY NoCallsAreRight
<1>2. QED BY <1>1 DEF WalletSession, WalletSessions, Place

LEMMA WalletShows ==
  ASSUME WalletSessions, NEW c \in Client, NEW place, place \notin {"sending", "waiting"},
         NEW about, place = "schedules" => ShowsSchedules(about), Show(c, place, about)
  PROVE  WalletSessions' /\ SameContract
<1>1. WalletSession(c, Place(place, about), mempool[c]) BY WalletPlace
<1>2. QED BY <1>1, OneWalletSession DEF Show, SameContract

LEMMA WalletBegins ==
  ASSUME WalletSessions, NEW c \in Client, NEW list, NEW about, RightCalls(c, list, about),
         Begin(c, list, about)
  PROVE  WalletSessions' /\ SameContract
<1> DEFINE s == Sending(list, about)
           new == IF s.calls = << >> THEN AtMenu ELSE s
<1>1. /\ session' = [session EXCEPT ![c] = new] /\ mempool' = mempool
      /\ UNCHANGED <<now, current, contract>>
  BY DEF Begin, StartCommand
<1>2. /\ {"at", "calls", "about", "then"} \subseteq DOMAIN s
      /\ s.calls = list /\ s.about = about /\ s.at = "sending" /\ s.then = "menu"
  BY DEF Sending, Place
<1> DEFINE start == "menu"
           none == {}
<1>3. AtMenu = Place(start, none) BY DEF AtMenu
<1>4. start \notin {"sending", "waiting", "schedules"} OBVIOUS
<1> HIDE DEF start, none, s
<1>5. WalletSession(c, AtMenu, mempool[c]) BY <1>3, <1>4, WalletPlace
<1>6. CASE s.calls = << >>
  <2> HIDE DEF new
  <2>1. new = AtMenu BY <1>6 DEF new
  <2>2. QED BY <1>1, <1>5, <2>1, OneWalletSession DEF SameContract
<1>7. CASE s.calls # << >>
  <2>1. WalletSession(c, s, mempool[c]) BY <1>2, <1>7 DEF WalletSession, WalletSessions
  <2>2. new = s BY <1>7
  <2> HIDE DEF new
  <2>3. QED BY <1>1, <2>1, <2>2, OneWalletSession DEF SameContract
<1>8. QED BY <1>6, <1>7

LEMMA WalletNextCall ==
  ASSUME NEW c, NEW s, NEW pool, WalletSession(c, s, pool), s.at \in {"sending", "waiting"},
         NEW succeeded, NEW left \in SUBSET pool
  PROVE  WalletSession(c, NextCall(s, succeeded), left)
<1> DEFINE t == NextCall(s, succeeded)
<1>1. /\ {"at", "calls", "about", "then"} \subseteq DOMAIN s
      /\ s.calls # << >> /\ s.then = "menu"
      /\ \A call \in left : \E about : RightCall(c, call, about)
  BY DEF WalletSession
<1>2. ASSUME t = Place("menu", {}) PROVE WalletSession(c, t, left)
  <2>1. /\ {"at", "calls", "about", "then"} \subseteq DOMAIN t
        /\ t.at = "menu" /\ t.calls = << >>
    BY <1>2 DEF Place
  <2> HIDE DEF t
  <2>2. RightCalls(c, t.calls, t.about) BY <2>1, NoCallsAreRight
  <2>3. QED BY <1>1, <2>1, <2>2 DEF WalletSession
<1>3. CASE (~succeeded /\ ~s.goesOn) \/ Len(s.calls) = 1
  <2>1. t = Place("menu", {}) BY <1>1, <1>3 DEF NextCall, AtMenu
  <2>2. QED BY <1>2, <2>1
<1>4. CASE ~(~succeeded /\ ~s.goesOn) /\ Len(s.calls) # 1
  <2>1. t = [s EXCEPT !.at = "sending", !.calls = Tail(@)] BY <1>4 DEF NextCall
  <2>2. /\ {"at", "calls", "about", "then"} \subseteq DOMAIN t
        /\ t.at = "sending" /\ t.calls = Tail(s.calls) /\ t.about = s.about
        /\ t.then = s.then
    BY <1>1, <2>1
  <2>3. PICK S : s.calls \in Seq(S) /\ \A call \in S : RightCall(c, call, s.about)
    BY DEF WalletSession, RightCalls
  <2>4. Tail(s.calls) \in Seq(S) /\ Tail(s.calls) # << >>
    <3>1. PICK list \in Seq(S) : list = s.calls BY <2>3
    <3>2. Len(list) \in Nat /\ Len(list) # 0 /\ Len(list) # 1 BY <1>1, <1>4, <3>1
    <3>3. Tail(list) \in Seq(S) /\ Len(Tail(list)) = Len(list) - 1 BY <3>2
    <3>4. Len(Tail(list)) # 0 BY <3>2, <3>3
    <3>5. Tail(list) # << >> BY <3>3, <3>4, NotEmpty
    <3>6. QED BY <3>1, <3>3, <3>5
  <2> HIDE DEF t
  <2>5. RightCalls(c, t.calls, t.about) BY <2>2, <2>3, <2>4 DEF RightCalls
  <2>6. QED BY <1>1, <2>2, <2>4, <2>5 DEF WalletSession, t
<1>5. QED BY <1>3, <1>4

LEMMA HeadIsRight ==
  ASSUME NEW c, NEW calls, NEW about, RightCalls(c, calls, about), calls # << >>
  PROVE  RightCall(c, Head(calls), about)
<1>1. PICK S : calls \in Seq(S) /\ \A call \in S : RightCall(c, call, about)
  BY DEF RightCalls
<1>2. Head(calls) \in S BY <1>1
<1>3. QED BY <1>1, <1>2

LEMMA WalletSends ==
  ASSUME WalletSessions, NEW c \in Client, NEW outcomes, Send(c, outcomes)
  PROVE  /\ WalletSessions' /\ SameContract
         /\ \A d \in Client : At(d, "waiting") => mempool'[d] = mempool[d]
<1> DEFINE s == session[c]
<1>1. s.at = "sending" /\ WalletSession(c, s, mempool[c]) BY DEF Send, WalletSessions
<1>2. CASE Leave(c, NextCall(s, FALSE))
  <2> DEFINE failed == FALSE
             t == NextCall(s, failed)
  <2>1. session' = [session EXCEPT ![c] = t] /\ mempool' = mempool
        /\ UNCHANGED <<now, current, contract>>
    BY <1>2 DEF Leave
  <2>2. mempool[c] \in SUBSET mempool[c] OBVIOUS
  <2> HIDE DEF failed, s
  <2>3. WalletSession(c, t, mempool[c]) BY <1>1, <2>2, WalletNextCall
  <2> HIDE DEF t
  <2>4. QED BY <2>1, <2>3, OneWalletSession DEF SameContract
<1>3. CASE /\ mempool' = [mempool EXCEPT ![c] = {ToSend(c)}]
           /\ session' = [session EXCEPT ![c].at = "waiting"]
           /\ UNCHANGED <<now, current, contract, begun>>
  <2> DEFINE t == [s EXCEPT !.at = "waiting"]
  <2>1. session' = [session EXCEPT ![c] = t] BY <1>3
  <2>2. /\ {"at", "calls", "about", "then"} \subseteq DOMAIN s
        /\ RightCalls(c, s.calls, s.about) /\ s.calls # << >> /\ s.then = "menu"
    BY <1>1 DEF WalletSession
  <2>3. /\ {"at", "calls", "about", "then"} \subseteq DOMAIN t
        /\ t.calls = s.calls /\ t.about = s.about /\ t.then = s.then /\ t.at = "waiting"
    BY <2>2
  <2>4. \A d \in Client : mempool'[d] = IF d = c THEN {Head(s.calls)} ELSE mempool[d]
    BY <1>3 DEF WalletSessions, ToSend
  <2>5. DOMAIN mempool' = Client /\ mempool' = [d \in DOMAIN mempool' |-> mempool'[d]]
    BY <1>3 DEF WalletSessions
  <2> HIDE DEF t
  <2>6. RightCall(c, Head(s.calls), s.about) BY <2>2, HeadIsRight
  <2>7. mempool'[c] = {Head(s.calls)} BY <2>4
  <2>8. WalletSession(c, t, mempool'[c])
    BY <2>2, <2>3, <2>6, <2>7 DEF WalletSession
  <2>9. WalletSessions' BY <2>1, <2>4, <2>5, <2>8, OneWallet
  <2>10. QED BY <1>1, <1>3, <2>4, <2>9 DEF SameContract, At
<1>4. QED BY <1>2, <1>3 DEF Send

LEMMA WalletMines ==
  ASSUME WalletSessions, NEW c \in Client, NEW outcomes, Mine(c, outcomes)
  PROVE  /\ WalletSessions' /\ UNCHANGED <<now, current>>
         /\ contract' \in outcomes \/ contract' = contract
         /\ \A d \in Client \ {c} : mempool'[d] = mempool[d]
<1> DEFINE s == session[c]
<1>1. WalletSession(c, s, mempool[c]) BY DEF WalletSessions
<1>2. PICK succeeded \in BOOLEAN :
        session' = [session EXCEPT ![c] = AfterReceipt(@, succeeded)]
  BY DEF Mine
<1> DEFINE t == AfterReceipt(s, succeeded)
           none == {}
<1>3. session' = [session EXCEPT ![c] = t] BY <1>2
<1>4. \A d \in Client : mempool'[d] = IF d = c THEN none ELSE mempool[d]
  BY DEF Mine, WalletSessions
<1>5. DOMAIN mempool' = Client /\ mempool' = [d \in DOMAIN mempool' |-> mempool'[d]]
  BY DEF Mine, WalletSessions
<1>6. none \in SUBSET mempool[c] OBVIOUS
<1> HIDE DEF s
<1>7. WalletSession(c, t, none)
  <2>1. CASE s.at = "waiting"
    <3>1. t = NextCall(s, succeeded) BY <2>1 DEF AfterReceipt
    <3> HIDE DEF t, none
    <3>2. QED BY <1>1, <1>6, <2>1, <3>1, WalletNextCall
  <2>2. CASE s.at # "waiting"
    <3>1. t = s BY <2>2 DEF AfterReceipt
    <3>2. \A call \in none : FALSE OBVIOUS
    <3> HIDE DEF t, none
    <3>3. QED BY <1>1, <2>2, <3>1, <3>2 DEF WalletSession
  <2>3. QED BY <2>1, <2>2
<1> HIDE DEF t, none
<1>8. mempool'[c] = none BY <1>4
<1>9. WalletSession(c, t, mempool'[c]) BY <1>7, <1>8
<1>10. \A d \in Client \ {c} : mempool'[d] = mempool[d] BY <1>4
<1>11. WalletSessions' BY <1>3, <1>5, <1>9, <1>10, OneWallet
<1>12. QED BY <1>10, <1>11 DEF Mine

-----------------------------------------------------------------------------
(* Its commands.                                                           *)

LEMMA OneIsRight ==
  ASSUME NEW c, NEW op \in WalletOps, NEW row, RightRow(op, row), NEW about,
         op = "revokeSchedule" =>
           \E b \in Beneficiary, t \in TemplateName :
             row = <<c, b, t>> /\ about = {[beneficiary |-> b, templateName |-> t]}
  PROVE  RightCalls(c, One(op, row), about)
<1> DEFINE rows == <<row>>
           call == [op |-> op, rows |-> rows]
           R == {row}
<1>1. rows \in Seq(R) /\ \A r \in R : RightRow(op, r) OBVIOUS
<1> HIDE DEF R
<1>2. RightRows(op, rows) BY <1>1 DEF RightRows
<1>3. call.op = op /\ call.rows = rows OBVIOUS
<1>4. op = "revokeSchedule" =>
        \E b \in Beneficiary, t \in TemplateName :
          rows = <<<<c, b, t>>>> /\ about = {[beneficiary |-> b, templateName |-> t]}
  OBVIOUS
<1>5. One(op, row) = <<call>> BY DEF One
<1> HIDE DEF call, rows
<1>6. RightCall(c, call, about) BY <1>2, <1>3, <1>4 DEF RightCall
<1> DEFINE S == {call}
<1>7. <<call>> \in Seq(S) /\ \A x \in S : RightCall(c, x, about) BY <1>6
<1> HIDE DEF S
<1>8. RightCalls(c, <<call>>, about) BY <1>7 DEF RightCalls
<1>9. QED BY <1>5, <1>8

LEMMA BothAreRight ==
  ASSUME NEW c, NEW about, NEW list, RightCalls(c, list, about),
         NEW more, RightCalls(c, more, about)
  PROVE  RightCalls(c, list \o more, about)
<1>1. PICK S : list \in Seq(S) /\ \A call \in S : RightCall(c, call, about)
  BY DEF RightCalls
<1>2. PICK T : more \in Seq(T) /\ \A call \in T : RightCall(c, call, about)
  BY DEF RightCalls
<1>3. list \in Seq(S \cup T) /\ more \in Seq(S \cup T) BY <1>1, <1>2
<1>4. list \o more \in Seq(S \cup T) BY <1>3
<1>5. \A call \in S \cup T : RightCall(c, call, about) BY <1>1, <1>2
<1>6. QED BY <1>4, <1>5 DEF RightCalls

LEMMA Prefixed ==
  ASSUME NEW c, NEW m \in Nat, NEW E, NEW d \in [1..m -> E]
  PROVE  /\ <<c>> \o d \in [1..m + 1 -> E \cup {c}]
         /\ \A j \in 1..m : (<<c>> \o d)[j + 1] = d[j]
<1> DEFINE F == E \cup {c}
<1>1. <<c>> \in Seq(F) /\ Len(<<c>>) = 1 OBVIOUS
<1>2. d \in Seq(F) /\ Len(d) = m
  <2>1. d \in [1..m -> F] OBVIOUS
  <2> HIDE DEF F
  <2>2. QED BY <2>1
<1> HIDE DEF F
<1>3. <<c>> \o d \in Seq(F) /\ Len(<<c>> \o d) = m + 1 BY <1>1, <1>2
<1>4. <<c>> \o d \in [1..m + 1 -> F]
  <2> DEFINE t == <<c>> \o d
  <2> HIDE DEF t
  <2>1. t \in Seq(F) /\ Len(t) = m + 1 BY <1>3 DEF t
  <2>2. t \in [1..m + 1 -> F] BY <2>1
  <2>3. QED BY <2>2 DEF t
<1>5. ASSUME NEW j \in 1..m PROVE (<<c>> \o d)[j + 1] = d[j] BY <1>1, <1>2
<1>6. QED BY <1>4, <1>5 DEF F

\* A file, each record after its sender.
LEMMA BatchesAreRight ==
  ASSUME WalletSessions, NEW c \in Client, NEW op \in WalletOps, op # "revokeSchedule",
         NEW width \in Nat, NEW E, NEW Record, Record \subseteq [1..width -> E],
         NEW files, files \subseteq Seq(Record),
         \A d \in Record : RightRow(op, <<c>> \o d), SchedulesInBatch(c, op, files)
  PROVE  WalletSessions' /\ SameContract
<1> DEFINE none == {}
           rows(data) == [k \in DOMAIN data |-> <<c>> \o data[k]]
           Row == {<<c>> \o d : d \in Record}
           m == width + 1
           F == E \cup {c}
<1>1. PICK data \in files, size \in ScheduleBatch :
        Begin(c, CallsOf(op, rows(data), size), none)
  BY DEF SchedulesInBatch
<1>2. size \in Nat \ {0} BY <1>1, WalletAssumption
<1>3. rows(data) \in Seq(Row)
  <2>1. data \in Seq(Record) BY <1>1
  <2> DEFINE n == Len(data)
  <2>2. n \in Nat /\ DOMAIN data = 1..n /\ \A k \in 1..n : data[k] \in Record BY <2>1
  <2> DEFINE t == rows(data)
  <2>3. t \in [1..n -> Row] BY <2>2
  <2> HIDE DEF t, Row, n
  <2>4. t \in Seq(Row) BY <2>2, <2>3
  <2>5. QED BY <2>4 DEF t
<1>4. Row \subseteq [1..m -> F]
  <2>1. ASSUME NEW d \in Record PROVE <<c>> \o d \in [1..m -> F]
    <3>1. d \in [1..width -> E] OBVIOUS
    <3>2. QED BY <3>1, Prefixed
  <2>2. QED BY <2>1
<1>5. \A row \in Row : RightRow(op, row) OBVIOUS
<1>6. m \in Nat \ {0} OBVIOUS
<1> DEFINE Calls == CallOf(op, Row)
           list == CallsOf(op, rows(data), size)
<1>7. \A call \in Calls : call.op = op /\ call.rows \in Seq(Row) BY DEF CallOf
<1>8. CallOf(op, Row) \subseteq Calls OBVIOUS
<1> HIDE DEF Calls, rows, Row, m, F, none
<1>9. list \in Seq(Calls) BY <1>2, <1>3, <1>4, <1>6, <1>8, CallsHoldRecords
<1>10. ASSUME NEW call \in Calls PROVE RightCall(c, call, none)
  <2>1. RightRows(call.op, call.rows) BY <1>5, <1>7 DEF RightRows
  <2>2. QED BY <1>7, <2>1 DEF RightCall
<1>11. RightCalls(c, list, none) BY <1>9, <1>10 DEF RightCalls
<1> HIDE DEF list
<1>12. Begin(c, list, none) BY <1>1 DEF list
<1>13. QED BY <1>11, <1>12, WalletBegins

\* The columns of a file that are sent.
Cut(columns) == {[x \in DOMAIN columns |-> d[columns[x]]] : d \in ScheduleRecord}

Fields == Beneficiary \cup TemplateName \cup TemplateData \cup Nat

LEMMA ColumnsAreCut ==
  ASSUME NEW width \in Nat, NEW columns \in [1..width -> 1..4]
  PROVE  /\ Columns(columns) \subseteq Seq(Cut(columns))
         /\ Cut(columns) \subseteq [1..width -> Fields]
<1>1. ASSUME NEW f \in ScheduleFile
      PROVE  [k \in DOMAIN f |-> [x \in DOMAIN columns |-> f[k][columns[x]]]]
               \in Seq(Cut(columns))
  <2> DEFINE n == Len(f)
             g == [k \in DOMAIN f |-> [x \in DOMAIN columns |-> f[k][columns[x]]]]
  <2>1. f \in Seq(ScheduleRecord) BY WalletAssumption
  <2>2. n \in Nat /\ DOMAIN f = 1..n /\ \A k \in 1..n : f[k] \in ScheduleRecord
    BY <2>1
  <2>3. g \in [1..n -> Cut(columns)] BY <2>2 DEF Cut
  <2> HIDE DEF g, n
  <2>4. g \in Seq(Cut(columns)) BY <2>2, <2>3
  <2>5. QED BY <2>4 DEF g
<1>2. ASSUME NEW d \in ScheduleRecord, NEW j \in 1..4 PROVE d[j] \in Fields
  BY DEF ScheduleRecord, Fields
<1>3. QED BY <1>1, <1>2 DEF Columns, Cut

LEMMA WalletFiles ==
  ASSUME WalletSessions, NEW c \in Client, MultipleSchedules(c)
  PROVE  WalletSessions' /\ SameContract
<1> DEFINE three == <<1, 2, 4>>
           first == <<1>>
           op1 == "addSchedule"
           op2 == "addScheduleFromTemplate"
           op3 == "modifySchedule"
           op4 == "revokeAllSchedules"
<1>1. three \in [1..3 -> 1..4] /\ first \in [1..1 -> 1..4]
      /\ three[1] = 1 /\ three[2] = 2 /\ first[1] = 1
      /\ 1 \in DOMAIN three /\ 2 \in DOMAIN three /\ 1 \in DOMAIN first
  OBVIOUS
<1>2. ScheduleRecord \subseteq [1..4 -> Fields] BY DEF ScheduleRecord, Fields
<1>3. op1 \in WalletOps /\ op2 \in WalletOps /\ op3 \in WalletOps /\ op4 \in WalletOps
  BY DEF WalletOps
<1>4. \A d \in ScheduleRecord : d[1] \in Beneficiary /\ d[2] \in TemplateName
  BY DEF ScheduleRecord
<1>5. ASSUME NEW d, d[2] \in TemplateName, NEW m \in Nat, 2 <= m, NEW E, d \in [1..m -> E]
      PROVE  RightRow(op1, <<c>> \o d) /\ RightRow(op2, <<c>> \o d)
             /\ RightRow(op3, <<c>> \o d)
  <2>1. (<<c>> \o d)[2 + 1] = d[2] BY <1>5, Prefixed
  <2> DEFINE row == <<c>> \o d
  <2> HIDE DEF row
  <2>2. row[3] \in TemplateName BY <1>5, <2>1 DEF row
  <2>3. QED BY <2>2 DEF RightRow, row
<1>6. ASSUME NEW d, d[1] \in Beneficiary, NEW m \in Nat, 1 <= m, NEW E, d \in [1..m -> E]
      PROVE  RightRow(op4, <<c>> \o d)
  <2>1. (<<c>> \o d)[1 + 1] = d[1] BY <1>6, Prefixed
  <2> DEFINE row == <<c>> \o d
  <2> HIDE DEF row
  <2>2. row[2] \in Beneficiary BY <1>6, <2>1 DEF row
  <2>3. QED BY <2>2 DEF RightRow, row
<1>7. /\ Columns(three) \subseteq Seq(Cut(three)) /\ Cut(three) \subseteq [1..3 -> Fields]
      /\ Columns(first) \subseteq Seq(Cut(first)) /\ Cut(first) \subseteq [1..1 -> Fields]
  <2> HIDE DEF three, first
  <2>1. QED BY <1>1, ColumnsAreCut
<1>8. /\ \A d \in Cut(three) : d[2] \in TemplateName
      /\ \A d \in Cut(first) : d[1] \in Beneficiary
  <2> HIDE DEF three, first
  <2>1. QED BY <1>1, <1>4 DEF Cut
<1>9. /\ op1 # "revokeSchedule" /\ op2 # "revokeSchedule"
      /\ op3 # "revokeSchedule" /\ op4 # "revokeSchedule"
  OBVIOUS
<1>10. /\ AddSchedulesInBatch(c) => SchedulesInBatch(c, op1, ScheduleFile)
       /\ AddSchedulesFromTemplateInBatch(c) => SchedulesInBatch(c, op2, Columns(three))
       /\ ModifySchedulesInBatch(c) => SchedulesInBatch(c, op3, Columns(three))
       /\ RevokeSchedulesInBatch(c) => SchedulesInBatch(c, op4, Columns(first))
  BY DEF AddSchedulesInBatch, AddSchedulesFromTemplateInBatch, ModifySchedulesInBatch,
     RevokeSchedulesInBatch
<1> HIDE DEF three, first, op1, op2, op3, op4
<1>11. ASSUME NEW d \in ScheduleRecord PROVE RightRow(op1, <<c>> \o d)
  <2>1. d[2] \in TemplateName /\ d \in [1..4 -> Fields] /\ 4 \in Nat /\ 2 <= 4
    BY <1>2, <1>4
  <2>2. QED BY ONLY <1>5, <2>1
<1>12. ASSUME NEW d \in Cut(three)
       PROVE  RightRow(op2, <<c>> \o d) /\ RightRow(op3, <<c>> \o d)
  <2>1. d[2] \in TemplateName /\ d \in [1..3 -> Fields] /\ 3 \in Nat /\ 2 <= 3
    BY <1>7, <1>8
  <2>2. QED BY ONLY <1>5, <2>1
<1>13. ASSUME NEW d \in Cut(first) PROVE RightRow(op4, <<c>> \o d)
  <2>1. d[1] \in Beneficiary /\ d \in [1..1 -> Fields] /\ 1 \in Nat /\ 1 <= 1
    BY <1>7, <1>8
  <2>2. QED BY ONLY <1>6, <2>1
<1>14. ScheduleFile \subseteq Seq(ScheduleRecord) BY WalletAssumption
<1>15. CASE AddSchedulesInBatch(c)
  BY <1>2, <1>3, <1>9, <1>10, <1>11, <1>14, <1>15, BatchesAreRight
<1>16. CASE AddSchedulesFromTemplateInBatch(c)
  BY <1>3, <1>7, <1>9, <1>10, <1>12, <1>16, BatchesAreRight
<1>17. CASE ModifySchedulesInBatch(c)
  BY <1>3, <1>7, <1>9, <1>10, <1>12, <1>17, BatchesAreRight
<1>18. CASE RevokeSchedulesInBatch(c)
  BY <1>3, <1>7, <1>9, <1>10, <1>13, <1>18, BatchesAreRight
<1>19. QED BY <1>15, <1>16, <1>17, <1>18 DEF MultipleSchedules

\* A command that is one call, or an approval and one call.
LEMMA WalletBeginsOne ==
  ASSUME WalletSessions, NEW c \in Client, NEW op \in WalletOps, op # "revokeSchedule",
         NEW row, RightRow(op, row), NEW about,
         \/ Begin(c, One(op, row), about)
         \/ \E amount : Begin(c, ApproveTokens(c, amount) \o One(op, row), about)
  PROVE  WalletSessions' /\ SameContract
<1> DEFINE list == One(op, row)
<1>1. RightCalls(c, list, about) BY OneIsRight
<1> HIDE DEF list
<1>2. CASE Begin(c, list, about) BY <1>1, <1>2, WalletBegins
<1>3. ASSUME NEW amount, Begin(c, ApproveTokens(c, amount) \o list, about)
      PROVE  WalletSessions' /\ SameContract
  <2> DEFINE approve == "approve"
             first == <<c, amount>>
             both == ApproveTokens(c, amount) \o list
  <2>1. approve \in WalletOps /\ approve # "revokeSchedule" /\ RightRow(approve, first)
    BY DEF WalletOps, RightRow
  <2>2. ApproveTokens(c, amount) = One(approve, first) BY DEF ApproveTokens
  <2> HIDE DEF approve, first
  <2>3. RightCalls(c, One(approve, first), about) BY <2>1, OneIsRight
  <2>4. RightCalls(c, both, about) BY <1>1, <2>2, <2>3, BothAreRight
  <2>5. Begin(c, both, about) BY <1>3
  <2> HIDE DEF both
  <2>6. QED BY <2>4, <2>5, WalletBegins
<1>4. QED BY <1>2, <1>3 DEF list

\* Commands whose records need to be nothing in particular.
LEMMA AnyRow ==
  ASSUME NEW row
  PROVE  \A op \in {"approve", "depositTokens", "sendToTreasury", "removeTemplate",
                   "modifySchedule", "pushAvailableTokens", "pullAvailableTokens"} :
           op \in WalletOps /\ op # "revokeSchedule" /\ RightRow(op, row)
BY DEF WalletOps, RightRow

\* What is chosen from all that was shown is what is sent.
LEMMA ChosenIsSent ==
  ASSUME NEW S, NEW list \in Seq(S), \A s \in S : s.templateName \in TemplateName,
         NEW choice \in SelectSchedule(list, FALSE)
  PROVE  choice.sent \in TemplateName /\ choice.selected = choice.sent
<1> DEFINE n == Len(list)
           R == {list[k] : k \in 1..n}
           onlyCreated == FALSE
           wanted == {s \in ToSet(list) : onlyCreated => s.created}
           shown == RowsIn(list, wanted)
<1>1. n \in Nat /\ DOMAIN list = 1..n /\ \A k \in 1..n : list[k] \in S OBVIOUS
<1>2. list \in Seq(R)
  <2>1. list \in [1..n -> R] BY <1>1
  <2> HIDE DEF n, R
  <2>2. QED BY <1>1, <2>1
<1>3. R \subseteq wanted BY <1>1 DEF ToSet
<1>4. PICK k \in DOMAIN shown :
        choice = [selected |-> shown[k].templateName, sent |-> list[k].templateName]
  BY DEF SelectSchedule
<1> HIDE DEF R, wanted, shown, n
<1>5. shown = list BY <1>2, <1>3, AllRecords DEF shown
<1>6. QED BY <1>1, <1>4, <1>5

LEMMA WalletCommands ==
  ASSUME WalletSessions, WalletBook(contract), NEW c \in Client, WalletManager(c)
  PROVE  WalletSessions' /\ SameContract
<1> DEFINE none == {}
<1>1. ASSUME NEW op \in WalletOps, op # "revokeSchedule", NEW row, RightRow(op, row),
             \/ Begin(c, One(op, row), none)
             \/ \E amount : Begin(c, ApproveTokens(c, amount) \o One(op, row), none)
      PROVE  WalletSessions' /\ SameContract
  <2> HIDE DEF none
  <2>1. QED BY <1>1, WalletBeginsOne
<1>2. /\ WalletLists(contract.wallet) /\ \A a \in GetTemplates : a.name \in TemplateName
  BY DEF WalletBook, GetTemplates
<1> HIDE DEF none
<1>3. CASE DepositFrom(c)
  <2>1. PICK amount : Begin(c, ApproveTokens(c, amount)
                                 \o One("depositTokens", <<c, amount>>), none)
    BY <1>3 DEF DepositFrom, none
  <2> DEFINE op == "depositTokens"
             row == <<c, amount>>
  <2>2. op \in WalletOps /\ op # "revokeSchedule" /\ RightRow(op, row) BY AnyRow
  <2>3. Begin(c, ApproveTokens(c, amount) \o One(op, row), none) BY <2>1
  <2> HIDE DEF op, row
  <2>4. QED BY <1>1, <2>2, <2>3
<1>4. CASE SendShownToTreasury(c)
  <2> DEFINE op == "sendToTreasury"
  <2>1. PICK amount : Begin(c, One(op, <<c, amount>>), none)
    BY <1>4 DEF SendShownToTreasury, none
  <2> DEFINE row == <<c, amount>>
  <2>2. op \in WalletOps /\ op # "revokeSchedule" /\ RightRow(op, row) BY AnyRow
  <2>3. Begin(c, One(op, row), none) BY <2>1
  <2> HIDE DEF op, row
  <2>4. QED BY <1>1, <2>2, <2>3
<1>5. CASE PullFor(c)
  <2> DEFINE op == "pullAvailableTokens"
             row == <<c>>
  <2>1. Begin(c, One(op, row), none) BY <1>5 DEF PullFor, none
  <2>2. op \in WalletOps /\ op # "revokeSchedule" /\ RightRow(op, row) BY AnyRow
  <2> HIDE DEF op, row
  <2>3. QED BY <1>1, <2>1, <2>2
<1>6. CASE ManageTemplates(c)
  <2>1. CASE AddTemplateTyped(c)
    <3> DEFINE op == "addTemplate"
    <3>1. PICK t \in TemplateName, data \in TemplateData : Begin(c, One(op, <<c, t, data>>), none)
      BY <2>1 DEF AddTemplateTyped, none
    <3> DEFINE row == <<c, t, data>>
    <3>2. op \in WalletOps /\ op # "revokeSchedule" /\ RightRow(op, row)
      BY DEF WalletOps, RightRow
    <3>3. Begin(c, One(op, row), none) BY <3>1
    <3> HIDE DEF op, row
    <3>4. QED BY <1>1, <3>2, <3>3
  <2>2. CASE RemoveTemplateSelected(c)
    <3> DEFINE op == "removeTemplate"
    <3>1. PICK template : Begin(c, One(op, <<c, template.name>>), none)
      BY <2>2 DEF RemoveTemplateSelected, none
    <3> DEFINE row == <<c, template.name>>
    <3>2. op \in WalletOps /\ op # "revokeSchedule" /\ RightRow(op, row) BY AnyRow
    <3>3. Begin(c, One(op, row), none) BY <3>1
    <3> HIDE DEF op, row
    <3>4. QED BY <1>1, <3>2, <3>3
  <2>3. QED BY <1>6, <2>1, <2>2 DEF ManageTemplates
<1>7. CASE ReadSchedules(c)
  <2> DEFINE place == "schedules"
             about(b) == {[beneficiary |-> b, schedules |-> GetSchedules(b)]}
  <2>1. PICK b \in Beneficiary : Show(c, place, about(b)) BY <1>7 DEF ReadSchedules
  <2>2. ShowsSchedules(about(b))
    <3> DEFINE names == contract.wallet.userToTemplates[b]
               list == GetSchedules(b)
               n == Len(names)
               S == {list[k] : k \in 1..n}
    <3>1. names \in Seq(TemplateName) BY <1>2 DEF WalletLists, IsNames
    <3>2. n \in Nat /\ DOMAIN names = 1..n /\ \A k \in 1..n : names[k] \in TemplateName
      BY <3>1
    <3>3. /\ list = [k \in 1..n |-> list[k]]
          /\ \A k \in 1..n : list[k].templateName = names[k]
      BY <3>2 DEF GetSchedules
    <3> HIDE DEF list, names, n
    <3>4. list \in Seq(S) BY <3>2, <3>3
    <3>5. \A s \in S : s.templateName \in TemplateName BY <3>2, <3>3
    <3>6. QED BY <3>4, <3>5 DEF ShowsSchedules, list
  <2>3. place \notin {"sending", "waiting"} OBVIOUS
  <2> HIDE DEF place, about
  <2>4. QED BY <2>1, <2>2, <2>3, WalletShows
<1>8. CASE MultipleSchedules(c) BY <1>8, WalletFiles
<1>9. CASE ReadMenu(c)
  <2> DEFINE w == contract.wallet
             place == "options"
             about == {[unassigned |-> w.unassignedTokens,
                        hasTemplates |-> w.templateNames # << >>,
                        hasSchedules |-> w.schedules[c] # << >>]}
  <2>1. place \notin {"sending", "waiting", "schedules"} OBVIOUS
  <2>2. Show(c, place, about) BY <1>9 DEF ReadMenu
  <2> HIDE DEF place, about
  <2>3. QED BY <2>1, <2>2, WalletShows
<1>10. CASE At(c, "schedules") /\ ManageSchedules(c)
  <2>1. ShowsSchedules(session[c].about) BY <1>10 DEF WalletSessions, WalletSession, At
  <2>2. PICK b, list, S :
          /\ b \in Beneficiary
          /\ session[c].about = {[beneficiary |-> b, schedules |-> list]}
          /\ list \in Seq(S) /\ \A s \in S : s.templateName \in TemplateName
    BY <2>1 DEF ShowsSchedules
  <2>3. Shown(c).beneficiary = b /\ Shown(c).schedules = list
    <3> DEFINE shown == [beneficiary |-> b, schedules |-> list]
    <3>1. shown.beneficiary = b /\ shown.schedules = list OBVIOUS
    <3>2. session[c].about = {shown} BY <2>2
    <3> HIDE DEF shown
    <3>3. Shown(c) = shown BY <3>2 DEF Shown
    <3>4. QED BY <3>1, <3>3
  <2>4. CASE AddVestingSchedule(c, b)
    <3>1. CASE \E start \in StartDate, template \in GetTemplates :
                 Begin(c, ApproveTokens(c, template.amount)
                    \o One("addScheduleFromTemplate", <<c, b, template.name, start>>), {})
      <4> DEFINE op == "addScheduleFromTemplate"
      <4>1. PICK start \in StartDate, template \in GetTemplates :
              Begin(c, ApproveTokens(c, template.amount)
                         \o One(op, <<c, b, template.name, start>>), none)
        BY <3>1 DEF none
      <4> DEFINE row == <<c, b, template.name, start>>
      <4>2. row[3] \in TemplateName BY <1>2
      <4>3. op \in WalletOps /\ op # "revokeSchedule" BY DEF WalletOps
      <4>4. RightRow(op, row)
        <5> HIDE DEF row
        <5>1. QED BY <4>2 DEF RightRow
      <4>5. Begin(c, ApproveTokens(c, template.amount) \o One(op, row), none) BY <4>1
      <4> HIDE DEF op, row
      <4>6. QED BY <1>1, <4>3, <4>4, <4>5
    <3>2. CASE \E start \in StartDate, t \in TemplateName, data \in TemplateData :
                 Begin(c, ApproveTokens(c, data.numberOfTokens)
                    \o One("addSchedule", <<c, b, t, data, start>>), {})
      <4> DEFINE op == "addSchedule"
      <4>1. PICK start \in StartDate, t \in TemplateName,
              data \in TemplateData :
              Begin(c, ApproveTokens(c, data.numberOfTokens)
                         \o One(op, <<c, b, t, data, start>>), none)
        BY <3>2 DEF none
      <4> DEFINE row == <<c, b, t, data, start>>
      <4>2. row[3] \in TemplateName OBVIOUS
      <4>3. op \in WalletOps /\ op # "revokeSchedule" BY DEF WalletOps
      <4>4. RightRow(op, row)
        <5> HIDE DEF row
        <5>1. QED BY <4>2 DEF RightRow
      <4>5. Begin(c, ApproveTokens(c, data.numberOfTokens) \o One(op, row), none) BY <4>1
      <4> HIDE DEF op, row
      <4>6. QED BY <1>1, <4>3, <4>4, <4>5
    <3>3. QED BY <2>4, <3>1, <3>2 DEF AddVestingSchedule
  <2>5. CASE ModifySelected(c, b)
    <3> DEFINE op == "modifySchedule"
    <3>1. PICK choice, start :
            Begin(c, One(op, <<c, b, choice.sent, start>>), Chosen(b, choice))
      BY <2>3, <2>5 DEF ModifySelected
    <3> DEFINE row == <<c, b, choice.sent, start>>
               about == Chosen(b, choice)
    <3>2. op \in WalletOps /\ op # "revokeSchedule" /\ RightRow(op, row) BY AnyRow
    <3>3. Begin(c, One(op, row), about) BY <3>1
    <3> HIDE DEF op, row, about
    <3>4. QED BY <3>2, <3>3, WalletBeginsOne
  <2>6. CASE RevokeSelected(c, b)
    <3> DEFINE op == "revokeSchedule"
    <3>1. PICK choice \in SelectSchedule(list, FALSE) :
            Begin(c, One(op, <<c, b, choice.sent>>), Chosen(b, choice))
      BY <2>3, <2>6 DEF RevokeSelected
    <3> DEFINE t == choice.sent
               row == <<c, b, t>>
               about == {[beneficiary |-> b, templateName |-> t]}
    <3>2. t \in TemplateName /\ choice.selected = t BY <2>2, <3>1, ChosenIsSent
    <3>3. Chosen(b, choice) = about BY <3>2 DEF Chosen
    <3>4. op \in WalletOps /\ RightRow(op, row)
      <4> HIDE DEF t
      <4>1. row[2] \in Beneficiary /\ row[3] \in TemplateName BY <2>2, <3>2
      <4> HIDE DEF row
      <4>2. QED BY <4>1 DEF WalletOps, RightRow
    <3>5. row = <<c, b, t>> OBVIOUS
    <3>6. Begin(c, One(op, row), about)
      <4> HIDE DEF op, about
      <4>1. QED BY <3>1, <3>3
    <3> HIDE DEF row, t, op
    <3>7. RightCalls(c, One(op, row), about)
      <4>1. \E x \in Beneficiary, y \in TemplateName :
              row = <<c, x, y>> /\ about = {[beneficiary |-> x, templateName |-> y]}
        BY <2>2, <3>2, <3>5
      <4> HIDE DEF about
      <4>2. QED BY <3>4, <4>1, OneIsRight
    <3> HIDE DEF about
    <3> DEFINE calls == One(op, row)
    <3> HIDE DEF calls
    <3>8. RightCalls(c, calls, about) /\ Begin(c, calls, about)
      BY <3>6, <3>7 DEF calls
    <3>9. QED BY <3>8, WalletBegins
  <2>7. CASE RevokeAllOf(c, b)
    <3> DEFINE op == "revokeAllSchedules"
               row == <<c, b>>
    <3>1. Begin(c, One(op, row), none) BY <2>7 DEF RevokeAllOf, none
    <3>2. op \in WalletOps /\ op # "revokeSchedule" /\ RightRow(op, row)
      BY <2>2 DEF WalletOps, RightRow
    <3> HIDE DEF op, row
    <3>3. QED BY <1>1, <3>1, <3>2
  <2>8. CASE PushTo(c, b)
    <3> DEFINE op == "pushAvailableTokens"
               row == <<c, b>>
    <3>1. Begin(c, One(op, row), none) BY <2>8 DEF PushTo, none
    <3>2. op \in WalletOps /\ op # "revokeSchedule" /\ RightRow(op, row) BY AnyRow
    <3> HIDE DEF op, row
    <3>3. QED BY <1>1, <3>1, <3>2
  <2>9. QED BY <1>10, <2>3, <2>4, <2>5, <2>6, <2>7, <2>8 DEF ManageSchedules
<1>11. QED
  BY <1>3, <1>4, <1>5, <1>6, <1>7, <1>8, <1>9, <1>10 DEF WalletManager

-----------------------------------------------------------------------------
(* Schedules are revoked by name.                                          *)

\* A call that revokes is mined, while its program waits for it.
SelectedIsRevoked ==
  \A c \in ChosenCalls("revokeSchedule") :
    mempool'[c] = {} =>
      \A b \in Beneficiary, t \in TemplateName :
        (HasSchedule(contract.wallet, b, t) /\ ~HasSchedule(contract'.wallet, b, t))
          => IsChosen(c, b, t)

LEMMA WalletNext ==
  ASSUME WalletInv, [Next]_sessionVars
  PROVE  WalletInv' /\ (current = "wallet" => SelectedIsRevoked)
<1>1. current' = current BY ModuleStays
<1>2. CASE current # "wallet" BY <1>1, <1>2 DEF WalletInv
<1>3. CASE current = "wallet"
  <2>1. WalletBook(contract) /\ WalletSessions BY <1>3 DEF WalletInv
  <2>2. contract' = contract => SelectedIsRevoked /\ WalletBook(contract')
    BY <2>1 DEF SelectedIsRevoked
  <2>3. ASSUME WalletBook(contract'), WalletSessions', SelectedIsRevoked
        PROVE  WalletInv' /\ (current = "wallet" => SelectedIsRevoked)
    BY <2>3 DEF WalletInv
  <2>4. CASE \E c \in Client : Kill(c)
    <3>1. PICK c \in Client : Kill(c) BY <2>4
    <3> DEFINE place == "menu"
               none == {}
               s == Place(place, none)
    <3>2. session' = [session EXCEPT ![c] = s] /\ mempool' = mempool /\ contract' = contract
      BY <3>1 DEF Kill, Throw, Leave, AtMenu
    <3>3. place \notin {"sending", "waiting", "schedules"} OBVIOUS
    <3> HIDE DEF place, none
    <3>4. WalletSession(c, s, mempool[c]) BY <2>1, <3>3, WalletPlace
    <3> HIDE DEF s
    <3>5. WalletSessions' BY <2>1, <3>2, <3>4, OneWalletSession
    <3>6. QED BY <2>2, <2>3, <3>2, <3>5
  <2>5. CASE UNCHANGED sessionVars \/ Tick
    <3>1. UNCHANGED <<contract, session, mempool>> BY <2>5 DEF Tick, sessionVars
    <3>2. WalletSessions' BY <2>1, <3>1 DEF WalletSessions
    <3>3. QED BY <2>2, <2>3, <3>1, <3>2
  <2>6. ASSUME NEW c \in Client, WalletStep(c)
        PROVE  WalletInv' /\ (current = "wallet" => SelectedIsRevoked)
    <3>1. CASE WalletManager(c)
      <4>1. WalletSessions' /\ contract' = contract
        BY <2>1, <3>1, WalletCommands DEF SameContract
      <4>2. QED BY <2>2, <2>3, <4>1
    <3>2. CASE Send(c, WalletCallAfter(ToSend(c)))
      <4> DEFINE outcomes == WalletCallAfter(ToSend(c))
      <4> HIDE DEF outcomes
      <4>1. Send(c, outcomes) BY <3>2 DEF outcomes
      <4>2. WalletSessions' /\ contract' = contract
        BY <2>1, <4>1, WalletSends DEF SameContract
      <4>3. QED BY <2>2, <2>3, <4>2
    <3>3. ASSUME NEW call \in mempool[c], Mine(c, WalletCallAfter(call))
          PROVE  WalletInv' /\ (current = "wallet" => SelectedIsRevoked)
      <4> DEFINE outcomes == WalletCallAfter(call)
      <4> HIDE DEF outcomes
      <4>1. Mine(c, outcomes) BY <3>3 DEF outcomes
      <4>2. /\ WalletSessions' /\ (contract' \in outcomes \/ contract' = contract)
            /\ \A d \in Client \ {c} : mempool'[d] = mempool[d]
        BY <2>1, <4>1, WalletMines
      <4>3. CASE contract' = contract BY <2>2, <2>3, <4>2, <4>3
      <4>4. CASE contract' \in outcomes
        <5>1. WalletSession(c, session[c], mempool[c]) BY <2>1 DEF WalletSessions
        <5>2. PICK about : RightCall(c, call, about) BY <5>1 DEF WalletSession
        <5>3. call.op \in WalletOps /\ RightRows(call.op, call.rows)
          BY <5>2 DEF RightCall
        <5>4. /\ WalletBook(contract')
              /\ \A row : call.op = "revokeSchedule" /\ call.rows = <<row>> =>
                            OnlyLost(contract.wallet, contract'.wallet, row[2], row[3])
          BY <2>1, <4>4, <5>3, WalletCallKeeps DEF outcomes
        <5>5. SelectedIsRevoked
          <6> SUFFICES ASSUME NEW d \in ChosenCalls("revokeSchedule"), mempool'[d] = {},
                              NEW b \in Beneficiary, NEW t \in TemplateName,
                              HasSchedule(contract.wallet, b, t),
                              ~HasSchedule(contract'.wallet, b, t)
                       PROVE  IsChosen(d, b, t)
            BY DEF SelectedIsRevoked
          <6>1. d \in Client /\ session[d].at = "waiting"
                /\ \E x \in mempool[d] : x.op = "revokeSchedule"
            BY DEF ChosenCalls, At
          <6>2. d = c BY <4>2, <6>1
          <6>3. /\ mempool[c] \subseteq {Head(session[c].calls)}
                /\ RightCall(c, Head(session[c].calls), session[c].about)
            BY <5>1, <6>1, <6>2, HeadIsRight DEF WalletSession
          <6>4. call = Head(session[c].calls) /\ call.op = "revokeSchedule"
            BY <6>1, <6>2, <6>3
          <6>5. PICK x \in Beneficiary, y \in TemplateName :
                  /\ call.rows = <<<<c, x, y>>>>
                  /\ session[c].about = {[beneficiary |-> x, templateName |-> y]}
            BY <6>3, <6>4 DEF RightCall
          <6> DEFINE row == <<c, x, y>>
          <6>6. row[2] = x /\ row[3] = y /\ call.rows = <<row>> BY <6>5
          <6> HIDE DEF row
          <6>7. OnlyLost(contract.wallet, contract'.wallet, x, y)
            BY <5>4, <6>4, <6>6
          <6>8. b = x /\ t = y BY <6>7 DEF OnlyLost
          <6>9. QED BY <6>2, <6>5, <6>8 DEF IsChosen
        <5>6. QED BY <2>3, <4>2, <5>4, <5>5
      <4>5. QED BY <4>2, <4>3, <4>4
    <3>4. QED BY <2>6, <3>1, <3>2, <3>3 DEF WalletStep
  <2>7. QED BY <1>3, <2>4, <2>5, <2>6, StepsOf
<1>4. QED BY <1>2, <1>3

LEMMA WalletAtFirst == Init => WalletInv
<1> SUFFICES ASSUME Init, current = "wallet" PROVE WalletBook(contract) /\ WalletSessions
  BY DEF WalletInv
<1>1. WalletInit /\ SessionInit
  BY DEF Init, ConfigExistingModules, ListsInit, ApprovalsInit, RestrictionsInit, GeneralInit,
     LimitsInit, RegistryInit, PermissionsInit, ModulesInit, IssuanceInit, Lists
<1>2. WalletBook(contract)
  <2>1. PICK w \in Deposit(NewWallet, MaxTokens) :
          contract = [wallet |-> w, allowance |-> [c \in Client |-> 0], added |-> {}]
    BY <1>1 DEF WalletInit
  <2>2. WalletLists(NewWallet)
    <3>1. << >> \in Seq(TemplateName) OBVIOUS
    <3>2. IsSchedules(<< >>) /\ IsNames(<< >>) BY <3>1, EmptyIsSchedules DEF IsNames
    <3>3. QED BY <3>2 DEF WalletLists, NewWallet
  <2>3. WalletLists(w) BY <2>1, <2>2, QuietOperations, SameListsKeep
  <2>4. QED BY <2>1, <2>3 DEF WalletBook
<1>3. ASSUME NEW c \in Client PROVE WalletSession(c, session[c], mempool[c])
  <2> DEFINE s == session[c]
             none == {}
  <2>1. s = Place("menu", {}) /\ mempool[c] = none BY <1>1 DEF SessionInit, AtMenu
  <2>2. /\ {"at", "calls", "about", "then"} \subseteq DOMAIN s
        /\ s.at = "menu" /\ s.calls = << >>
    BY <2>1 DEF Place
  <2> HIDE DEF s
  <2>3. RightCalls(c, s.calls, s.about) BY <2>2, NoCallsAreRight
  <2>4. QED BY <2>1, <2>2, <2>3 DEF WalletSession, s
<1>4. QED BY <1>1, <1>2, <1>3 DEF WalletSessions, SessionInit

\* wallet_manager.js sends the name of the schedule that its operator chose, and
\* the wallet revokes by name: whatever others add and revoke between reading, sending
\* and mining, and wherever the arrays are moved, nobody loses another schedule.
THEOREM OnlySelectedAlwaysRevoked == Spec => OnlySelectedIsRevoked
<1>1. WalletInv /\ [Next]_sessionVars
        => [current = "wallet" =>
              \A c \in ChosenCalls("revokeSchedule") :
                mempool'[c] = {} =>
                  \A b \in Beneficiary, t \in TemplateName :
                    (HasSchedule(contract.wallet, b, t)
                       /\ ~HasSchedule(contract'.wallet, b, t)) => IsChosen(c, b, t)]_sessionVars
  BY WalletNext DEF SelectedIsRevoked
<1>2. WalletInv /\ [Next]_sessionVars => WalletInv' BY WalletNext
<1>3. QED BY <1>1, <1>2, WalletAtFirst, PTL DEF Spec, OnlySelectedIsRevoked

-----------------------------------------------------------------------------
(* Issuing tokens: what the batches of a file are.                         *)

LEMMA BatchesFollow ==
  ASSUME NEW n \in Nat, NEW size \in Nat \ {0}
  PROVE  \A k \in 1..BatchCount(n, size) :
           BatchEnd(n, size, k) = IF k = BatchCount(n, size) THEN n ELSE k * size
<1> DEFINE a == n + size - 1
           q == a \div size
           all == q * size
<1>1. a \in Nat OBVIOUS
<1>2. q \in Nat /\ all <= a /\ a < all + size BY <1>1, DivisionBelow
<1>3. q = BatchCount(n, size) BY DEF BatchCount
<1>4. all \in Nat BY <1>2
<1> SUFFICES ASSUME NEW k \in 1..q
             PROVE  BatchEnd(n, size, k) = IF k = q THEN n ELSE k * size
  BY <1>3
<1> HIDE DEF q
<1> DEFINE m == k * size
<1>5. m \in Nat OBVIOUS
<1>6. CASE k = q
  <2>1. m = all BY <1>6
  <2> HIDE DEF m, all
  <2>2. m >= n BY <1>2, <1>4, <2>1
  <2>3. BatchEnd(n, size, k) = IF m <= n THEN m ELSE n BY DEF BatchEnd, m
  <2>4. QED BY <1>5, <1>6, <2>2, <2>3
<1>7. CASE k # q
  <2>1. q - 1 - k \in Nat BY <1>2, <1>7
  <2>2. (q - 1 - k) * size \in Nat BY <2>1
  <2>3. (q - 1 - k) * size = all - size - m BY <1>2
  <2> HIDE DEF m, all
  <2>4. m <= n BY <1>2, <1>4, <1>5, <2>2, <2>3
  <2>5. BatchEnd(n, size, k) = IF m <= n THEN m ELSE n BY DEF BatchEnd, m
  <2>6. QED BY <1>7, <2>4, <2>5 DEF m
<1>8. QED BY <1>6, <1>7

\* The call for token k with the records of a file from number p up to number q.
Slice(G, k, p, q) ==
  [op |-> "issue", rows |-> [r \in 1..q - p |-> <<k>> \o G[p + r - 1]]]

\* Calls that go on where the one before ended; call i begins with record at[i].
Slices(G, k, at, calls) ==
  /\ at \in [1..Len(calls) + 1 -> 1..Len(G) + 1]
  /\ \A i \in 1..Len(calls) :
       at[i] <= at[i + 1] /\ calls[i] = Slice(G, k, at[i], at[i + 1])

Recipient == Receiver \cup InFile

LEMMA FileRecords ==
  ASSUME NEW G \in IssueFile
  PROVE  /\ G \in Seq(Recipient \X Nat) /\ Len(G) \in Nat /\ DOMAIN G = 1..Len(G)
         /\ \A r \in 1..Len(G) : /\ G[r] = <<G[r][1], G[r][2]>>
                                 /\ G[r][1] \in Recipient /\ G[r][2] \in Nat
<1>1. G \in Seq(InFile \X Nat) BY IssuanceAssumption
<1>2. \A r \in 1..Len(G) : G[r] \in InFile \X Nat BY <1>1
<1>3. InFile \X Nat \subseteq Recipient \X Nat BY DEF Recipient
<1>4. G \in Seq(Recipient \X Nat)
  <2>1. G \in [1..Len(G) -> Recipient \X Nat] /\ Len(G) \in Nat BY <1>1, <1>2, <1>3
  <2>2. QED BY <2>1
<1>5. QED BY <1>1, <1>2, <1>4 DEF Recipient

\* What multiIssue sends of a file, for token k.
RowsFor(k, G) == [r \in DOMAIN G |-> <<k>> \o G[r]]

LEMMA RowsOfFile ==
  ASSUME NEW G \in IssueFile, NEW k
  PROVE  /\ \A r \in 1..Len(G) : <<k>> \o G[r] = <<k, G[r][1], G[r][2]>>
         /\ RowsFor(k, G) \in Seq({k} \X Recipient \X Nat) /\ Len(RowsFor(k, G)) = Len(G)
<1> DEFINE n == Len(G)
           Row == {k} \X Recipient \X Nat
<1>1. /\ n \in Nat /\ DOMAIN G = 1..n
      /\ \A r \in 1..n : /\ G[r] = <<G[r][1], G[r][2]>>
                         /\ G[r][1] \in Recipient /\ G[r][2] \in Nat
  BY FileRecords
<1>2. ASSUME NEW i, NEW a PROVE <<k>> \o <<i, a>> = <<k, i, a>>
  <2> DEFINE S == {k, i, a}
             u == <<k>>
             v == <<i, a>>
             w == <<k, i, a>>
  <2>1. k \in S /\ i \in S /\ a \in S OBVIOUS
  <2> HIDE DEF S
  <2>2. u \in Seq(S) /\ Len(u) = 1 /\ u[1] = k BY <2>1
  <2>3. v \in Seq(S) /\ Len(v) = 2 /\ v[1] = i /\ v[2] = a BY <2>1
  <2>4. w \in Seq(S) /\ Len(w) = 3 /\ w[1] = k /\ w[2] = i /\ w[3] = a BY <2>1
  <2> HIDE DEF u, v, w
  <2>5. /\ u \o v \in Seq(S) /\ Len(u \o v) = 3
        /\ (u \o v)[1] = k /\ (u \o v)[2] = i /\ (u \o v)[3] = a
    <3> DEFINE both == u \o v
    <3>1. /\ both \in Seq(S) /\ Len(both) = Len(u) + Len(v)
          /\ \A j \in 1..Len(u) : both[j] = u[j]
          /\ \A j \in 1..(Len(u) + Len(v)) : j > Len(u) => both[j] = v[j - Len(u)]
      BY <2>2, <2>3, Joined
    <3> HIDE DEF both
    <3>2. Len(both) = 3 BY <2>2, <2>3, <3>1
    <3>3. both[1] = k BY <2>2, <3>1
    <3>4. both[2] = v[1] BY <2>2, <2>3, <3>1
    <3>5. both[3] = v[2] BY <2>2, <2>3, <3>1
    <3>6. QED BY <2>3, <3>1, <3>2, <3>3, <3>4, <3>5 DEF both
  <2>6. \A j \in 1..3 : (u \o v)[j] = w[j]
    <3>1. \A j \in 1..3 : j = 1 \/ j = 2 \/ j = 3 OBVIOUS
    <3>2. QED BY <2>4, <2>5, <3>1
  <2>7. u \o v = w BY <2>4, <2>5, <2>6
  <2>8. QED BY <2>7 DEF u, v, w
<1>3. \A r \in 1..n : <<k>> \o G[r] = <<k, G[r][1], G[r][2]>> BY <1>1, <1>2
<1>4. \A r \in 1..n : <<k>> \o G[r] \in Row BY <1>1, <1>3
<1>5. RowsFor(k, G) \in [1..n -> Row] BY <1>1, <1>4 DEF RowsFor
<1> HIDE DEF n, Row
<1>6. RowsFor(k, G) \in Seq(Row) /\ Len(RowsFor(k, G)) = n BY <1>1, <1>5
<1>7. QED BY <1>3, <1>6 DEF n, Row

LEMMA FileIsSlices ==
  ASSUME NEW G \in IssueFile, NEW k, NEW size \in Nat \ {0},
         NEW calls, calls = CallsOf("issue", RowsFor(k, G), size)
  PROVE  /\ \E S : calls \in Seq(S)
         /\ \E at : at[1] = 1 /\ Slices(G, k, at, calls)
<1> DEFINE n == Len(G)
           Row == {k} \X Recipient \X Nat
           Entry == {k} \cup Recipient \cup Nat
           rows == RowsFor(k, G)
           count == BatchCount(n, size)
           first(i) == (i - 1) * size + 1
           last(i) == BatchEnd(n, size, i)
           call(i) == [op |-> "issue", rows |-> SubSeq(rows, first(i), last(i))]
           at == [i \in 1..count + 1 |-> IF i = count + 1 THEN n + 1 ELSE first(i)]
<1>1. n \in Nat /\ rows \in Seq(Row) /\ Len(rows) = n /\ DOMAIN G = 1..n
  BY FileRecords, RowsOfFile
<1>2. /\ count \in Nat
      /\ \A i \in 1..count : first(i) \in 1..n /\ last(i) \in first(i)..n
  BY <1>1, BatchBounds
<1>3. \A i \in 1..count : last(i) = IF i = count THEN n ELSE i * size
  BY <1>1, BatchesFollow
<1>4. calls = [i \in 1..count |-> call(i)]
  <2>1. Row \subseteq [1..3 -> Entry]
    <3> SUFFICES ASSUME NEW i \in Recipient, NEW a \in Nat
                 PROVE  <<k, i, a>> \in [1..3 -> Entry]
      OBVIOUS
    <3>1. k \in Entry /\ i \in Entry /\ a \in Entry OBVIOUS
    <3> HIDE DEF Entry
    <3>2. <<k, i, a>> \in Seq(Entry) /\ Len(<<k, i, a>>) = 3 BY <3>1
    <3>3. QED BY <3>2
  <2> DEFINE width == 3
             op == "issue"
  <2>2. width \in Nat \ {0} /\ Row \subseteq [1..width -> Entry] BY <2>1
  <2> HIDE DEF Row, Entry, rows, n, width, op
  <2>3. rows \in Seq(Row) /\ size \in Nat \ {0} BY <1>1
  <2>4. /\ CallsOf(op, rows, size) \in Seq(CallOf(op, Row))
        /\ Len(CallsOf(op, rows, size)) = BatchCount(Len(rows), size)
        /\ \A i \in 1..BatchCount(Len(rows), size) :
             CallsOf(op, rows, size)[i] = PartOf(op, rows, size, i)
    BY ONLY <2>2, <2>3, CallsOfFile
  <2>5. calls = CallsOf(op, rows, size) BY DEF rows, op
  <2>6. Len(rows) = n BY <1>1
  <2>7. \A i \in 1..count : calls[i] = call(i) BY <2>4, <2>5, <2>6 DEF PartOf, op
  <2>8. calls \in Seq(CallOf(op, Row)) /\ Len(calls) = count BY <2>4, <2>5, <2>6
  <2> HIDE DEF count, call
  <2>9. calls = [i \in 1..count |-> calls[i]] BY <2>8
  <2>10. QED BY <2>7, <2>9
<1>5. ASSUME NEW i \in 1..count
      PROVE  at[i] = first(i) /\ at[i + 1] = last(i) + 1
  <2>1. i \in 1..count + 1 /\ i # count + 1 /\ i + 1 \in 1..count + 1 BY <1>2
  <2>2. at[i] = first(i) BY <2>1
  <2>3. i * size \in Nat /\ first(i + 1) = i * size + 1 OBVIOUS
  <2> HIDE DEF first, last
  <2>4. CASE i = count
    <3>1. at[i + 1] = n + 1 BY <2>1, <2>4
    <3> HIDE DEF at
    <3>2. QED BY <1>3, <2>2, <2>4, <3>1
  <2>5. CASE i # count
    <3>1. i + 1 # count + 1 BY <1>2, <2>5
    <3>2. at[i + 1] = first(i + 1) BY <2>1, <3>1
    <3> HIDE DEF at
    <3>3. QED BY <1>3, <2>2, <2>3, <2>5, <3>2
  <2>6. QED BY <2>4, <2>5
<1>6. ASSUME NEW i \in 1..count
      PROVE  at[i] <= at[i + 1] /\ calls[i] = Slice(G, k, at[i], at[i + 1])
  <2> DEFINE p == first(i)
             q == last(i)
             part == SubSeq(rows, p, q)
             slice == [r \in 1..q + 1 - p |-> <<k>> \o G[p + r - 1]]
  <2>1. at[i] = p /\ at[i + 1] = q + 1 /\ p \in 1..n /\ q \in p..n BY <1>2, <1>5
  <2>2. \A r \in 1..n : rows[r] = <<k>> \o G[r] BY <1>1 DEF RowsFor
  <2>3. calls[i] = [op |-> "issue", rows |-> part] BY <1>4
  <2> HIDE DEF at, p, q, rows, call, first, last
  <2>4. part = [r \in 1..q - p + 1 |-> rows[p + r - 1]]
    BY <1>1, <2>1 DEF SubSeq
  <2>5. part = slice
    <3>1. q - p + 1 = q + 1 - p BY <1>1, <2>1
    <3>2. \A r \in 1..q + 1 - p : p + r - 1 \in 1..n BY <1>1, <2>1
    <3> HIDE DEF part
    <3>3. QED BY <2>2, <2>4, <3>1, <3>2
  <2> HIDE DEF part, slice
  <2>6. calls[i] = Slice(G, k, p, q + 1)
    <3> DEFINE end == q + 1
    <3>1. Slice(G, k, p, end)
            = [op |-> "issue", rows |-> [r \in 1..end - p |-> <<k>> \o G[p + r - 1]]]
      BY DEF Slice
    <3>2. end - p = q + 1 - p BY <1>1, <2>1
    <3> HIDE DEF end
    <3>3. [r \in 1..end - p |-> <<k>> \o G[p + r - 1]] = slice BY <3>2 DEF slice
    <3>4. QED BY <2>3, <2>5, <3>1, <3>3 DEF end
  <2>7. p <= q + 1 BY <1>1, <2>1
  <2>8. QED BY <2>1, <2>6, <2>7
<1>7. calls \in Seq({call(i) : i \in 1..count}) /\ Len(calls) = count
  <2> DEFINE S == {call(i) : i \in 1..count}
  <2>1. calls \in [1..count -> S] BY <1>4
  <2> HIDE DEF S, count, call
  <2>2. calls \in Seq(S) /\ Len(calls) = count BY <1>2, <2>1
  <2>3. QED BY <2>2 DEF S
<1>8. at \in [1..count + 1 -> 1..n + 1]
  <2>1. \A i \in 1..count + 1 : i = count + 1 \/ i \in 1..count BY <1>2
  <2>2. \A i \in 1..count : first(i) \in 1..n + 1 BY <1>1, <1>2
  <2>3. n + 1 \in 1..n + 1 BY <1>1
  <2> HIDE DEF first, count, n
  <2>4. QED BY <2>1, <2>2, <2>3
<1>9. at[1] = 1
  <2>1. 1 \in 1..count + 1 BY <1>2
  <2>2. first(1) = 1 OBVIOUS
  <2>3. CASE count = 0
    <3>1. n = 0
      <4>1. BatchCount(n, size) = (n + size - 1) \div size BY DEF BatchCount
      <4> DEFINE a == n + size - 1
      <4>2. a \in Nat BY <1>1
      <4>3. a \div size = 0 BY <2>3, <4>1
      <4> HIDE DEF a
      <4>4. a < (a \div size) * size + size BY <4>2, DivisionBelow
      <4>5. a < size BY <4>3, <4>4
      <4>6. QED BY <1>1, <4>5 DEF a
    <3>2. QED BY <2>1, <2>3, <3>1
  <2>4. CASE count # 0
    <3>1. 1 # count + 1 BY <1>2, <2>4
    <3>2. QED BY <2>1, <2>2, <3>1
  <2>5. QED BY <2>3, <2>4
<1> HIDE DEF at, call, count, n
<1>10. Slices(G, k, at, calls) BY <1>6, <1>7, <1>8 DEF Slices, n
<1>11. QED BY <1>7, <1>9, <1>10

-----------------------------------------------------------------------------
(* What a record does to the tokens.                                       *)

TokenState ==
  [frozen : BOOLEAN, issuable : BOOLEAN, verified : SUBSET Recipient,
   issued : [Recipient -> Nat]]

IssuanceBooks(o) == [owner : {o}, tokens : Seq(TokenState)]

IssuanceOps ==
  {"issue", "freezeTransfers", "unfreezeTransfers", "freezeIssuance",
   "refreshSecurityToken"}

\* Records for token k, issuing to any of these.
IssuanceRows(op, k, Who) == IF op = "issue" THEN {k} \X Who \X Nat ELSE {<<k>>}

LEMMA TokenIsNew ==
  /\ Token \in TokenState
  /\ \A i \in Recipient : Token.issued[i] = 0
BY DEF Token, TokenState, Recipient

LEMMA TokenChanges ==
  ASSUME NEW o, NEW x \in IssuanceBooks(o), NEW k,
         NEW t, k \in 1..Len(x.tokens) => t \in TokenState
  PROVE  /\ Put(x, k, t) \in IssuanceBooks(o)
         /\ Len(Put(x, k, t).tokens) = Len(x.tokens)
         /\ \A j \in 1..Len(x.tokens) :
              Put(x, k, t).tokens[j] = IF j = k THEN t ELSE x.tokens[j]
<1> DEFINE list == [x.tokens EXCEPT ![k] = t]
           n == Len(x.tokens)
<1>1. n \in Nat /\ x.tokens \in [1..n -> TokenState]
  <2>1. x.tokens \in Seq(TokenState) BY DEF IssuanceBooks
  <2>2. QED BY <2>1
<1>2. k \in 1..n => t \in TokenState OBVIOUS
<1>3. Put(x, k, t) = [x EXCEPT !.tokens = list] BY DEF Put
<1> HIDE DEF n
<1>4. /\ list \in [1..n -> TokenState]
      /\ \A j \in 1..n : list[j] = IF j = k THEN t ELSE x.tokens[j]
  BY <1>1, <1>2
<1> HIDE DEF list
<1>5. list \in Seq(TokenState) /\ Len(list) = n BY <1>1, <1>4
<1>6. Put(x, k, t) \in IssuanceBooks(o) /\ Put(x, k, t).tokens = list
  BY <1>3, <1>5 DEF IssuanceBooks
<1>7. QED BY <1>4, <1>5, <1>6 DEF n

LEMMA IssueRecord ==
  ASSUME NEW o, NEW x \in IssuanceBooks(o), NEW k, NEW i \in Recipient, NEW a \in Nat,
         NEW y \in IssuanceChange(x, "issue", <<k, i, a>>)
  PROVE  /\ y \in IssuanceBooks(o) /\ Len(y.tokens) = Len(x.tokens)
         /\ \A j \in 1..Len(x.tokens) :
              y.tokens[j].issued =
                IF j = k THEN [x.tokens[j].issued EXCEPT ![i] = @ + a]
                ELSE x.tokens[j].issued
<1> DEFINE t == x.tokens[k]
           more == [t.issued EXCEPT ![i] = @ + a]
           u == [t EXCEPT !.issued = more]
<1>1. y \in Issue(x, k, i, a) BY DEF IssuanceChange
<1>2. y = Put(x, k, u) BY <1>1 DEF Issue
<1>3. k \in 1..Len(x.tokens) => u \in TokenState /\ u.issued = more
  <2> SUFFICES ASSUME k \in 1..Len(x.tokens) PROVE u \in TokenState /\ u.issued = more
    OBVIOUS
  <2>1. t \in TokenState
    <3>1. x.tokens \in Seq(TokenState) BY DEF IssuanceBooks
    <3>2. QED BY <3>1
  <2>2. t.issued \in [Recipient -> Nat] BY <2>1 DEF TokenState
  <2>3. t.issued[i] + a \in Nat BY <2>2
  <2>4. more \in [Recipient -> Nat] BY <2>2, <2>3
  <2> HIDE DEF more, t
  <2>5. QED BY <2>1, <2>4 DEF TokenState
<1> HIDE DEF u
<1>4. /\ y \in IssuanceBooks(o) /\ Len(y.tokens) = Len(x.tokens)
      /\ \A j \in 1..Len(x.tokens) : y.tokens[j] = IF j = k THEN u ELSE x.tokens[j]
  BY <1>2, <1>3, TokenChanges
<1>5. QED BY <1>3, <1>4

\* Freezing changes nothing that was issued, and of a new token nothing was.
LEMMA QuietRecord ==
  ASSUME NEW o, NEW x \in IssuanceBooks(o), NEW op \in IssuanceOps \ {"issue"}, NEW k,
         NEW y \in IssuanceChange(x, op, <<k>>)
  PROVE  /\ y \in IssuanceBooks(o)
         /\ \A j \in 1..Len(y.tokens) :
              \/ y.tokens[j] = Token
              \/ /\ j \in 1..Len(x.tokens)
                 /\ y.tokens[j].issued = x.tokens[j].issued
<1> DEFINE Quiet == /\ y \in IssuanceBooks(o)
                    /\ \A j \in 1..Len(y.tokens) :
                         \/ y.tokens[j] = Token
                         \/ /\ j \in 1..Len(x.tokens)
                            /\ y.tokens[j].issued = x.tokens[j].issued
<1> SUFFICES Quiet OBVIOUS
<1>1. x.tokens \in Seq(TokenState) BY DEF IssuanceBooks
<1>8. k \in 1..Len(x.tokens) => x.tokens[k] \in TokenState BY <1>1
<1>2. ASSUME NEW u, k \in 1..Len(x.tokens) => u \in TokenState /\ u.issued = x.tokens[k].issued,
             y = Put(x, k, u)
      PROVE  Quiet
  <2>1. /\ y \in IssuanceBooks(o) /\ Len(y.tokens) = Len(x.tokens)
        /\ \A j \in 1..Len(x.tokens) : y.tokens[j] = IF j = k THEN u ELSE x.tokens[j]
    BY <1>2, TokenChanges
  <2>2. QED BY <1>2, <2>1
<1>3. ASSUME NEW frozen \in BOOLEAN, y \in SetFrozen(x, k, frozen) PROVE Quiet
  <2> DEFINE u == [x.tokens[k] EXCEPT !.frozen = frozen]
  <2>1. y = Put(x, k, u) BY <1>3 DEF SetFrozen
  <2>2. k \in 1..Len(x.tokens) => u \in TokenState /\ u.issued = x.tokens[k].issued
    BY <1>8 DEF TokenState
  <2> HIDE DEF u, Quiet
  <2>3. QED BY <1>2, <2>1, <2>2
<1>4. CASE op = "freezeTransfers" \/ op = "unfreezeTransfers"
  <2>1. \E frozen \in BOOLEAN : y \in SetFrozen(x, k, frozen)
    BY <1>4 DEF IssuanceChange
  <2> HIDE DEF Quiet
  <2>2. QED BY <1>3, <2>1
<1>5. CASE op = "freezeIssuance"
  <2> DEFINE u == [x.tokens[k] EXCEPT !.issuable = FALSE]
  <2>1. y = Put(x, k, u) BY <1>5 DEF IssuanceChange, FreezeIssuance
  <2>2. k \in 1..Len(x.tokens) => u \in TokenState /\ u.issued = x.tokens[k].issued
    BY <1>8 DEF TokenState
  <2> HIDE DEF u, Quiet
  <2>3. QED BY <1>2, <2>1, <2>2
<1>6. CASE op = "refreshSecurityToken"
  <2> DEFINE list == Append(x.tokens, Token)
             n == Len(x.tokens)
  <2>1. y = [x EXCEPT !.tokens = list] BY <1>6 DEF IssuanceChange, RefreshSecurityToken
  <2>2. n \in Nat BY <1>1
  <2>3. /\ list \in Seq(TokenState) /\ Len(list) = n + 1
        /\ \A j \in 1..n + 1 : list[j] = IF j = n + 1 THEN Token ELSE x.tokens[j]
    BY <1>1, TokenIsNew
  <2> HIDE DEF list
  <2>4. y \in IssuanceBooks(o) /\ y.tokens = list BY <2>1, <2>3 DEF IssuanceBooks
  <2>5. \A j \in 1..n + 1 : j = n + 1 \/ j \in 1..n BY <2>2
  <2>6. QED BY <2>3, <2>4, <2>5
<1>7. QED BY <1>4, <1>5, <1>6 DEF IssuanceOps

-----------------------------------------------------------------------------
(* The order of a file.                                                    *)

OrderlyFile == {data \in IssueFile : OnlyHere(data)}

TurnsInOrder(t, G) ==
  \A r, later \in DOMAIN G : r < later => Turns(t, G[later]) <= Turns(t, G[r])

\* Those before record p had a turn more than those from p on.
Ahead(t, G, p) ==
  \A r, later \in DOMAIN G : (r < p /\ p <= later) => Turns(t, G[later]) < Turns(t, G[r])

\* Investors that get tokens by this file only.
Behind(G) == {G[r][1] : r \in 2..Len(G)}

OrderedBooks(G, o) ==
  {x \in IssuanceBooks(o) : \A k \in 1..Len(x.tokens) : TurnsInOrder(x.tokens[k], G)}

\* Token k got the file up to p.
AheadBooks(G, o, k, p) ==
  {x \in OrderedBooks(G, o) : k \in 1..Len(x.tokens) => Ahead(x.tokens[k], G, p)}

LEMMA DivisionGrows ==
  ASSUME NEW x \in Nat, NEW a \in Nat, NEW m \in Nat, m > 0
  PROVE  x \div m <= (x + a) \div m
<1> DEFINE q == x \div m
           q2 == (x + a) \div m
<1>1. q \in Nat /\ q * m <= x BY DivisionBelow
<1>2. x + a \in Nat OBVIOUS
<1>3. q2 \in Nat /\ x + a < q2 * m + m BY <1>2, DivisionBelow
<1> HIDE DEF q, q2
<1>4. SUFFICES ASSUME q > q2 PROVE FALSE
  BY <1>1, <1>3 DEF q, q2
<1>5. q - q2 - 1 \in Nat BY <1>1, <1>3, <1>4
<1>6. (q - q2 - 1) * m \in Nat BY <1>5
<1>7. (q - q2 - 1) * m = q * m - q2 * m - m BY <1>1, <1>3
<1> DEFINE u == q * m
           v == q2 * m
<1>8. u \in Nat /\ v \in Nat BY <1>1, <1>3
<1> HIDE DEF u, v
<1>9. u - v - m >= 0 /\ u <= x /\ x + a < v + m BY <1>1, <1>3, <1>6, <1>7 DEF u, v
<1>10. QED BY <1>8, <1>9

LEMMA DivisionOneMore ==
  ASSUME NEW x \in Nat, NEW m \in Nat, m > 0
  PROVE  (x + m) \div m = x \div m + 1
<1> DEFINE q == x \div m
           q2 == (x + m) \div m
<1>1. q \in Nat /\ q * m <= x /\ x < q * m + m BY DivisionBelow
<1>2. x + m \in Nat OBVIOUS
<1>3. q2 \in Nat /\ q2 * m <= x + m /\ x + m < q2 * m + m BY <1>2, DivisionBelow
<1> HIDE DEF q, q2
<1> DEFINE u == q * m
           v == q2 * m
<1>4. u \in Nat /\ v \in Nat BY <1>1, <1>3
<1>5. ~(q2 <= q)
  <2> SUFFICES ASSUME q2 <= q PROVE FALSE
    OBVIOUS
  <2>1. q - q2 \in Nat BY <1>1, <1>3
  <2>2. (q - q2) * m \in Nat BY <2>1
  <2>3. (q - q2) * m = u - v BY <1>1, <1>3
  <2> HIDE DEF u, v
  <2>4. u - v >= 0 /\ u <= x /\ x + m < v + m BY <1>1, <1>3, <2>2, <2>3 DEF u, v
  <2>5. QED BY <1>4, <2>4
<1>6. ~(q2 >= q + 2)
  <2> SUFFICES ASSUME q2 >= q + 2 PROVE FALSE
    OBVIOUS
  <2>1. q2 - q - 2 \in Nat BY <1>1, <1>3
  <2>2. (q2 - q - 2) * m \in Nat BY <2>1
  <2>3. (q2 - q - 2) * m = v - u - m - m BY <1>1, <1>3
  <2> HIDE DEF u, v
  <2>4. v - u - m - m >= 0 /\ v <= x + m /\ x < u + m
    BY <1>1, <1>3, <2>2, <2>3 DEF u, v
  <2>5. QED BY <1>4, <2>4
<1>7. q2 = q + 1 BY <1>1, <1>3, <1>5, <1>6
<1>8. QED BY <1>7 DEF q, q2

LEMMA OrderlyRecords ==
  ASSUME NEW G \in OrderlyFile
  PROVE  /\ G \in IssueFile /\ Len(G) \in Nat /\ DOMAIN G = 1..Len(G)
         /\ \A r \in 1..Len(G) :
              /\ G[r][1] \in Recipient /\ G[r][2] \in Nat /\ G[r][2] > 0
              /\ \A t \in TokenState : t.issued[G[r][1]] \in Nat /\ Turns(t, G[r]) \in Nat
         /\ \A r, s \in 1..Len(G) : G[r][1] = G[s][1] => r = s
<1>1. G \in IssueFile /\ OnlyHere(G) BY DEF OrderlyFile
<1>2. /\ Len(G) \in Nat /\ DOMAIN G = 1..Len(G)
      /\ \A r \in 1..Len(G) : G[r][1] \in Recipient /\ G[r][2] \in Nat
  BY <1>1, FileRecords
<1>3. /\ \A r \in 1..Len(G) : G[r][2] > 0
      /\ \A r, s \in 1..Len(G) : G[r][1] = G[s][1] => r = s
  BY <1>1, <1>2 DEF OnlyHere
<1>4. ASSUME NEW r \in 1..Len(G), NEW t \in TokenState
      PROVE  t.issued[G[r][1]] \in Nat /\ Turns(t, G[r]) \in Nat
  <2>1. t.issued \in [Recipient -> Nat] BY DEF TokenState
  <2>2. t.issued[G[r][1]] \in Nat BY <1>2, <2>1
  <2>3. QED BY <1>2, <1>3, <2>2, DivisionBelow DEF Turns
<1>5. QED BY <1>1, <1>2, <1>3, <1>4

LEMMA SameTurns ==
  ASSUME NEW G, NEW t, NEW u, u.issued = t.issued, NEW p
  PROVE  (TurnsInOrder(t, G) => TurnsInOrder(u, G)) /\ (Ahead(t, G, p) => Ahead(u, G, p))
<1>1. \A record : Turns(u, record) = Turns(t, record) BY DEF Turns
<1>2. QED BY <1>1 DEF TurnsInOrder, Ahead

LEMMA NewIsInOrder ==
  ASSUME NEW G \in OrderlyFile
  PROVE  TurnsInOrder(Token, G)
<1>1. \A r \in 1..Len(G) : G[r][1] \in Recipient /\ G[r][2] \in Nat /\ G[r][2] > 0
  BY OrderlyRecords
<1>2. \A m \in Nat : m > 0 => 0 \div m = 0 BY SMT
<1>3. \A r \in 1..Len(G) : Turns(Token, G[r]) = 0 BY <1>1, <1>2, TokenIsNew DEF Turns
<1>4. DOMAIN G = 1..Len(G) BY OrderlyRecords
<1>5. QED BY <1>3, <1>4 DEF TurnsInOrder

\* Issuing to somebody else, or to the first, who may have any number of turns.
LEMMA OthersKeepOrder ==
  ASSUME NEW G \in OrderlyFile, NEW t \in TokenState, NEW u \in TokenState,
         NEW i \in Recipient \ Behind(G), NEW a \in Nat,
         u.issued = [t.issued EXCEPT ![i] = @ + a], TurnsInOrder(t, G)
  PROVE  TurnsInOrder(u, G)
<1>0. /\ DOMAIN G = 1..Len(G) /\ Len(G) \in Nat
      /\ \A r \in 1..Len(G) : /\ G[r][1] \in Recipient /\ G[r][2] \in Nat /\ G[r][2] > 0
                              /\ t.issued[G[r][1]] \in Nat
                              /\ Turns(t, G[r]) \in Nat /\ Turns(u, G[r]) \in Nat
  BY OrderlyRecords
<1>1. t.issued \in [Recipient -> Nat] BY DEF TokenState
<1>2. ASSUME NEW r \in 1..Len(G), r > 1 PROVE Turns(u, G[r]) = Turns(t, G[r])
  <2>1. r \in 2..Len(G) BY <1>0, <1>2
  <2>2. G[r][1] # i BY <2>1 DEF Behind
  <2>3. u.issued[G[r][1]] = t.issued[G[r][1]] BY <1>0, <1>1, <2>2
  <2>4. QED BY <2>3 DEF Turns
<1>3. ASSUME NEW r \in 1..Len(G) PROVE Turns(t, G[r]) <= Turns(u, G[r])
  <2>1. CASE G[r][1] = i
    <3>1. u.issued[G[r][1]] = t.issued[G[r][1]] + a BY <1>1, <2>1
    <3>2. QED BY <1>0, <3>1, DivisionGrows DEF Turns
  <2>2. CASE G[r][1] # i
    <3>1. u.issued[G[r][1]] = t.issued[G[r][1]] BY <1>0, <1>1, <2>2
    <3>2. Turns(u, G[r]) = Turns(t, G[r]) BY <3>1 DEF Turns
    <3>3. QED BY <1>0, <3>2
  <2>3. QED BY <2>1, <2>2
<1>4. ASSUME NEW r \in 1..Len(G), NEW later \in 1..Len(G), r < later
      PROVE  Turns(u, G[later]) <= Turns(u, G[r])
  <2>1. Turns(u, G[later]) = Turns(t, G[later]) BY <1>0, <1>2, <1>4
  <2>2. Turns(t, G[later]) <= Turns(t, G[r]) BY <1>0, <1>4 DEF TurnsInOrder
  <2>3. Turns(t, G[r]) <= Turns(u, G[r]) BY <1>3
  <2>4. QED BY <1>0, <2>1, <2>2, <2>3
<1>5. QED BY <1>0, <1>4 DEF TurnsInOrder

\* The next record of the file.
LEMMA NextGetsTurn ==
  ASSUME NEW G \in OrderlyFile, NEW t \in TokenState, NEW u \in TokenState,
         NEW p \in 1..Len(G),
         u.issued = [t.issued EXCEPT ![G[p][1]] = @ + G[p][2]],
         TurnsInOrder(t, G), Ahead(t, G, p)
  PROVE  TurnsInOrder(u, G) /\ Ahead(u, G, p + 1)
<1>0. /\ DOMAIN G = 1..Len(G) /\ Len(G) \in Nat
      /\ \A r \in 1..Len(G) : /\ G[r][1] \in Recipient /\ G[r][2] \in Nat /\ G[r][2] > 0
                              /\ t.issued[G[r][1]] \in Nat
                              /\ Turns(t, G[r]) \in Nat /\ Turns(u, G[r]) \in Nat
      /\ \A r, s \in 1..Len(G) : G[r][1] = G[s][1] => r = s
  BY OrderlyRecords
<1>1. t.issued \in [Recipient -> Nat] BY DEF TokenState
<1>2. ASSUME NEW r \in 1..Len(G), r # p PROVE Turns(u, G[r]) = Turns(t, G[r])
  <2>1. G[r][1] # G[p][1] BY <1>0, <1>2
  <2>2. u.issued[G[r][1]] = t.issued[G[r][1]] BY <1>0, <1>1, <2>1
  <2>3. QED BY <2>2 DEF Turns
<1>3. Turns(u, G[p]) = Turns(t, G[p]) + 1
  <2>1. u.issued[G[p][1]] = t.issued[G[p][1]] + G[p][2] BY <1>0, <1>1
  <2>2. QED BY <1>0, <2>1, DivisionOneMore DEF Turns
<1>4. /\ \A r, later \in 1..Len(G) : r < later => Turns(t, G[later]) <= Turns(t, G[r])
      /\ \A r, later \in 1..Len(G) :
           (r < p /\ p <= later) => Turns(t, G[later]) < Turns(t, G[r])
  BY <1>0 DEF TurnsInOrder, Ahead
<1>5. ASSUME NEW r \in 1..Len(G), NEW later \in 1..Len(G), r < later
      PROVE  Turns(u, G[later]) <= Turns(u, G[r])
  <2>1. CASE later = p
    <3>1. Turns(t, G[p]) < Turns(t, G[r]) BY <1>0, <1>4, <1>5, <2>1
    <3>2. Turns(u, G[r]) = Turns(t, G[r]) BY <1>0, <1>2, <1>5, <2>1
    <3>3. QED BY <1>0, <1>3, <2>1, <3>1, <3>2
  <2>2. CASE later # p
    <3>1. Turns(u, G[later]) = Turns(t, G[later]) BY <1>2, <2>2
    <3>2. Turns(t, G[later]) <= Turns(t, G[r]) BY <1>4, <1>5
    <3>3. Turns(t, G[r]) <= Turns(u, G[r])
      <4>1. CASE r = p BY <1>0, <1>3, <4>1
      <4>2. CASE r # p
        <5>1. Turns(u, G[r]) = Turns(t, G[r]) BY <1>2, <4>2
        <5>2. QED BY <1>0, <5>1
      <4>3. QED BY <4>1, <4>2
    <3>4. QED BY <1>0, <3>1, <3>2, <3>3
  <2>3. QED BY <2>1, <2>2
<1>6. ASSUME NEW r \in 1..Len(G), NEW later \in 1..Len(G), r < p + 1, p + 1 <= later
      PROVE  Turns(u, G[later]) < Turns(u, G[r])
  <2>1. later # p /\ r < later BY <1>0, <1>6
  <2>2. Turns(u, G[later]) = Turns(t, G[later]) BY <1>2, <2>1
  <2>3. CASE r = p
    <3>1. Turns(t, G[later]) <= Turns(t, G[p]) BY <1>4, <2>1, <2>3
    <3>2. QED BY <1>0, <1>3, <2>2, <2>3, <3>1
  <2>4. CASE r # p
    <3>1. r < p /\ p <= later BY <1>0, <1>6, <2>4
    <3>2. Turns(t, G[later]) < Turns(t, G[r]) BY <1>4, <3>1
    <3>3. Turns(u, G[r]) = Turns(t, G[r]) BY <1>2, <2>4
    <3>4. QED BY <2>2, <3>2, <3>3
  <2>5. QED BY <2>3, <2>4
<1>7. QED BY <1>0, <1>5, <1>6 DEF TurnsInOrder, Ahead

LEMMA BooksInOrder ==
  ASSUME NEW G, NEW o, NEW x \in OrderedBooks(G, o)
  PROVE  /\ x \in IssuanceBooks(o)
         /\ \A j \in 1..Len(x.tokens) :
              x.tokens[j] \in TokenState /\ TurnsInOrder(x.tokens[j], G)
<1>1. x \in IssuanceBooks(o) BY DEF OrderedBooks
<1>2. x.tokens \in Seq(TokenState) BY <1>1 DEF IssuanceBooks
<1>3. \A j \in 1..Len(x.tokens) : x.tokens[j] \in TokenState BY <1>2
<1>4. QED BY <1>1, <1>3 DEF OrderedBooks

LEMMA HarmlessRecord ==
  ASSUME NEW G \in OrderlyFile, NEW o, NEW x \in OrderedBooks(G, o),
         NEW op \in IssuanceOps, NEW k,
         NEW row \in IssuanceRows(op, k, Recipient \ Behind(G)),
         NEW y \in IssuanceChange(x, op, row)
  PROVE  y \in OrderedBooks(G, o)
<1>1. /\ x \in IssuanceBooks(o)
      /\ \A j \in 1..Len(x.tokens) :
           x.tokens[j] \in TokenState /\ TurnsInOrder(x.tokens[j], G)
  BY BooksInOrder
<1>2. CASE op = "issue"
  <2>1. PICK i \in Recipient \ Behind(G), a \in Nat : row = <<k, i, a>>
    BY <1>2 DEF IssuanceRows
  <2>2. /\ y \in IssuanceBooks(o) /\ Len(y.tokens) = Len(x.tokens)
        /\ \A j \in 1..Len(x.tokens) :
             y.tokens[j].issued =
               IF j = k THEN [x.tokens[j].issued EXCEPT ![i] = @ + a]
               ELSE x.tokens[j].issued
    BY <1>1, <1>2, <2>1, IssueRecord
  <2>3. \A j \in 1..Len(y.tokens) : y.tokens[j] \in TokenState
    <3>1. y.tokens \in Seq(TokenState) BY <2>2 DEF IssuanceBooks
    <3>2. QED BY <3>1
  <2>4. ASSUME NEW j \in 1..Len(y.tokens) PROVE TurnsInOrder(y.tokens[j], G)
    <3> DEFINE t == x.tokens[j]
               u == y.tokens[j]
    <3>1. t \in TokenState /\ u \in TokenState /\ TurnsInOrder(t, G)
      BY <1>1, <2>2, <2>3
    <3>2. u.issued = IF j = k THEN [t.issued EXCEPT ![i] = @ + a] ELSE t.issued
      BY <2>2
    <3> HIDE DEF t, u
    <3>3. CASE j = k BY <3>1, <3>2, <3>3, OthersKeepOrder DEF u
    <3>4. CASE j # k BY <3>1, <3>2, <3>4, SameTurns DEF u
    <3>5. QED BY <3>3, <3>4
  <2>5. QED BY <2>2, <2>4 DEF OrderedBooks
<1>3. CASE op # "issue"
  <2>1. row = <<k>> BY <1>3 DEF IssuanceRows
  <2>2. /\ y \in IssuanceBooks(o)
        /\ \A j \in 1..Len(y.tokens) :
             \/ y.tokens[j] = Token
             \/ j \in 1..Len(x.tokens) /\ y.tokens[j].issued = x.tokens[j].issued
    BY <1>1, <1>3, <2>1, QuietRecord
  <2>3. ASSUME NEW j \in 1..Len(y.tokens) PROVE TurnsInOrder(y.tokens[j], G)
    <3>1. CASE y.tokens[j] = Token BY <3>1, NewIsInOrder
    <3>2. CASE j \in 1..Len(x.tokens) /\ y.tokens[j].issued = x.tokens[j].issued
      BY <1>1, <3>2, SameTurns
    <3>3. QED BY <2>2, <3>1, <3>2
  <2>4. QED BY <2>2, <2>3 DEF OrderedBooks
<1>4. QED BY <1>2, <1>3

LEMMA SliceRecord ==
  ASSUME NEW G \in OrderlyFile, NEW o, NEW k, NEW p \in 1..Len(G),
         NEW x \in AheadBooks(G, o, k, p),
         NEW y \in IssuanceChange(x, "issue", <<k>> \o G[p])
  PROVE  y \in AheadBooks(G, o, k, p + 1)
<1> DEFINE i == G[p][1]
           a == G[p][2]
<1>1. x \in OrderedBooks(G, o) /\ (k \in 1..Len(x.tokens) => Ahead(x.tokens[k], G, p))
  BY DEF AheadBooks
<1>2. /\ x \in IssuanceBooks(o)
      /\ \A j \in 1..Len(x.tokens) :
           x.tokens[j] \in TokenState /\ TurnsInOrder(x.tokens[j], G)
  BY <1>1, BooksInOrder
<1>3. <<k>> \o G[p] = <<k, i, a>> /\ i \in Recipient /\ a \in Nat
  BY RowsOfFile, OrderlyRecords
<1> HIDE DEF i, a
<1>4. /\ y \in IssuanceBooks(o) /\ Len(y.tokens) = Len(x.tokens)
      /\ \A j \in 1..Len(x.tokens) :
           y.tokens[j].issued =
             IF j = k THEN [x.tokens[j].issued EXCEPT ![i] = @ + a]
             ELSE x.tokens[j].issued
  <2>1. y \in IssuanceChange(x, "issue", <<k, i, a>>) BY <1>3, Zenon
  <2>2. x \in IssuanceBooks(o) /\ i \in Recipient /\ a \in Nat BY <1>2, <1>3
  <2>3. QED BY ONLY <2>1, <2>2, IssueRecord
<1>5. \A j \in 1..Len(y.tokens) : y.tokens[j] \in TokenState
  <2>1. y.tokens \in Seq(TokenState) BY <1>4 DEF IssuanceBooks
  <2>2. QED BY <2>1
<1>6. ASSUME NEW j \in 1..Len(y.tokens)
      PROVE  TurnsInOrder(y.tokens[j], G) /\ (j = k => Ahead(y.tokens[j], G, p + 1))
  <2> DEFINE t == x.tokens[j]
             u == y.tokens[j]
  <2>1. /\ t \in TokenState /\ u \in TokenState /\ TurnsInOrder(t, G)
        /\ j = k => Ahead(t, G, p)
    BY <1>1, <1>2, <1>4, <1>5
  <2>2. u.issued = IF j = k THEN [t.issued EXCEPT ![i] = @ + a] ELSE t.issued
    BY <1>4
  <2> HIDE DEF t, u
  <2>3. CASE j = k
    <3>1. u.issued = [t.issued EXCEPT ![G[p][1]] = @ + G[p][2]] BY <2>2, <2>3 DEF i, a
    <3>2. QED BY <2>1, <2>3, <3>1, NextGetsTurn DEF u
  <2>4. CASE j # k BY <2>1, <2>2, <2>4, SameTurns DEF u
  <2>5. QED BY <2>3, <2>4
<1>7. y \in OrderedBooks(G, o) BY <1>4, <1>6 DEF OrderedBooks
<1>8. k \in 1..Len(y.tokens) => Ahead(y.tokens[k], G, p + 1) BY <1>6
<1>9. QED BY <1>7, <1>8 DEF AheadBooks

-----------------------------------------------------------------------------
(* Calls.                                                                  *)

\* A call whose records each lead from one set of states to the next.
LEMMA IssuanceTurns ==
  ASSUME NEW All, contract \in All, NEW call, NEW op, op = call.op,
         NEW rows, rows = call.rows, NEW n \in Nat, Len(rows) = n,
         \A j \in 1..n : \A x \in All : IssuanceChange(x, op, rows[j]) \subseteq All,
         NEW Good, contract \in Good[0],
         \A j \in 1..n : \A x \in All :
           x \in Good[j - 1] => IssuanceChange(x, op, rows[j]) \subseteq Good[j]
  PROVE  IssuanceCallAfter(call) \subseteq Good[n]
<1> DEFINE step == [j \in 1..n |-> [x \in All |-> IssuanceChange(x, op, rows[j])]]
           Is(g) == g = [j \in 0..n |->
                           IF j = 0 THEN {contract}
                           ELSE UNION {IssuanceChange(x, op, rows[j]) : x \in g[j - 1]}]
           after == CHOOSE g : Is(g)
           fine == [j \in 0..n |-> after[j] \subseteq All /\ after[j] \subseteq Good[j]]
<1>1. IssuanceCallAfter(call) = after[n] BY DEF IssuanceCallAfter, InTurn
<1>2. step \in [1..n -> [All -> SUBSET All]] OBVIOUS
<1>3. PICK f : AreTurns(f, n, All, contract, step)
  <2> HIDE DEF step
  <2> QED BY <1>2, TurnsExist
<1>4. Is(f)
  <2>1. ASSUME NEW j \in 1..n
        PROVE  f[j] = UNION {IssuanceChange(x, op, rows[j]) : x \in f[j - 1]}
    <3>1. j - 1 \in 0..n OBVIOUS
    <3>2. f[j - 1] \subseteq All BY <1>3, <3>1 DEF AreTurns
    <3>3. \A x \in f[j - 1] : step[j][x] = IssuanceChange(x, op, rows[j]) BY <3>2
    <3> HIDE DEF step
    <3>4. QED BY <1>3, <3>3 DEF AreTurns
  <2>2. \A j \in 0..n : j # 0 => j \in 1..n OBVIOUS
  <2>3. QED BY <1>3, <2>1, <2>2 DEF AreTurns
<1>5. Is(after)
  <2> HIDE DEF Is
  <2> QED BY <1>4 DEF after
<1> HIDE DEF after
<1>6. fine[0] \in {TRUE}
  <2>1. 0 \in 0..n OBVIOUS
  <2>2. after[0] = {contract} BY <1>5, <2>1
  <2>3. QED BY <2>1, <2>2
<1>7. ASSUME NEW j \in 1..n, fine[j - 1] \in {TRUE} PROVE fine[j] \in {TRUE}
  <2>1. j \in 0..n /\ j # 0 /\ j - 1 \in 0..n OBVIOUS
  <2>2. after[j - 1] \subseteq All /\ after[j - 1] \subseteq Good[j - 1] BY <1>7, <2>1
  <2>3. after[j] = UNION {IssuanceChange(x, op, rows[j]) : x \in after[j - 1]}
    BY <1>5, <2>1
  <2>4. after[j] \subseteq All /\ after[j] \subseteq Good[j] BY <2>2, <2>3
  <2>5. QED BY <2>1, <2>4
<1>8. \A j \in 0..n : fine[j] \in {TRUE}
  <2> HIDE DEF fine
  <2> QED BY <1>6, <1>7, LoopKeeps
<1>9. n \in 0..n OBVIOUS
<1>10. QED BY <1>1, <1>8, <1>9

\* Calls that do not come from this file.
Harmless(G, call) ==
  \E op \in IssuanceOps : \E k :
    call \in CallOf(op, IssuanceRows(op, k, Recipient \ Behind(G)))

LEMMA HarmlessCall ==
  ASSUME NEW G \in OrderlyFile, NEW o, contract \in OrderedBooks(G, o),
         NEW call, Harmless(G, call)
  PROVE  IssuanceCallAfter(call) \subseteq OrderedBooks(G, o)
<1>1. PICK op \in IssuanceOps : \E k :
        call \in CallOf(op, IssuanceRows(op, k, Recipient \ Behind(G)))
  BY DEF Harmless
<1>2. PICK k : call \in CallOf(op, IssuanceRows(op, k, Recipient \ Behind(G))) BY <1>1
<1> DEFINE Books == OrderedBooks(G, o)
           Row == IssuanceRows(op, k, Recipient \ Behind(G))
           rows == call.rows
           n == Len(rows)
           good == [j \in 0..n |-> Books]
<1>3. rows \in Seq(Row) /\ call = [op |-> op, rows |-> rows] BY <1>2 DEF CallOf
<1>4. n \in Nat /\ \A j \in 1..n : rows[j] \in Row BY <1>3
<1> HIDE DEF rows, n
<1>5. \A j \in 1..n : \A x \in Books : IssuanceChange(x, op, rows[j]) \subseteq Books
  <2> SUFFICES ASSUME NEW j \in 1..n, NEW x \in Books, NEW y \in IssuanceChange(x, op, rows[j])
               PROVE  y \in Books
    OBVIOUS
  <2>1. rows[j] \in Row BY <1>4
  <2>2. QED BY <2>1, HarmlessRecord
<1>6. good[0] = Books /\ good[n] = Books /\ \A j \in 1..n : good[j - 1] = Books /\ good[j] = Books
  <2>1. \A j \in 1..n : j \in 0..n /\ j - 1 \in 0..n BY <1>4
  <2>2. 0 \in 0..n /\ n \in 0..n BY <1>4
  <2> HIDE DEF Books
  <2>3. QED BY <2>1, <2>2
<1>7. Len(rows) = n /\ rows = call.rows /\ op = call.op BY <1>3 DEF n, rows
<1> HIDE DEF good, Books, Row
<1>8. contract \in Books BY DEF Books
<1>9. /\ contract \in good[0]
      /\ \A j \in 1..n : \A x \in Books :
           x \in good[j - 1] => IssuanceChange(x, op, rows[j]) \subseteq good[j]
  BY <1>5, <1>6, <1>8
<1>10. IssuanceCallAfter(call) \subseteq good[n]
  BY <1>4, <1>5, <1>7, <1>8, <1>9, IssuanceTurns
<1>11. QED BY <1>6, <1>10 DEF Books

LEMMA SliceCall ==
  ASSUME NEW G \in OrderlyFile, NEW o, NEW k,
         NEW p \in 1..Len(G) + 1, NEW q \in 1..Len(G) + 1, p <= q,
         contract \in AheadBooks(G, o, k, p)
  PROVE  IssuanceCallAfter(Slice(G, k, p, q)) \subseteq AheadBooks(G, o, k, q)
<1> DEFINE All == IssuanceBooks(o)
           n == q - p
           rows == [r \in 1..n |-> <<k>> \o G[p + r - 1]]
           good == [j \in 0..n |-> AheadBooks(G, o, k, p + j)]
           call == Slice(G, k, p, q)
           op == "issue"
<1>1. Len(G) \in Nat BY OrderlyRecords
<1>2. n \in Nat /\ \A j \in 1..n : p + j - 1 \in 1..Len(G) BY <1>1
<1>3. \A j \in 1..n : /\ rows[j] = <<k>> \o G[p + j - 1]
                      /\ rows[j] = <<k, G[p + j - 1][1], G[p + j - 1][2]>>
                      /\ G[p + j - 1][1] \in Recipient /\ G[p + j - 1][2] \in Nat
  BY <1>2, RowsOfFile, OrderlyRecords
<1>4. \A j \in 1..n : \A x \in All : IssuanceChange(x, "issue", rows[j]) \subseteq All
  <2> SUFFICES ASSUME NEW j \in 1..n, NEW x \in All,
                      NEW y \in IssuanceChange(x, "issue", rows[j])
               PROVE  y \in All
    OBVIOUS
  <2> DEFINE i == G[p + j - 1][1]
             a == G[p + j - 1][2]
  <2>1. rows[j] = <<k, i, a>> /\ i \in Recipient /\ a \in Nat BY <1>3
  <2> HIDE DEF rows, n, i, a
  <2>2. QED BY <2>1, IssueRecord
<1>5. \A j \in 1..n : good[j - 1] = AheadBooks(G, o, k, p + j - 1)
                      /\ good[j] = AheadBooks(G, o, k, p + j - 1 + 1)
  <2> SUFFICES ASSUME NEW j \in 1..n
               PROVE  good[j - 1] = AheadBooks(G, o, k, p + j - 1)
                      /\ good[j] = AheadBooks(G, o, k, p + j - 1 + 1)
    OBVIOUS
  <2>1. j \in 0..n /\ j - 1 \in 0..n BY <1>2
  <2>2. p + (j - 1) = p + j - 1 /\ p + j = p + j - 1 + 1 BY <1>2
  <2> HIDE DEF n
  <2>3. QED BY <2>1, <2>2
<1>6. good[0] = AheadBooks(G, o, k, p) /\ good[n] = AheadBooks(G, o, k, q)
  <2>1. 0 \in 0..n /\ n \in 0..n BY <1>2
  <2>2. p + 0 = p /\ p + n = q BY <1>1
  <2> HIDE DEF n
  <2>3. QED BY <2>1, <2>2
<1>7. \A j \in 1..n : \A x \in All :
        x \in good[j - 1] => IssuanceChange(x, "issue", rows[j]) \subseteq good[j]
  <2> SUFFICES ASSUME NEW j \in 1..n, NEW x \in good[j - 1],
                      NEW y \in IssuanceChange(x, "issue", rows[j])
               PROVE  y \in good[j]
    OBVIOUS
  <2> DEFINE m == p + j - 1
  <2>1. m \in 1..Len(G) /\ rows[j] = <<k>> \o G[m] BY <1>2, <1>3
  <2>2. good[j - 1] = AheadBooks(G, o, k, m) /\ good[j] = AheadBooks(G, o, k, m + 1)
    BY <1>5
  <2> HIDE DEF m, rows, good, n
  <2>3. QED BY <2>1, <2>2, SliceRecord
<1>8. Len(rows) = n
  <2> DEFINE S == {rows[r] : r \in 1..n}
  <2>1. rows \in [1..n -> S] OBVIOUS
  <2> HIDE DEF rows, S, n
  <2>2. rows \in Seq(S) BY <1>2, <2>1
  <2>3. QED BY <1>2, <2>1, <2>2
<1>9. contract \in All BY DEF AheadBooks, OrderedBooks
<1>10. op = call.op /\ rows = call.rows BY DEF Slice
<1>11. contract \in good[0] BY <1>6
<1>12. \A j \in 1..n : \A x \in All : IssuanceChange(x, op, rows[j]) \subseteq All
  BY <1>4
<1>13. \A j \in 1..n : \A x \in All :
         x \in good[j - 1] => IssuanceChange(x, op, rows[j]) \subseteq good[j]
  BY <1>7
<1> HIDE DEF All, n, rows, good, call, op
<1>14. IssuanceCallAfter(call) \subseteq good[n]
  BY <1>2, <1>8, <1>9, <1>10, <1>11, <1>12, <1>13, IssuanceTurns
<1>15. QED BY <1>6, <1>14 DEF call

-----------------------------------------------------------------------------
(* The program of the owner, as seen from one file.                        *)

LEMMA AheadAtFirst ==
  ASSUME NEW G \in OrderlyFile, NEW o, NEW k, NEW x \in OrderedBooks(G, o)
  PROVE  x \in AheadBooks(G, o, k, 1)
<1>1. DOMAIN G = 1..Len(G) /\ Len(G) \in Nat BY OrderlyRecords
<1>2. \A t : Ahead(t, G, 1) BY <1>1 DEF Ahead
<1>3. QED BY <1>2 DEF AheadBooks

\* What waits to be mined: no call of this file, or the part whose turn it is.
Waits(G, o, x, call) ==
  \/ Harmless(G, call)
  \/ \E k : \E p, q \in 1..Len(G) + 1 :
       p <= q /\ call = Slice(G, k, p, q) /\ x \in AheadBooks(G, o, k, p)

\* The rest of the file, from the part whose turn it is; the beginning of it, if a
\* call of an earlier run still waits.
RestOf(G, o, x, calls, early) ==
  \E k, at : /\ Slices(G, k, at, calls) /\ x \in AheadBooks(G, o, k, at[1])
             /\ early => at[1] = 1

Going(G, o, x, s, pool) ==
  /\ s.goesOn => Len(s.calls) = 1
  /\ s.then \notin {"sending", "waiting"}
  /\ \E S : s.calls \in Seq(S)
  /\ s.calls # << >>
  /\ \/ \A i \in 1..Len(s.calls) : Harmless(G, s.calls[i])
     \/ RestOf(G, o, x, s.calls, s.at = "sending" /\ pool # {})

IssuerRuns(G, o, x, s, pool) ==
  /\ {"at", "calls", "about", "then", "goesOn"} \subseteq DOMAIN s
  /\ s.at \in {"sending", "waiting"} => Going(G, o, x, s, pool)
  /\ s.at = "waiting" => pool = {Head(s.calls)}
  /\ \A call \in pool : Waits(G, o, x, call)

FileInv(G) ==
  current = "issuance" =>
    /\ session = [c \in Client |-> session[c]] /\ mempool = [c \in Client |-> mempool[c]]
    /\ contract.owner \in Client
    /\ contract \in OrderedBooks(G, contract.owner)
    /\ IssuerRuns(G, contract.owner, contract, session[contract.owner],
                  mempool[contract.owner])

IssuanceInv == \A G \in OrderlyFile : FileInv(G)

LEMMA IssuerRests ==
  ASSUME NEW G, NEW o, NEW x, NEW pool, \A call \in pool : Waits(G, o, x, call),
         NEW at, at \notin {"sending", "waiting"}, NEW about
  PROVE  IssuerRuns(G, o, x, Place(at, about), pool)
<1> DEFINE s == Place(at, about)
<1>1. {"at", "calls", "about", "then", "goesOn"} \subseteq DOMAIN s /\ s.at = at
  BY DEF Place
<1> HIDE DEF s
<1>2. QED BY <1>1 DEF IssuerRuns, s

\* What a command begins with: calls that are harmless to the file, or all of it.
FileCalls(G, calls) ==
  /\ \E S : calls \in Seq(S)
  /\ \/ \A i \in 1..Len(calls) : Harmless(G, calls[i])
     \/ \E k, at : Slices(G, k, at, calls) /\ at[1] = 1

LEMMA IssuerBegins ==
  ASSUME NEW G \in OrderlyFile, NEW o, NEW x \in OrderedBooks(G, o),
         NEW pool, \A call \in pool : Waits(G, o, x, call),
         NEW s, {"at", "calls", "about", "then", "goesOn"} \subseteq DOMAIN s,
         s.at = "sending", s.goesOn => Len(s.calls) = 1,
         s.then \notin {"sending", "waiting"}, FileCalls(G, s.calls)
  PROVE  IssuerRuns(G, o, x, IF s.calls = << >> THEN AtMenu ELSE s, pool)
<1>1. CASE s.calls = << >>
  <2>1. IssuerRuns(G, o, x, AtMenu, pool) BY IssuerRests DEF AtMenu
  <2>2. QED BY <1>1, <2>1
<1>2. CASE s.calls # << >>
  <2>1. \/ \A i \in 1..Len(s.calls) : Harmless(G, s.calls[i])
        \/ RestOf(G, o, x, s.calls, s.at = "sending" /\ pool # {})
    <3>1. CASE \E k, at : Slices(G, k, at, s.calls) /\ at[1] = 1
      <4>1. PICK k, at : Slices(G, k, at, s.calls) /\ at[1] = 1 BY <3>1
      <4>2. x \in AheadBooks(G, o, k, at[1]) BY <4>1, AheadAtFirst
      <4>3. QED BY <4>1, <4>2 DEF RestOf
    <3>2. QED BY <3>1 DEF FileCalls
  <2>2. Going(G, o, x, s, pool) BY <1>2, <2>1 DEF Going, FileCalls
  <2>3. IssuerRuns(G, o, x, s, pool) BY <2>2 DEF IssuerRuns
  <2>4. QED BY <1>2, <2>3
<1>3. QED BY <1>1, <1>2

LEMMA OneIsHarmless ==
  ASSUME NEW G, NEW op \in IssuanceOps, NEW k,
         NEW row \in IssuanceRows(op, k, Recipient \ Behind(G))
  PROVE  Harmless(G, [op |-> op, rows |-> <<row>>])
<1> DEFINE Row == IssuanceRows(op, k, Recipient \ Behind(G))
<1>1. row \in Row OBVIOUS
<1> HIDE DEF Row
<1>2. <<row>> \in Seq(Row) BY <1>1
<1>3. [op |-> op, rows |-> <<row>>] \in CallOf(op, Row) BY <1>2 DEF CallOf
<1>4. QED BY <1>3 DEF Harmless, Row

LEMMA OneAlone ==
  ASSUME NEW G, NEW op \in IssuanceOps, NEW k,
         NEW row \in IssuanceRows(op, k, Recipient \ Behind(G))
  PROVE  FileCalls(G, One(op, row))
<1> DEFINE call == [op |-> op, rows |-> <<row>>]
           S == {call}
           list == <<call>>
<1>1. Harmless(G, call) BY OneIsHarmless
<1>2. call \in S OBVIOUS
<1> HIDE DEF call, S
<1>3. list \in Seq(S) /\ Len(list) = 1 /\ list[1] = call BY <1>2
<1>4. One(op, row) = list BY DEF One, call
<1> HIDE DEF list
<1>5. \A i \in 1..Len(list) : Harmless(G, list[i]) BY <1>1, <1>3
<1>6. QED BY <1>3, <1>4, <1>5 DEF FileCalls

LEMMA TwoCalls ==
  ASSUME NEW a, NEW b
  PROVE  <<a>> \o <<b>> = <<a, b>>
<1> DEFINE S == {a, b}
           u == <<a>>
           v == <<b>>
           w == <<a, b>>
           both == u \o v
<1>1. a \in S /\ b \in S OBVIOUS
<1> HIDE DEF S
<1>2. /\ u \in Seq(S) /\ Len(u) = 1 /\ u[1] = a
      /\ v \in Seq(S) /\ Len(v) = 1 /\ v[1] = b
      /\ w \in Seq(S) /\ Len(w) = 2 /\ w[1] = a /\ w[2] = b
  BY <1>1
<1> HIDE DEF u, v, w
<1>3. /\ both \in Seq(S) /\ Len(both) = Len(u) + Len(v)
      /\ \A j \in 1..Len(u) : both[j] = u[j]
      /\ \A j \in 1..(Len(u) + Len(v)) : j > Len(u) => both[j] = v[j - Len(u)]
  BY <1>2, Joined
<1> HIDE DEF both
<1>4. Len(both) = 2 BY <1>2, <1>3
<1>5. both[1] = a BY <1>2, <1>3
<1>6. both[2] = b BY <1>2, <1>3
<1>7. \A j \in 1..2 : j = 1 \/ j = 2 OBVIOUS
<1>8. \A j \in 1..2 : both[j] = w[j] BY <1>2, <1>5, <1>6, <1>7
<1>9. both = w BY <1>2, <1>3, <1>4, <1>8
<1>10. QED BY <1>9 DEF both, u, v, w

LEMMA RefreshCalls ==
  ASSUME NEW G, NEW k
  PROVE  FileCalls(G, FreezeTransfers(k) \o One("refreshSecurityToken", <<k>>))
<1> DEFINE a == [op |-> "freezeTransfers", rows |-> <<<<k>>>>]
           b == [op |-> "refreshSecurityToken", rows |-> <<<<k>>>>]
           S == {a, b}
           list == <<a, b>>
<1>1. Harmless(G, a) /\ Harmless(G, b)
  <2> DEFINE row == <<k>>
  <2>1. \A op \in {"freezeTransfers", "refreshSecurityToken"} :
          op \in IssuanceOps /\ row \in IssuanceRows(op, k, Recipient \ Behind(G))
    BY DEF IssuanceOps, IssuanceRows
  <2> HIDE DEF row
  <2>2. \A op \in {"freezeTransfers", "refreshSecurityToken"} :
          Harmless(G, [op |-> op, rows |-> <<row>>])
    BY <2>1, OneIsHarmless
  <2>3. QED BY <2>2 DEF row
<1>2. FreezeTransfers(k) \o One("refreshSecurityToken", <<k>>) = list
  <2>1. FreezeTransfers(k) = <<a>> /\ One("refreshSecurityToken", <<k>>) = <<b>>
    BY DEF FreezeTransfers, One
  <2> HIDE DEF a, b
  <2>2. <<a>> \o <<b>> = <<a, b>> BY TwoCalls
  <2>3. QED BY <2>1, <2>2
<1>3. a \in S /\ b \in S OBVIOUS
<1> HIDE DEF a, b, S
<1>4. list \in Seq(S) /\ Len(list) = 2 /\ list[1] = a /\ list[2] = b BY <1>3
<1> HIDE DEF list
<1>5. \A i \in 1..Len(list) : Harmless(G, list[i])
  <2>1. \A i \in 1..2 : i = 1 \/ i = 2 OBVIOUS
  <2>2. QED BY <1>1, <1>4, <2>1
<1>6. QED BY <1>2, <1>4, <1>5 DEF FileCalls

\* multiIssue, with this file or another one.
LEMMA MultiIssueCalls ==
  ASSUME NEW G \in OrderlyFile, NEW data \in IssueFile, NEW k, NEW size \in IssueBatch
  PROVE  FileCalls(G, CallsOf("issue", RowsFor(k, data), size))
<1> DEFINE calls == CallsOf("issue", RowsFor(k, data), size)
<1>1. size \in Nat \ {0} BY IssuanceAssumption
<1>2. CASE data = G
  <2>1. (\E S : calls \in Seq(S)) /\ \E at : at[1] = 1 /\ Slices(G, k, at, calls)
    BY <1>1, <1>2, FileIsSlices
  <2> HIDE DEF calls
  <2>2. FileCalls(G, calls) BY <2>1 DEF FileCalls
  <2>3. QED BY <2>2 DEF calls
<1>3. CASE data # G
  <2> DEFINE Who == Recipient \ Behind(G)
             Row == {k} \X Who \X Nat
             Entry == {k} \cup Who \cup Nat
             Calls == CallOf("issue", Row)
             n == Len(data)
             rows == RowsFor(k, data)
  <2>1. /\ n \in Nat /\ DOMAIN data = 1..n
        /\ \A r \in 1..n : data[r][1] \in Recipient /\ data[r][2] \in Nat
    BY FileRecords
  <2>2. \A r \in 1..n : data[r][1] \notin Behind(G)
    <3> SUFFICES ASSUME NEW r \in 1..n, NEW s \in 2..Len(G), data[r][1] = G[s][1]
                 PROVE  FALSE
      BY DEF Behind
    <3>1. OnlyHere(G) /\ DOMAIN G = 1..Len(G) /\ Len(G) \in Nat
      BY OrderlyRecords DEF OrderlyFile
    <3>2. s \in DOMAIN G /\ s > 1 BY <3>1
    <3>3. r \in DOMAIN data BY <2>1
    <3>4. \A other \in IssueFile : \A j \in DOMAIN other :
            other[j][1] = G[s][1] => other = G
      BY <3>1, <3>2 DEF OnlyHere
    <3>5. QED BY <1>3, <3>3, <3>4
  <2>3. \A r \in 1..n : <<k>> \o data[r] = <<k, data[r][1], data[r][2]>> BY RowsOfFile
  <2>4. \A r \in 1..n : <<k>> \o data[r] \in Row BY <2>1, <2>2, <2>3
  <2>5. rows \in [1..n -> Row] BY <2>1, <2>4 DEF RowsFor
  <2>6. Row \subseteq [1..3 -> Entry]
    <3> SUFFICES ASSUME NEW i \in Who, NEW a \in Nat
                 PROVE  <<k, i, a>> \in [1..3 -> Entry]
      OBVIOUS
    <3>1. k \in Entry /\ i \in Entry /\ a \in Entry OBVIOUS
    <3> HIDE DEF Entry
    <3>2. <<k, i, a>> \in Seq(Entry) /\ Len(<<k, i, a>>) = 3 BY <3>1
    <3>3. QED BY <3>2
  <2>7. 3 \in Nat \ {0} OBVIOUS
  <2>8. \A call \in Calls : Harmless(G, call)
    <3>1. Row = IssuanceRows("issue", k, Who) /\ "issue" \in IssuanceOps
      BY DEF IssuanceRows, IssuanceOps
    <3> HIDE DEF Row
    <3>2. QED BY <3>1 DEF Harmless
  <2> HIDE DEF Row, Entry, Who, n, rows
  <2>9. rows \in Seq(Row) BY <2>1, <2>5
  <2>10. CallOf("issue", Row) \subseteq Calls OBVIOUS
  <2> HIDE DEF Calls
  <2>11. CallsOf("issue", rows, size) \in Seq(Calls)
    BY <1>1, <2>6, <2>7, <2>9, <2>10, CallsHoldRecords
  <2>12. calls \in Seq(Calls) BY <2>11 DEF rows
  <2> HIDE DEF calls
  <2>13. \A i \in 1..Len(calls) : Harmless(G, calls[i])
    <3>1. \A i \in 1..Len(calls) : calls[i] \in Calls BY <2>12
    <3>2. QED BY <2>8, <3>1
  <2>14. FileCalls(G, calls) BY <2>12, <2>13 DEF FileCalls
  <2>15. QED BY <2>14 DEF calls
<1>4. QED BY <1>2, <1>3

LEMMA RestOfCalls ==
  ASSUME NEW S, NEW calls \in Seq(S), calls # << >>
  PROVE  /\ Len(calls) \in Nat /\ 1 \in 1..Len(calls) /\ Head(calls) = calls[1]
         /\ Len(calls) # 1 =>
              /\ Tail(calls) \in Seq(S) /\ Tail(calls) # << >>
              /\ Len(Tail(calls)) = Len(calls) - 1
              /\ \A i \in 1..Len(calls) - 1 : Tail(calls)[i] = calls[i + 1]
<1>1. Len(calls) \in Nat /\ Len(calls) # 0 OBVIOUS
<1>2. 1 \in 1..Len(calls) BY <1>1
<1>3. Head(calls) = calls[1] BY DEF Head
<1>4. ASSUME Len(calls) # 1
      PROVE  /\ Tail(calls) \in Seq(S) /\ Tail(calls) # << >>
             /\ Len(Tail(calls)) = Len(calls) - 1
             /\ \A i \in 1..Len(calls) - 1 : Tail(calls)[i] = calls[i + 1]
  <2> DEFINE rest == Tail(calls)
  <2>1. /\ rest \in Seq(S) /\ Len(rest) = Len(calls) - 1
        /\ \A i \in 1..Len(calls) - 1 : rest[i] = calls[i + 1]
    OBVIOUS
  <2> HIDE DEF rest
  <2>2. Len(rest) # 0 BY <1>1, <1>4, <2>1
  <2>3. rest # << >> BY <2>1, <2>2, NotEmpty
  <2>4. QED BY <2>1, <2>3 DEF rest
<1>5. QED BY <1>1, <1>2, <1>3, <1>4

\* What a call still to be mined leads to.
LEMMA WaitingCall ==
  ASSUME NEW G \in OrderlyFile, NEW o, contract \in OrderedBooks(G, o),
         NEW call, Waits(G, o, contract, call)
  PROVE  IssuanceCallAfter(call) \subseteq OrderedBooks(G, o)
<1>1. CASE Harmless(G, call) BY <1>1, HarmlessCall
<1>2. CASE \E k : \E p, q \in 1..Len(G) + 1 :
             p <= q /\ call = Slice(G, k, p, q) /\ contract \in AheadBooks(G, o, k, p)
  <2>1. PICK k : \E p, q \in 1..Len(G) + 1 :
             p <= q /\ call = Slice(G, k, p, q) /\ contract \in AheadBooks(G, o, k, p)
    BY <1>2
  <2>2. PICK p \in 1..Len(G) + 1, q \in 1..Len(G) + 1 :
             p <= q /\ call = Slice(G, k, p, q) /\ contract \in AheadBooks(G, o, k, p)
    BY <2>1
  <2>3. IssuanceCallAfter(call) \subseteq AheadBooks(G, o, k, q) BY <2>2, SliceCall
  <2>4. QED BY <2>3 DEF AheadBooks
<1>3. QED BY <1>1, <1>2 DEF Waits

\* The first of the calls in hand may wait to be mined.
LEMMA HeadWaits ==
  ASSUME NEW G \in OrderlyFile, NEW o, NEW x, NEW s, NEW pool, Going(G, o, x, s, pool)
  PROVE  Waits(G, o, x, Head(s.calls))
<1>1. PICK S : s.calls \in Seq(S) BY DEF Going
<1>2. s.calls # << >> BY DEF Going
<1>3. Len(s.calls) \in Nat /\ 1 \in 1..Len(s.calls) /\ Head(s.calls) = s.calls[1]
  BY <1>1, <1>2, RestOfCalls
<1>4. CASE \A i \in 1..Len(s.calls) : Harmless(G, s.calls[i])
  BY <1>3, <1>4 DEF Waits
<1>5. CASE RestOf(G, o, x, s.calls, s.at = "sending" /\ pool # {})
  <2>1. PICK k, at : Slices(G, k, at, s.calls) /\ x \in AheadBooks(G, o, k, at[1])
    BY <1>5 DEF RestOf
  <2>2. at[1] <= at[1 + 1] /\ s.calls[1] = Slice(G, k, at[1], at[1 + 1])
    BY <1>3, <2>1 DEF Slices
  <2>3. at[1] \in 1..Len(G) + 1 /\ at[1 + 1] \in 1..Len(G) + 1
    <3>1. 1 \in 1..Len(s.calls) + 1 /\ 1 + 1 \in 1..Len(s.calls) + 1 BY <1>3
    <3>2. QED BY <2>1, <3>1 DEF Slices
  <2> DEFINE p == at[1]
             q == at[1 + 1]
  <2>4. /\ p \in 1..Len(G) + 1 /\ q \in 1..Len(G) + 1 /\ p <= q
        /\ Head(s.calls) = Slice(G, k, p, q) /\ x \in AheadBooks(G, o, k, p)
    BY <1>3, <2>1, <2>2, <2>3
  <2> HIDE DEF p, q
  <2>5. QED BY <2>4 DEF Waits
<1>6. QED BY <1>4, <1>5 DEF Going

\* The call failed: the program is at the menu, or at the same token again.
LEMMA IssuerFails ==
  ASSUME NEW G, NEW o, NEW x, NEW s, NEW pool, Going(G, o, x, s, pool)
  PROVE  \E at, about : /\ NextCall(s, FALSE) = Place(at, about)
                        /\ at \notin {"sending", "waiting"}
<1>1. CASE ~s.goesOn
  <2> DEFINE none == {}
             at == "menu"
  <2>1. NextCall(s, FALSE) = Place(at, none) BY <1>1 DEF NextCall, AtMenu
  <2>2. at \notin {"sending", "waiting"} OBVIOUS
  <2>3. QED BY <2>1, <2>2
<1>2. CASE s.goesOn
  <2> DEFINE about == IF s.then = "menu" THEN {} ELSE s.about
             at == s.then
  <2>1. Len(s.calls) = 1 /\ at \notin {"sending", "waiting"} BY <1>2 DEF Going
  <2>2. NextCall(s, FALSE) = Place(at, about) BY <1>2, <2>1 DEF NextCall
  <2> HIDE DEF about, at
  <2>3. QED BY <2>1, <2>2
<1>3. QED BY <1>1, <1>2

\* The call was mined, and the program goes on to the next one.
LEMMA IssuerGoesOn ==
  ASSUME NEW G \in OrderlyFile, NEW o, contract \in OrderedBooks(G, o),
         NEW s, {"at", "calls", "about", "then", "goesOn"} \subseteq DOMAIN s,
         s.at = "waiting", NEW pool, Going(G, o, contract, s, pool),
         NEW y \in IssuanceCallAfter(Head(s.calls))
  PROVE  IssuerRuns(G, o, y, NextCall(s, TRUE), {})
<1> DEFINE none == {}
           rest == Tail(s.calls)
           t == [s EXCEPT !.at = "sending", !.calls = rest]
<1>1. PICK S : s.calls \in Seq(S) BY DEF Going
<1>2. /\ s.calls # << >>
      /\ s.goesOn => Len(s.calls) = 1
      /\ s.then \notin {"sending", "waiting"}
      /\ \A call \in none : Waits(G, o, y, call)
  BY DEF Going
<1>3. /\ Len(s.calls) \in Nat /\ 1 \in 1..Len(s.calls) /\ Head(s.calls) = s.calls[1]
      /\ Len(s.calls) # 1 =>
           /\ rest \in Seq(S) /\ rest # << >>
           /\ Len(rest) = Len(s.calls) - 1
           /\ \A i \in 1..Len(s.calls) - 1 : rest[i] = s.calls[i + 1]
  BY <1>1, <1>2, RestOfCalls
<1> HIDE DEF none
<1>4. CASE Len(s.calls) = 1
  <2> DEFINE about == IF s.then = "menu" THEN {} ELSE s.about
             then == s.then
  <2>1. NextCall(s, TRUE) = Place(then, about) BY <1>2, <1>4 DEF NextCall
  <2>2. then \notin {"sending", "waiting"} BY <1>2
  <2> HIDE DEF about, then
  <2>3. IssuerRuns(G, o, y, Place(then, about), none) BY <1>2, <2>2, IssuerRests
  <2>4. QED BY <2>1, <2>3 DEF none
<1>5. CASE Len(s.calls) # 1
  <2>1. /\ {"at", "calls", "about", "then", "goesOn"} \subseteq DOMAIN t
        /\ t.at = "sending" /\ t.calls = rest /\ ~t.goesOn /\ t.then = s.then
    BY <1>2, <1>5
  <2>2. NextCall(s, TRUE) = t BY <1>2, <1>5 DEF NextCall
  <2> HIDE DEF t, rest
  <2>3. \A i \in 1..Len(rest) : rest[i] = s.calls[i + 1] /\ i + 1 \in 1..Len(s.calls)
    BY <1>3, <1>5
  <2>4. CASE \A i \in 1..Len(s.calls) : Harmless(G, s.calls[i])
    <3>1. \A i \in 1..Len(rest) : Harmless(G, rest[i]) BY <2>3, <2>4
    <3>2. Going(G, o, y, t, none) BY <1>2, <1>3, <1>5, <2>1, <3>1 DEF Going
    <3>3. IssuerRuns(G, o, y, t, none) BY <1>2, <2>1, <3>2 DEF IssuerRuns
    <3>4. QED BY <2>2, <3>3 DEF none
  <2>5. CASE RestOf(G, o, contract, s.calls, s.at = "sending" /\ pool # {})
    <3>1. PICK k, at : /\ Slices(G, k, at, s.calls)
                       /\ contract \in AheadBooks(G, o, k, at[1])
      BY <2>5 DEF RestOf
    <3> DEFINE m == Len(s.calls)
               next == [i \in 1..m |-> at[i + 1]]
    <3>2. /\ at \in [1..m + 1 -> 1..Len(G) + 1]
          /\ \A i \in 1..m : at[i] <= at[i + 1] /\ s.calls[i] = Slice(G, k, at[i], at[i + 1])
      BY <3>1 DEF Slices
    <3>3. m \in Nat /\ 1 \in 1..m /\ Len(rest) + 1 = m BY <1>3, <1>5
    <3> HIDE DEF m
    <3>4. y \in AheadBooks(G, o, k, at[1 + 1])
      <4> DEFINE p == at[1]
                 q == at[1 + 1]
      <4>1. 1 \in 1..m + 1 /\ 1 + 1 \in 1..m + 1 BY <3>3
      <4>2. p \in 1..Len(G) + 1 /\ q \in 1..Len(G) + 1 BY <3>2, <4>1
      <4>3. p <= q /\ Head(s.calls) = Slice(G, k, p, q) BY <1>3, <3>2, <3>3
      <4>4. contract \in AheadBooks(G, o, k, p) BY <3>1
      <4> HIDE DEF p, q
      <4>5. IssuanceCallAfter(Slice(G, k, p, q)) \subseteq AheadBooks(G, o, k, q)
        BY <4>2, <4>3, <4>4, SliceCall
      <4>6. y \in AheadBooks(G, o, k, q) BY <4>3, <4>5
      <4>7. QED BY <4>6 DEF q
    <3>5. next[1] = at[1 + 1] BY <3>3
    <3>6. Slices(G, k, next, rest)
      <4>1. next \in [1..m -> 1..Len(G) + 1]
        <5>1. \A i \in 1..m : i + 1 \in 1..m + 1 BY <3>3
        <5>2. QED BY <3>2, <5>1
      <4>2. ASSUME NEW i \in 1..Len(rest)
            PROVE  next[i] <= next[i + 1] /\ rest[i] = Slice(G, k, next[i], next[i + 1])
        <5>1. i \in 1..m /\ i + 1 \in 1..m BY <3>3
        <5>2. next[i] = at[i + 1] /\ next[i + 1] = at[i + 1 + 1] BY <5>1
        <5>3. rest[i] = s.calls[i + 1] BY <2>3
        <5> HIDE DEF next
        <5>4. QED BY <3>2, <5>1, <5>2, <5>3
      <4> HIDE DEF next
      <4>3. QED BY <3>3, <4>1, <4>2 DEF Slices
    <3> HIDE DEF next
    <3>7. y \in AheadBooks(G, o, k, next[1]) BY <3>4, <3>5
    <3>8. RestOf(G, o, y, t.calls, t.at = "sending" /\ none # {})
      BY <2>1, <3>6, <3>7 DEF RestOf, none
    <3>9. Going(G, o, y, t, none) BY <1>2, <1>3, <1>5, <2>1, <3>8 DEF Going
    <3>10. IssuerRuns(G, o, y, t, none) BY <1>2, <2>1, <3>9 DEF IssuerRuns
    <3>11. QED BY <2>2, <3>10 DEF none
  <2>6. QED BY <2>4, <2>5 DEF Going
<1>6. QED BY <1>4, <1>5

\* A call of an earlier run was mined: this one is at the beginning of its file.
LEMMA IssuerStays ==
  ASSUME NEW G \in OrderlyFile, NEW o, NEW x, NEW s, NEW pool, pool # {},
         IssuerRuns(G, o, x, s, pool), s.at # "waiting", NEW y \in OrderedBooks(G, o)
  PROVE  IssuerRuns(G, o, y, s, {})
<1> DEFINE none == {}
<1>1. \A call \in none : Waits(G, o, y, call) OBVIOUS
<1> HIDE DEF none
<1>2. CASE s.at = "sending"
  <2>1. Going(G, o, x, s, pool) BY <1>2 DEF IssuerRuns
  <2>2. \/ \A i \in 1..Len(s.calls) : Harmless(G, s.calls[i])
        \/ RestOf(G, o, y, s.calls, s.at = "sending" /\ none # {})
    <3>1. CASE RestOf(G, o, x, s.calls, s.at = "sending" /\ pool # {})
      <4>1. PICK k, at : Slices(G, k, at, s.calls) /\ at[1] = 1
        BY <1>2, <3>1 DEF RestOf
      <4>2. y \in AheadBooks(G, o, k, at[1]) BY <4>1, AheadAtFirst
      <4>3. QED BY <4>1, <4>2 DEF RestOf
    <3>2. QED BY <2>1, <3>1 DEF Going
  <2>3. Going(G, o, y, s, none) BY <2>1, <2>2 DEF Going
  <2>4. IssuerRuns(G, o, y, s, none) BY <1>1, <1>2, <2>3 DEF IssuerRuns
  <2>5. QED BY <2>4 DEF none
<1>3. CASE s.at # "sending"
  <2>1. IssuerRuns(G, o, y, s, none) BY <1>1, <1>3 DEF IssuerRuns
  <2>2. QED BY <2>1 DEF none
<1>4. QED BY <1>2, <1>3

\* Investors of the newest token are verified: nothing that was issued changes.
LEMMA VerifyingKeeps ==
  ASSUME NEW G, NEW o, NEW x \in OrderedBooks(G, o), NEW y \in IssuanceBooks(o),
         Len(y.tokens) = Len(x.tokens),
         \A j \in 1..Len(x.tokens) : y.tokens[j].issued = x.tokens[j].issued
  PROVE  /\ y \in OrderedBooks(G, o)
         /\ \A k, p : x \in AheadBooks(G, o, k, p) => y \in AheadBooks(G, o, k, p)
         /\ \A s, pool : IssuerRuns(G, o, x, s, pool) => IssuerRuns(G, o, y, s, pool)
<1>1. \A j \in 1..Len(x.tokens) : TurnsInOrder(x.tokens[j], G) BY DEF OrderedBooks
<1>2. \A j \in 1..Len(y.tokens) : TurnsInOrder(y.tokens[j], G) BY <1>1, SameTurns
<1>3. y \in OrderedBooks(G, o) BY <1>2 DEF OrderedBooks
<1>4. ASSUME NEW k, NEW p, x \in AheadBooks(G, o, k, p)
      PROVE  y \in AheadBooks(G, o, k, p)
  <2>1. k \in 1..Len(x.tokens) => Ahead(x.tokens[k], G, p) BY <1>4 DEF AheadBooks
  <2>2. k \in 1..Len(y.tokens) => Ahead(y.tokens[k], G, p) BY <2>1, SameTurns
  <2>3. QED BY <1>3, <2>2 DEF AheadBooks
<1>5. \A call : Waits(G, o, x, call) => Waits(G, o, y, call) BY <1>4 DEF Waits
<1>6. \A calls, early : RestOf(G, o, x, calls, early) => RestOf(G, o, y, calls, early)
  BY <1>4 DEF RestOf
<1>7. \A s, pool : Going(G, o, x, s, pool) => Going(G, o, y, s, pool) BY <1>6 DEF Going
<1>8. \A s, pool : IssuerRuns(G, o, x, s, pool) => IssuerRuns(G, o, y, s, pool)
  BY <1>5, <1>7 DEF IssuerRuns
<1>9. QED BY <1>3, <1>4, <1>8

LEMMA VerificationKeeps ==
  ASSUME NEW G \in OrderlyFile, FileInv(G), VerificationStep
  PROVE  FileInv(G)'
<1> DEFINE o == contract.owner
           n == Len(contract.tokens)
           t == contract.tokens[n]
<1>1. /\ current = "issuance" /\ o \in Client /\ contract \in OrderedBooks(G, o)
      /\ session = [c \in Client |-> session[c]] /\ mempool = [c \in Client |-> mempool[c]]
      /\ IssuerRuns(G, o, contract, session[o], mempool[o])
      /\ UNCHANGED <<current, session, mempool>>
  BY DEF VerificationStep, FileInv
<1>2. PICK i \in Recipient :
        contract' = [contract EXCEPT !.tokens[n].verified =
                       IF i \in @ THEN @ \ {i} ELSE @ \cup {i}]
  BY DEF VerificationStep, Newest, Recipient
<1> DEFINE u == [t EXCEPT !.verified = IF i \in @ THEN @ \ {i} ELSE @ \cup {i}]
<1>3. contract' = Put(contract, n, u) BY <1>2 DEF Put
<1>4. contract \in IssuanceBooks(o) BY <1>1 DEF OrderedBooks
<1>5. n \in 1..n => u \in TokenState /\ u.issued = t.issued
  <2>1. contract.tokens \in Seq(TokenState) BY <1>4 DEF IssuanceBooks
  <2>2. n \in 1..n => t \in TokenState BY <2>1
  <2> DEFINE v == IF i \in t.verified THEN t.verified \ {i} ELSE t.verified \cup {i}
  <2>3. u = [t EXCEPT !.verified = v] OBVIOUS
  <2>4. t \in TokenState => v \in SUBSET Recipient BY DEF TokenState
  <2> HIDE DEF v, t, u
  <2>5. QED BY <2>2, <2>3, <2>4 DEF TokenState
<1> DEFINE y == Put(contract, n, u)
           owner == o
<1>6. /\ y \in IssuanceBooks(owner) /\ Len(y.tokens) = Len(contract.tokens)
      /\ \A j \in 1..Len(contract.tokens) :
           y.tokens[j] = IF j = n THEN u ELSE contract.tokens[j]
  <2> HIDE DEF u
  <2> QED BY <1>4, <1>5, TokenChanges
<1>7. \A j \in 1..Len(contract.tokens) : y.tokens[j].issued = contract.tokens[j].issued
  <2> HIDE DEF u, y
  <2> QED BY <1>5, <1>6
<1>8. /\ y \in OrderedBooks(G, owner)
      /\ IssuerRuns(G, owner, y, session[o], mempool[o])
  <2>1. contract \in OrderedBooks(G, owner) BY <1>1
  <2>2. IssuerRuns(G, owner, contract, session[o], mempool[o]) BY <1>1
  <2> HIDE DEF y, owner
  <2>3. QED BY <1>6, <1>7, <2>1, <2>2, VerifyingKeeps
<1>9. contract' = y /\ contract'.owner = o
  <2>1. y.owner = o BY <1>6 DEF IssuanceBooks
  <2>2. QED BY <1>3, <2>1
<1> HIDE DEF y
<1>10. QED BY <1>1, <1>8, <1>9 DEF FileInv

LEMMA IssuanceStepKeeps ==
  ASSUME NEW G \in OrderlyFile, FileInv(G), NEW c \in Client, IssuanceStep(c)
  PROVE  FileInv(G)'
<1> DEFINE s == session[c]
           pool == mempool[c]
           Kept == FileInv(G)'
<1>0. SUFFICES Kept
  OBVIOUS
<1>1. /\ current = "issuance" /\ contract.owner = c
      /\ session = [d \in Client |-> session[d]] /\ mempool = [d \in Client |-> mempool[d]]
      /\ contract \in OrderedBooks(G, c) /\ IssuerRuns(G, c, contract, s, pool)
      /\ current' = current
  BY IssuanceStays DEF IssuanceStep, FileInv
<1>2. \A call \in pool : Waits(G, c, contract, call) BY <1>1 DEF IssuerRuns
<1>3. ASSUME NEW t, NEW p, IssuerRuns(G, c, contract', t, p),
             contract' \in OrderedBooks(G, c),
             session' = [session EXCEPT ![c] = t], mempool' = [mempool EXCEPT ![c] = p]
      PROVE  Kept
  <2>1. contract'.owner = c BY <1>3 DEF OrderedBooks, IssuanceBooks
  <2>2. session'[c] = t /\ mempool'[c] = p BY <1>1, <1>3
  <2>3. /\ session' = [d \in Client |-> session'[d]]
        /\ mempool' = [d \in Client |-> mempool'[d]]
    BY <1>1, <1>3
  <2>4. QED BY <1>1, <1>3, <2>1, <2>2, <2>3 DEF FileInv
<1>4. ASSUME NEW t, IssuerRuns(G, c, contract, t, pool),
             session' = [session EXCEPT ![c] = t], UNCHANGED <<contract, mempool>>
      PROVE  Kept
  <2>1. mempool' = [mempool EXCEPT ![c] = pool] BY <1>1, <1>4
  <2>2. QED BY <1>1, <1>3, <1>4, <2>1
<1>5. ASSUME NEW at, at \notin {"sending", "waiting"}, NEW about,
             session' = [session EXCEPT ![c] = Place(at, about)],
             UNCHANGED <<contract, mempool>>
      PROVE  Kept
  <2>1. IssuerRuns(G, c, contract, Place(at, about), pool) BY <1>2, <1>5, IssuerRests
  <2> HIDE DEF Kept, pool
  <2>2. QED BY <1>4, <1>5, <2>1
<1>6. ASSUME NEW t, {"at", "calls", "about", "then", "goesOn"} \subseteq DOMAIN t,
             t.at = "sending", t.goesOn => Len(t.calls) = 1,
             t.then \notin {"sending", "waiting"}, FileCalls(G, t.calls), StartCommand(c, t)
      PROVE  Kept
  <2> DEFINE new == IF t.calls = << >> THEN AtMenu ELSE t
  <2>1. IssuerRuns(G, c, contract, new, pool) BY <1>1, <1>2, <1>6, IssuerBegins
  <2>2. session' = [session EXCEPT ![c] = new] /\ UNCHANGED <<contract, mempool>>
    BY <1>6 DEF StartCommand
  <2> HIDE DEF new, Kept, pool
  <2>3. QED BY <1>4, <2>1, <2>2
<1>7. ASSUME NEW calls, FileCalls(G, calls), NEW about, Begin(c, calls, about)
      PROVE  Kept
  <2> DEFINE t == Sending(calls, about)
  <2>1. /\ {"at", "calls", "about", "then", "goesOn"} \subseteq DOMAIN t
        /\ t.at = "sending" /\ ~t.goesOn /\ t.then = "menu" /\ t.calls = calls
    BY DEF Sending, Place
  <2>2. StartCommand(c, t) BY <1>7 DEF Begin
  <2> HIDE DEF t, Kept
  <2>3. QED BY <1>6, <1>7, <2>1, <2>2
<1>8. ASSUME NEW calls, FileCalls(G, calls), OnToken(c, calls) PROVE Kept
  <2> DEFINE about == {[token |-> Shown(c).token]}
             t == [Sending(calls, about) EXCEPT !.then = "token"]
  <2>1. /\ {"at", "calls", "about", "then", "goesOn"} \subseteq DOMAIN t
        /\ t.at = "sending" /\ ~t.goesOn /\ t.then = "token" /\ t.calls = calls
    BY DEF Sending, Place
  <2>2. StartCommand(c, t) BY <1>8 DEF OnToken, BeginThen
  <2> HIDE DEF t, Kept
  <2>3. QED BY <1>6, <1>8, <2>1, <2>2
\* A command that goes on with the same token when its call fails.
<1>8a. ASSUME NEW op \in IssuanceOps, NEW row, FileCalls(G, One(op, row)),
              OnTokenAnyway(c, One(op, row))
       PROVE  Kept
  <2> DEFINE about == {[token |-> Shown(c).token]}
             calls == One(op, row)
             t == [Sending(calls, about) EXCEPT !.then = "token", !.goesOn = TRUE]
  <2>1. /\ {"at", "calls", "about", "then", "goesOn"} \subseteq DOMAIN t
        /\ t.at = "sending" /\ t.then = "token" /\ t.calls = calls
    BY DEF Sending, Place
  <2>2. StartCommand(c, t) BY <1>8a DEF OnTokenAnyway, BeginAllThen
  <2>3. Len(t.calls) = 1 BY <2>1 DEF One
  <2> HIDE DEF t, Kept
  <2>4. QED BY <1>6, <1>8a, <2>1, <2>2, <2>3
<1>9. CASE At(c, "menu") /\ SelectToken(c)
  <2> DEFINE about == {[token |-> Newest]}
             at == "token"
  <2>1. session' = [session EXCEPT ![c] = Place(at, about)] /\ UNCHANGED <<contract, mempool>>
    BY <1>9 DEF SelectToken, Show
  <2>2. at \notin {"sending", "waiting"} OBVIOUS
  <2> HIDE DEF about, at, Kept
  <2>3. QED BY <1>5, <2>1, <2>2
<1>10. CASE At(c, "token") /\ SelectAction(c)
  <2> DEFINE k == Shown(c).token
             about == {[token |-> k, frozen |-> contract.tokens[k].frozen,
                        issuable |-> contract.tokens[k].issuable]}
             at == "action"
  <2>1. session' = [session EXCEPT ![c] = Place(at, about)] /\ UNCHANGED <<contract, mempool>>
    BY <1>10 DEF SelectAction, Show
  <2>2. at \notin {"sending", "waiting"} OBVIOUS
  <2> HIDE DEF about, at, Kept
  <2>3. QED BY <1>5, <2>1, <2>2
<1>11. CASE At(c, "action") /\ Selected(c)
  <2> DEFINE k == Shown(c).token
  <2>1. ASSUME NEW op \in IssuanceOps \ {"issue"} PROVE FileCalls(G, One(op, <<k>>))
    <3> DEFINE row == <<k>>
    <3>1. row \in IssuanceRows(op, k, Recipient \ Behind(G)) BY DEF IssuanceRows
    <3> HIDE DEF row
    <3>2. FileCalls(G, One(op, row)) BY <3>1, OneAlone
    <3>3. QED BY <3>2 DEF row
  <2>2. CASE IssueTokens(c)
    <3>1. CASE IssueToSingleAddress(c)
      <4>1. PICK receiver \in Receiver, amount \in Shares :
              OnTokenAnyway(c, One("issue", <<k, receiver, amount>>))
        BY <3>1 DEF IssueToSingleAddress
      <4> DEFINE row == <<k, receiver, amount>>
      <4>2. receiver \in Recipient \ Behind(G)
        <5>1. OnlyHere(G) /\ DOMAIN G = 1..Len(G) /\ Len(G) \in Nat
          BY OrderlyRecords DEF OrderlyFile
        <5>2. \A r \in 2..Len(G) : r \in DOMAIN G /\ r > 1 BY <5>1
        <5>3. \A r \in 2..Len(G) : G[r][1] \notin Receiver BY <5>1, <5>2 DEF OnlyHere
        <5>4. QED BY <5>3 DEF Recipient, Behind
      <4>3. amount \in Nat BY IssuanceAssumption
      <4>4. row \in IssuanceRows("issue", k, Recipient \ Behind(G)) BY <4>2, <4>3 DEF IssuanceRows
      <4>5. "issue" \in IssuanceOps BY DEF IssuanceOps
      <4>6. OnTokenAnyway(c, One("issue", row)) BY <4>1
      <4> HIDE DEF row, Kept
      <4>7. FileCalls(G, One("issue", row)) BY <4>4, <4>5, OneAlone
      <4>8. QED BY <1>8a, <4>5, <4>6, <4>7
    <3>2. CASE MultiIssue(c)
      <4>1. PICK data \in IssueFile, size \in IssueBatch :
              OnToken(c, CallsOf("issue", RowsFor(k, data), size))
        BY <3>2 DEF MultiIssue, VerifiedData, RowsFor
      <4> DEFINE calls == CallsOf("issue", RowsFor(k, data), size)
      <4>2. FileCalls(G, calls) BY MultiIssueCalls
      <4>3. OnToken(c, calls) BY <4>1
      <4> HIDE DEF calls, Kept
      <4>4. QED BY <1>8, <4>2, <4>3
    <3>3. QED BY <2>2, <3>1, <3>2 DEF IssueTokens
  <2>3. ASSUME NEW op \in IssuanceOps \ {"issue"}, OnToken(c, One(op, <<k>>)) PROVE Kept
    <3> DEFINE calls == One(op, <<k>>)
    <3>1. FileCalls(G, calls) /\ OnToken(c, calls) BY <2>1, <2>3
    <3> HIDE DEF calls, Kept
    <3>2. QED BY <1>8, <3>1
  <2>4. CASE ChangeFreeze(c)
    <3>1. \E op \in {"freezeTransfers", "unfreezeTransfers"} : OnToken(c, One(op, <<k>>))
      BY <2>4 DEF ChangeFreeze, FreezeTransfers
    <3>2. {"freezeTransfers", "unfreezeTransfers"} \subseteq IssuanceOps \ {"issue"}
      BY DEF IssuanceOps
    <3> HIDE DEF Kept, k
    <3>3. QED BY <2>3, <3>1, <3>2
  <2>5. CASE FreezeIssuanceShown(c)
    <3>1. OnToken(c, One("freezeIssuance", <<k>>)) BY <2>5 DEF FreezeIssuanceShown
    <3>2. "freezeIssuance" \in IssuanceOps \ {"issue"} BY DEF IssuanceOps
    <3> HIDE DEF Kept, k
    <3>3. QED BY <2>3, <3>1, <3>2
  <2>6. CASE Refresh(c)
    <3> DEFINE none == {}
               calls == FreezeTransfers(k) \o One("refreshSecurityToken", <<k>>)
               only == One("refreshSecurityToken", <<k>>)
    <3>1. Begin(c, only, none) \/ Begin(c, calls, none) BY <2>6 DEF Refresh
    <3>2. FileCalls(G, calls) BY RefreshCalls
    <3>3. FileCalls(G, only)
      <4>1. "refreshSecurityToken" \in IssuanceOps \ {"issue"} BY DEF IssuanceOps
      <4>2. QED BY <2>1, <4>1
    <3> HIDE DEF none, calls, only, Kept
    <3>4. QED BY <1>7, <3>1, <3>2, <3>3
  <2>7. QED BY <1>11, <2>2, <2>4, <2>5, <2>6 DEF Selected
<1>12. CASE Send(c, IssuanceCallAfter(ToSend(c)))
  <2>1. s.at = "sending" BY <1>12 DEF Send
  <2>2. Going(G, c, contract, s, pool) BY <1>1, <2>1 DEF IssuerRuns
  <2>3. CASE Leave(c, NextCall(s, FALSE))
    <3>1. PICK at, about : /\ NextCall(s, FALSE) = Place(at, about)
                           /\ at \notin {"sending", "waiting"}
      BY <2>2, IssuerFails
    <3>2. /\ session' = [session EXCEPT ![c] = Place(at, about)]
          /\ UNCHANGED <<contract, mempool>>
      BY <2>3, <3>1 DEF Leave
    <3> HIDE DEF Kept
    <3>3. QED BY <1>5, <3>1, <3>2
  <2>4. CASE /\ pool = {}
             /\ mempool' = [mempool EXCEPT ![c] = {ToSend(c)}]
             /\ session' = [session EXCEPT ![c].at = "waiting"]
             /\ UNCHANGED contract
    <3> DEFINE head == Head(s.calls)
               p == {head}
               t == [s EXCEPT !.at = "waiting"]
    <3>1. /\ session' = [session EXCEPT ![c] = t] /\ mempool' = [mempool EXCEPT ![c] = p]
          /\ contract' = contract
      BY <2>4 DEF ToSend
    <3>2. /\ {"at", "calls", "about", "then", "goesOn"} \subseteq DOMAIN t
          /\ t.at = "waiting" /\ t.calls = s.calls /\ t.then = s.then
          /\ t.goesOn = s.goesOn
      BY <1>1 DEF IssuerRuns
    <3>3. Waits(G, c, contract, head) BY <2>2, HeadWaits
    <3> HIDE DEF t
    <3>4. Going(G, c, contract, t, p)
      <4>1. RestOf(G, c, contract, s.calls, s.at = "sending" /\ pool # {})
              => RestOf(G, c, contract, t.calls, t.at = "sending" /\ p # {})
        BY <3>2 DEF RestOf
      <4> HIDE DEF p
      <4>2. QED BY <2>2, <3>2, <4>1 DEF Going
    <3>5. IssuerRuns(G, c, contract, t, p) BY <3>2, <3>3, <3>4 DEF IssuerRuns
    <3> HIDE DEF p, Kept
    <3>6. QED BY <1>1, <1>3, <3>1, <3>5
  <2>5. QED BY <1>12, <2>3, <2>4 DEF Send
<1>13. ASSUME NEW call \in pool, Mine(c, IssuanceCallAfter(call)) PROVE Kept
  <2> DEFINE none == {}
  <2>1. mempool' = [mempool EXCEPT ![c] = none] BY <1>13 DEF Mine
  <2> HIDE DEF none
  <2>2. \/ /\ contract' \in IssuanceCallAfter(call)
           /\ session' = [session EXCEPT ![c] = AfterReceipt(s, TRUE)]
        \/ /\ contract' = contract
           /\ session' = [session EXCEPT ![c] = AfterReceipt(s, FALSE)]
    BY <1>13 DEF Mine
  <2>3. contract' \in OrderedBooks(G, c)
    <3>1. IssuanceCallAfter(call) \subseteq OrderedBooks(G, c) BY <1>1, <1>2, WaitingCall
    <3>2. QED BY <1>1, <2>2, <3>1
  <2>4. CASE s.at = "waiting"
    <3>1. /\ Going(G, c, contract, s, pool) /\ call = Head(s.calls)
          /\ {"at", "calls", "about", "then", "goesOn"} \subseteq DOMAIN s
      BY <1>1, <1>13, <2>4 DEF IssuerRuns
    <3>2. CASE /\ contract' \in IssuanceCallAfter(call)
               /\ session' = [session EXCEPT ![c] = AfterReceipt(s, TRUE)]
      <4> DEFINE t == NextCall(s, TRUE)
                 y == contract'
      <4>1. AfterReceipt(s, TRUE) = t BY <2>4 DEF AfterReceipt
      <4>2. y \in IssuanceCallAfter(Head(s.calls)) BY <3>1, <3>2
      <4> HIDE DEF s, pool, t, y
      <4>3. IssuerRuns(G, c, y, NextCall(s, TRUE), none)
        BY <1>1, <2>4, <3>1, <4>2, IssuerGoesOn DEF none
      <4>4. IssuerRuns(G, c, contract', t, none) BY <4>3 DEF t, y
      <4> HIDE DEF Kept
      <4>5. QED BY <1>3, <2>1, <2>3, <3>2, <4>1, <4>4
    <3>3. CASE /\ contract' = contract
               /\ session' = [session EXCEPT ![c] = AfterReceipt(s, FALSE)]
      <4> DEFINE next == NextCall(s, FALSE)
      <4>1. AfterReceipt(s, FALSE) = next BY <2>4 DEF AfterReceipt
      <4>2. \A other \in none : Waits(G, c, contract, other) BY DEF none
      <4>3. IssuerRuns(G, c, contract, next, none)
        <5>1. PICK at, about : /\ next = Place(at, about)
                               /\ at \notin {"sending", "waiting"}
          BY <3>1, IssuerFails
        <5>2. IssuerRuns(G, c, contract, Place(at, about), none) BY <4>2, <5>1, IssuerRests
        <5>3. QED BY <5>1, <5>2
      <4> HIDE DEF next, Kept
      <4>4. QED BY <1>3, <2>1, <2>3, <3>3, <4>1, <4>3
    <3>4. QED BY <2>2, <3>2, <3>3
  <2>5. CASE s.at # "waiting"
    <3>1. session' = [session EXCEPT ![c] = s] BY <2>2, <2>5 DEF AfterReceipt
    <3>2. pool # {} BY <1>13
    <3> DEFINE y == contract'
    <3>3. y \in OrderedBooks(G, c) BY <2>3
    <3> HIDE DEF s, pool, y
    <3>4. IssuerRuns(G, c, y, s, none) BY <1>1, <2>5, <3>2, <3>3, IssuerStays DEF none
    <3>5. IssuerRuns(G, c, contract', s, none) BY <3>4 DEF y
    <3> HIDE DEF Kept
    <3>6. QED BY <1>3, <2>1, <2>3, <3>1, <3>5
  <2>6. QED BY <2>4, <2>5
<1>14. QED BY <1>9, <1>10, <1>11, <1>12, <1>13 DEF IssuanceStep, TokenManager

LEMMA IssuanceAtFirst == Init => IssuanceInv
<1> SUFFICES ASSUME Init, NEW G \in OrderlyFile, current = "issuance" PROVE FileInv(G)
  BY DEF IssuanceInv, FileInv
<1>1. IssuanceInit /\ SessionInit
  BY DEF Init, ConfigExistingModules, ListsInit, Lists, ApprovalsInit, RestrictionsInit,
     GeneralInit, LimitsInit, RegistryInit, PermissionsInit, WalletInit, ModulesInit
<1>2. PICK c \in Client : contract = [owner |-> c, tokens |-> <<Token>>]
  BY <1>1 DEF IssuanceInit
<1> DEFINE list == <<Token>>
<1>3. list \in Seq(TokenState) /\ Len(list) = 1 /\ list[1] = Token BY TokenIsNew
<1>4. contract.owner = c /\ contract.tokens = list BY <1>2
<1>5. contract \in IssuanceBooks(c)
  <2>1. contract = [owner |-> c, tokens |-> list] BY <1>2
  <2> HIDE DEF list
  <2>2. QED BY <1>3, <2>1 DEF IssuanceBooks
<1> HIDE DEF list
<1>6. contract \in OrderedBooks(G, c)
  <2>1. \A k \in 1..Len(list) : list[k] = Token
    <3>1. \A k \in 1..1 : k = 1 OBVIOUS
    <3>2. QED BY <1>3, <3>1
  <2>2. QED BY <1>4, <1>5, <2>1, NewIsInOrder DEF OrderedBooks
<1> DEFINE none == {}
<1>7. session[c] = AtMenu /\ mempool[c] = none BY <1>1 DEF SessionInit
<1>8. \A call \in none : Waits(G, c, contract, call) OBVIOUS
<1> HIDE DEF none
<1>9. IssuerRuns(G, c, contract, AtMenu, none) BY <1>8, IssuerRests DEF AtMenu
<1>10. /\ session = [d \in Client |-> session[d]] /\ mempool = [d \in Client |-> mempool[d]]
  BY <1>1 DEF SessionInit
<1>11. QED BY <1>4, <1>6, <1>7, <1>9, <1>10 DEF FileInv

LEMMA FileKept ==
  ASSUME NEW G \in OrderlyFile, FileInv(G), [Next]_sessionVars
  PROVE  FileInv(G)'
<1>1. CASE current = "issuance"
  <2> DEFINE o == contract.owner
  <2>1. /\ o \in Client /\ contract \in OrderedBooks(G, o)
        /\ session = [c \in Client |-> session[c]]
        /\ mempool = [c \in Client |-> mempool[c]]
        /\ IssuerRuns(G, o, contract, session[o], mempool[o])
    BY <1>1 DEF FileInv
  <2>2. CASE \E c \in Client : IssuanceStep(c) BY <2>2, IssuanceStepKeeps
  <2>3. CASE VerificationStep BY <2>3, VerificationKeeps
  <2>4. CASE \E c \in Client : Kill(c)
    <3>1. PICK c \in Client : Kill(c) BY <2>4
    <3>2. session' = [session EXCEPT ![c] = AtMenu] /\ UNCHANGED <<current, contract, mempool>>
      BY <3>1 DEF Kill, Throw, Leave
    <3>3. session'[o] \in {session[o], AtMenu} BY <2>1, <3>2
    <3>4. session' = [d \in Client |-> session'[d]] BY <2>1, <3>2
    <3>5. \A call \in mempool[o] : Waits(G, o, contract, call) BY <2>1 DEF IssuerRuns
    <3>6. IssuerRuns(G, o, contract, AtMenu, mempool[o]) BY <3>5, IssuerRests DEF AtMenu
    <3>7. IssuerRuns(G, o, contract, session'[o], mempool[o]) BY <2>1, <3>3, <3>6
    <3>8. QED BY <1>1, <2>1, <3>2, <3>4, <3>7 DEF FileInv
  <2>5. CASE UNCHANGED sessionVars \/ Tick
    <3>1. UNCHANGED <<current, contract, session, mempool>>
      BY <2>5 DEF sessionVars, Tick
    <3>2. QED BY <1>1, <2>1, <3>1 DEF FileInv
  <2>6. QED BY <1>1, <2>2, <2>3, <2>4, <2>5, StepsOf
<1>2. CASE current # "issuance" BY <1>2, ModuleStays DEF FileInv
<1>3. QED BY <1>1, <1>2

\* token_manager.js: nobody gets the tokens of a file more often than those before
\* him in it, whatever batches failed, programs were stopped and calls were late, for
\* any files whose investors get their tokens there only, and any size of batches.
THEOREM IssuedAlwaysInOrder == Spec => []IssuedInOrder
<1>1. IssuanceInv => IssuedInOrder
  <2> SUFFICES ASSUME IssuanceInv, current = "issuance", NEW k \in DOMAIN contract.tokens,
                      NEW data \in IssueFile, OnlyHere(data),
                      NEW r \in DOMAIN data, NEW later \in DOMAIN data, r < later
               PROVE  Turns(contract.tokens[k], data[later])
                        <= Turns(contract.tokens[k], data[r])
    BY DEF IssuedInOrder
  <2>1. contract \in OrderedBooks(data, contract.owner)
    BY DEF IssuanceInv, FileInv, OrderlyFile
  <2>2. contract.tokens \in Seq(TokenState) BY <2>1 DEF OrderedBooks, IssuanceBooks
  <2>3. k \in 1..Len(contract.tokens) BY <2>2
  <2>4. TurnsInOrder(contract.tokens[k], data) BY <2>1, <2>3 DEF OrderedBooks
  <2>5. QED BY <2>4 DEF TurnsInOrder
<1>2. IssuanceInv /\ [Next]_sessionVars => IssuanceInv' BY FileKept DEF IssuanceInv
<1>3. QED BY <1>1, <1>2, IssuanceAtFirst, PTL DEF Spec
=============================================================================
