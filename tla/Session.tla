------------------------------- MODULE Session -------------------------------
(***************************************************************************)
(* The interactive session of src/main.cpp (run_ui) over the account       *)
(* wrapper.  A session reads a choice from the menu, then the numbers the  *)
(* choice asks for, one by one, and then makes its call.  What is typed is *)
(* a number, a word, or nothing more: a read of a choice that fails ends   *)
(* the session, a read of a number that fails is asked again, and a read   *)
(* of a name that fails gives the empty name.                              *)
(***************************************************************************)
EXTENDS OrderBook

CONSTANTS Numbers,   \* integers that are typed where a number is asked for
          CallCap    \* bound: calls of options 2, 4, 5 and 6 in a session

ASSUME SessionAssumption == Numbers \subseteq Int

VARIABLES
  ui,           \* the choice that is served, and the numbers typed for it
  currentUser, hasUser,
  inputEnded,   \* no more input will come
  signedUp,     \* the users that this session signed up
  calls

sessionVars == <<ui, currentUser, hasUser, inputEnded, signedUp, calls>>

AtMenu == [choice |-> 0, typed |-> <<>>]
Over == [choice |-> 10, typed |-> <<>>]
Bounded == {2, 4, 5, 6}

\* How many numbers a choice asks for.
Asks(choice) == CASE choice \in {2, 4, 5} -> 2
                  [] choice \in {6, 8, 9} -> 1
                  [] OTHER -> 0
Prompting == Len(ui.typed) < Asks(ui.choice)

\* A number read into an unsigned 64-bit variable, a negative one modulo 2^64,
\* and cut to 32 bits, or to a signed price.
AsU32(n) == n % QtyMod
AsPrice(n) == LET m == n % QtyMod IN IF m < QtyMod \div 2 THEN m ELSE m - QtyMod
------------------------------------------------------------------------------
\* run_ui builds the book; user 0, a market maker, is current but not signed up.
InitSession ==
  /\ Init
  /\ ui = AtMenu
  /\ currentUser = 0 /\ hasUser = FALSE
  /\ inputEnded = FALSE
  /\ signedUp = {} /\ calls = 0

EndInput ==
  /\ ~inputEnded
  /\ inputEnded' = TRUE
  /\ UNCHANGED <<vars, ui, currentUser, hasUser, signedUp, calls>>

\* Seeded fault: the guard lets the balance option through too.
NeedsUser_NotForBalance(choice) == choice \notin {1, 2, 3}

NeedsUser(choice) == choice \notin {1, 3}

\* A number is read at the menu.  Options 3 and 7 only show what they read, and
\* a number that is no option does nothing.
Choose(choice) ==
  /\ ui = AtMenu /\ CanCall /\ ~inputEnded
  /\ choice \in Bounded => calls < CallCap
  /\ ui' = IF (~hasUser /\ NeedsUser(choice)) \/ choice \in {3, 7} THEN AtMenu
           ELSE [choice |-> choice, typed |-> <<>>]
  /\ UNCHANGED <<vars, currentUser, hasUser, inputEnded, signedUp, calls>>

\* Option 10, a word, or the end of the input.
Leave ==
  /\ ui = AtMenu /\ CanCall
  /\ ui' = Over
  /\ UNCHANGED <<vars, currentUser, hasUser, inputEnded, signedUp, calls>>

\* Seeded fault: the name is asked for again when the read fails.
NamesRead_AskAgain == IF inputEnded THEN {} ELSE Names

\* Any word is a name; a failed read leaves the empty one.
NamesRead == IF inputEnded THEN {""} ELSE Names

SignUp ==
  /\ ui.choice = 1
  /\ \E name \in NamesRead :
       /\ MakeUser(name)
       /\ currentUser' = CHOOSE u \in DOMAIN users' : users'[u].name = name
  /\ hasUser' = TRUE
  /\ signedUp' = signedUp \cup {currentUser'}
  /\ ui' = AtMenu
  /\ UNCHANGED <<inputEnded, calls>>

ReadNumber(n) ==
  /\ Prompting /\ ~inputEnded
  /\ ui' = [ui EXCEPT !.typed = Append(@, n)]
  /\ UNCHANGED <<vars, currentUser, hasUser, inputEnded, signedUp, calls>>

\* The read of a number fails, at a word or at the end of the input: ask again.
AskAgain == Prompting /\ UNCHANGED <<vars, sessionVars>>

\* Option 2.
UpdateBalance ==
  /\ ui.choice = 2
  /\ LET quote == ui.typed[1]
     IN IF quote < 0 /\ users[currentUser].quote + quote < 0
        THEN UNCHANGED vars
        ELSE AddBalance(currentUser, quote, AsU32(ui.typed[2]))

\* Options 4, 5 and 6; a submission that is not funded is refused.
PlaceOrder(side, price, qty, market) ==
  IF ~Funded(currentUser, side, price, qty) THEN UNCHANGED vars
  ELSE IF market THEN AddMarketOrder(currentUser, side, qty)
  ELSE AddOrder(currentUser, side, price, qty, FALSE)

\* Options 8 and 9.
CancelById(side, id) ==
  IF MayCancel(currentUser, id, side) THEN CancelOrder(currentUser, id, side)
  ELSE UNCHANGED vars

\* The call that a choice makes once its numbers are read.
Call ==
  /\ CanCall /\ Asks(ui.choice) > 0 /\ ~Prompting
  /\ LET n == ui.typed
     IN \/ UpdateBalance
        \/ ui.choice = 4 /\ PlaceOrder(Engine!Buy, AsPrice(n[1]), AsU32(n[2]), FALSE)
        \/ ui.choice = 5 /\ PlaceOrder(Engine!Sell, AsPrice(n[1]), AsU32(n[2]), FALSE)
        \/ ui.choice = 6 /\ PlaceOrder(Engine!Buy, PriceMax, AsU32(n[1]), TRUE)
        \/ ui.choice = 8 /\ CancelById(Engine!Buy, AsU32(n[1]))
        \/ ui.choice = 9 /\ CancelById(Engine!Sell, AsU32(n[1]))
  /\ calls' = IF ui.choice \in Bounded THEN calls + 1 ELSE calls
  /\ ui' = AtMenu
  /\ UNCHANGED <<currentUser, hasUser, inputEnded, signedUp>>

\* Inside a call, and inside the constructor.
InsideCall ==
  /\ SeedOrder \/ EngineStep \/ Rollback \/ Settle \/ Finish
  /\ UNCHANGED sessionVars

NextSession ==
  \/ EndInput
  \/ \E choice \in 1..9 : Choose(choice)
  \/ Leave
  \/ SignUp
  \/ \E n \in Numbers : ReadNumber(n)
  \/ AskAgain
  \/ Call
  \/ InsideCall

\* The program runs, and a read at the end of the input returns at once.
Proceed == Call \/ InsideCall \/ (inputEnded /\ (SignUp \/ Leave))
SpecSession ==
  InitSession /\ [][NextSession]_<<vars, sessionVars>> /\ WF_<<vars, sessionVars>>(Proceed)
------------------------------------------------------------------------------
(***************************************************************************)
(* Properties.                                                             *)
(***************************************************************************)
\* The session acts for the users it signed up and for nobody else: the market
\* makers, the first of whom is the current user from the start, keep their
\* balances and their orders through every call made before a sign-up and
\* after one; only trades may change them.
Untouched(u) ==
  /\ users'[u] = users[u]
  /\ \A id \in 1..Len(orders') :
       orders'[id].user = u => id <= Len(orders) /\ orders'[id] = orders[id]
ActsForSignedUp ==
  [][CanCall => \A u \in UserIds \ signedUp' : Untouched(u)]_<<vars, sessionVars>>

\* When the input ends the session ends, whatever was going on, unless a number
\* is asked for: that prompt asks for ever.
EndsWithInput == (inputEnded /\ ~Prompting) ~> (ui = Over)
=============================================================================
