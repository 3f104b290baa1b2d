----------------------------- MODULE OrderEntry -----------------------------
(***************************************************************************)
(* The forms of the web interface that ask the gateway to create something *)
(* -- the order form, the amend dialog, the withdrawal page and the panel  *)
(* that moves funds to and from trading -- and the gateway's idempotency   *)
(* as they rely on it.  A person types, submits, is told that it failed    *)
(* although it may not have, edits, and submits again; a request given up  *)
(* on may still arrive.                                                    *)
(*                                                                         *)
(* One form is on screen.  What a person typed is one of a few orders, or  *)
(* amounts; a `wish' counts what the person means: pressing again with the *)
(* same input after a failure is the same wish.                            *)
(***************************************************************************)
EXTENDS OrderRules

CONSTANTS Typings,     \* orders a person may type
          Amounts,     \* amounts a person may type
          References,  \* prices the collar may be centred on, 0 for none
          Listed,      \* the market on screen
          Purse,       \* what may be spent of each asset
          MaxPresses,  \* submissions, and openings of the dialog
          MaxLost      \* requests whose answer the browser gives up on

VARIABLES desk,     \* the form, and the call it waits for
          gateway,  \* what has been created, and the assertion's freshness
          late,     \* requests given up on that may still arrive
          meant     \* what the person means, and what they were told

entryVars == <<desk, gateway, late, meant>>

Forms == {"order", "amend", "send", "transfer"}
SteppedUp == {"send", "transfer"}
Nothing == [qty |-> 0]
NoIntent == [fingerprint |-> Nothing, id |-> 0]
NoCall == [id |-> 0, body |-> Nothing, attempt |-> 0, press |-> 0, wish |-> 0]

-----------------------------------------------------------------------------
(* The draft.                                                                *)

\* A market order is sent as IOC and never post-only; the checks and the hold
\* are the gateway's own.
draftOrder(typed, reference) ==
  LET limit == typed.type = "limit"
      request == [side |-> typed.side, type |-> typed.type,
                  timeInForce |-> IF limit THEN typed.timeInForce ELSE "IOC",
                  postOnly |-> limit /\ typed.postOnly,
                  price |-> IF limit THEN typed.price ELSE NONE, qty |-> typed.qty]
      ok == validateOrder(request, Listed, reference) = {}
  IN  [ok |-> ok, body |-> request,
       hold |-> IF ok THEN computeHold(request, Listed, reference).amount ELSE 0]

\* A typed amount has the asset's precision and is more than zero.
parseAmount(amount) == [ok |-> amount.fits /\ amount.qty > 0, body |-> [qty |-> amount.qty]]

drafted ==
  IF desk.typed = Nothing THEN [ok |-> FALSE, body |-> Nothing]
  ELSE IF desk.form # "order" THEN parseAmount(desk.typed)
  ELSE draftOrder(desk.typed, desk.reference)

short == drafted.hold > (IF desk.typed.side = "buy" THEN Purse.quote ELSE Purse.base)

typeIn ==
  /\ \E t \in IF desk.form = "order" THEN Typings ELSE Amounts : desk' = [desk EXCEPT !.typed = t]
  /\ UNCHANGED <<gateway, late, meant>>

referenceMoves ==
  /\ desk.form = "order"
  /\ \E r \in References : desk' = [desk EXCEPT !.reference = r]
  /\ UNCHANGED <<gateway, late, meant>>

\* Opening the amend dialog gives it its one id.
openDialog ==
  /\ desk.form = "amend" /\ ~desk.open /\ gateway.resting /\ desk.ids < MaxPresses
  /\ desk' = [desk EXCEPT !.open = TRUE, !.typed = Nothing, !.call = NoCall,
                          !.intent = [fingerprint |-> Nothing, id |-> desk.ids + 1],
                          !.ids = @ + 1]
  /\ meant' = [meant EXCEPT !.failed = FALSE]
  /\ UNCHANGED <<gateway, late>>

closeDialog ==
  /\ desk.form = "amend" /\ desk.open
  /\ desk' = [desk EXCEPT !.open = FALSE, !.call = NoCall]
  /\ late' = late \cup (IF desk.call = NoCall THEN {} ELSE {desk.call})
  /\ UNCHANGED <<gateway, meant>>

-----------------------------------------------------------------------------
(* Submitting.                                                               *)

\* Mutation: the id outlives an edit of the order.
orderIntentOfForm(body) ==
  IF desk.intent.id # 0 THEN desk.intent ELSE [fingerprint |-> body, id |-> desk.ids + 1]

\* Mutation: every press has an id of its own.
orderIntentOfPress(body) == [fingerprint |-> body, id |-> desk.ids + 1]

\* The order form keeps the id it gave the order until the order is placed or
\* edited.
orderIntent(body) ==
  IF desk.intent.id # 0 /\ desk.intent.fingerprint = body THEN desk.intent
  ELSE [fingerprint |-> body, id |-> desk.ids + 1]

newIdempotencyKey(body) == [fingerprint |-> body, id |-> desk.ids + 1]

sameWish(body) ==
  meant.failed /\ (desk.form = "amend" \/ meant.body = body)

\* One submit of the form on screen; a second while it waits is ignored.
press(body, intent) ==
  LET wish == IF sameWish(body) THEN meant.wish ELSE meant.wish + 1
  IN  /\ desk.call = NoCall /\ meant.presses < MaxPresses
      /\ desk' = [desk EXCEPT !.intent = intent,
                              !.ids = IF intent.id > @ THEN intent.id ELSE @,
                              !.call = [id |-> intent.id, body |-> body, attempt |-> 1,
                                        press |-> meant.presses + 1, wish |-> wish]]
      /\ meant' = [meant EXCEPT !.presses = @ + 1, !.wish = wish, !.body = body,
                                !.failed = FALSE]
      /\ UNCHANGED <<gateway, late>>

submitOrder ==
  /\ desk.form = "order" /\ drafted.ok /\ ~short
  /\ press(drafted.body, orderIntent(drafted.body))

submitAmend ==
  /\ desk.form = "amend" /\ desk.open /\ drafted.ok
  /\ press(drafted.body, desk.intent)

submitWithdrawal ==
  /\ desk.form = "send" /\ drafted.ok /\ drafted.body.qty <= Purse.base
  /\ press(drafted.body, newIdempotencyKey(drafted.body))

\* Into trading from the wallet, or out of it.
submitTransfer ==
  /\ desk.form = "transfer" /\ drafted.ok
  /\ \E source \in {Purse.base, Purse.quote} : drafted.body.qty <= source
  /\ press(drafted.body, newIdempotencyKey(drafted.body))

-----------------------------------------------------------------------------
(* The gateway: the unique indexes on (user, client order id) and (user,     *)
(* idempotency key) make a repeated id an answer about the same row.         *)

known(id) == \E row \in gateway.rows : row.id = id

rowOf(call) == [id |-> call.id, body |-> call.body, press |-> call.press, wish |-> call.wish]

\* The answer to a call, and the gateway after it.
created(call) ==
  [gateway EXCEPT !.rows = IF known(call.id) THEN @ ELSE @ \cup {rowOf(call)}]

\* A withdrawal asks for a fresh assertion before it looks at the request;
\* an amend looks at the old order before it looks at the id.
outcomes(call) ==
  LET stale == desk.form \in SteppedUp /\ ~gateway.fresh
      notResting == desk.form = "amend" /\ ~gateway.resting
      placed == IF desk.form = "amend" /\ ~known(call.id)
                THEN [created(call) EXCEPT !.resting = FALSE] ELSE created(call)
  IN  CASE stale -> {[answer |-> "STEP_UP_REQUIRED", gateway |-> gateway]}
        [] notResting -> {[answer |-> "refused", gateway |-> gateway]}
        [] OTHER -> {[answer |-> "ok", gateway |-> placed]}
                    \cup (IF known(call.id) THEN {}
                          ELSE {[answer |-> "refused", gateway |-> gateway]})

told(call) == [id |-> call.id, body |-> call.body]

\* What the form does with an answer: run() tries once more after a step-up.
succeeded ==
  /\ desk' = [desk EXCEPT !.call = NoCall, !.typed = Nothing,
                          !.intent = IF desk.form = "order" THEN NoIntent ELSE @,
                          !.open = IF desk.form = "amend" THEN FALSE ELSE @]
  /\ meant' = [meant EXCEPT !.told = @ \cup {told(desk.call)}]

failed ==
  /\ desk' = [desk EXCEPT !.call = NoCall]
  /\ meant' = [meant EXCEPT !.failed = TRUE]

request ==
  /\ desk.call # NoCall /\ desk.call.attempt \in {1, 3}
  /\ \E o \in outcomes(desk.call) :
       /\ gateway' = o.gateway
       /\ CASE o.answer = "ok" -> succeeded
            [] o.answer = "STEP_UP_REQUIRED" /\ desk.call.attempt = 1 ->
                 desk' = [desk EXCEPT !.call.attempt = 2] /\ UNCHANGED meant
            [] OTHER -> failed
  /\ UNCHANGED late

stepUp ==
  /\ desk.call.attempt = 2
  /\ \/ /\ desk' = [desk EXCEPT !.call.attempt = 3]
        /\ gateway' = [gateway EXCEPT !.fresh = TRUE]
        /\ UNCHANGED meant
     \/ failed /\ UNCHANGED gateway
  /\ UNCHANGED late

assertionAges ==
  /\ desk.form \in SteppedUp /\ gateway.fresh
  /\ gateway' = [gateway EXCEPT !.fresh = FALSE]
  /\ UNCHANGED <<desk, late, meant>>

\* The answer is lost, or the request is, or the request is only delayed.
transportFails ==
  /\ desk.call.attempt \in {1, 3}
  /\ meant.lost < MaxLost
  /\ desk' = [desk EXCEPT !.call = NoCall]
  /\ meant' = [meant EXCEPT !.failed = TRUE, !.lost = @ + 1]
  /\ \/ \E o \in outcomes(desk.call) : gateway' = o.gateway /\ UNCHANGED late
     \/ late' = late \cup {desk.call} /\ UNCHANGED gateway

lateArrives ==
  \E call \in late :
    /\ late' = late \ {call}
    /\ \E o \in outcomes(call) : gateway' = o.gateway
    /\ UNCHANGED <<desk, meant>>

\* The gateway stops after the replacement is held and before the old order
\* is marked: the replacement exists and the old order still rests.
gatewayDies ==
  /\ desk.form = "amend" /\ desk.call.attempt = 1 /\ gateway.resting /\ ~known(desk.call.id)
  /\ meant.lost < MaxLost
  /\ gateway' = created(desk.call)
  /\ desk' = [desk EXCEPT !.call = NoCall]
  /\ meant' = [meant EXCEPT !.failed = TRUE, !.lost = @ + 1]
  /\ UNCHANGED late

-----------------------------------------------------------------------------

EntryInit ==
  /\ \E f \in Forms, r \in References :
       /\ f = "order" \/ r = NONE
       /\ desk = [form |-> f, typed |-> Nothing, reference |-> r, intent |-> NoIntent,
                  ids |-> 0, open |-> FALSE, call |-> NoCall]
  /\ \E fresh \in IF desk.form \in SteppedUp THEN BOOLEAN ELSE {TRUE} :
       gateway = [rows |-> {}, fresh |-> fresh, resting |-> TRUE]
  /\ late = {}
  /\ meant = [presses |-> 0, wish |-> 0, body |-> Nothing, failed |-> FALSE, told |-> {},
              lost |-> 0]

EntryNext ==
  \/ typeIn \/ referenceMoves \/ openDialog \/ closeDialog
  \/ submitOrder \/ submitAmend \/ submitWithdrawal \/ submitTransfer
  \/ request \/ stepUp \/ assertionAges \/ transportFails \/ lateArrives \/ gatewayDies

-----------------------------------------------------------------------------
(* Properties.                                                               *)

SameIntent(r, s) ==
  IF desk.form \in SteppedUp THEN r.press = s.press ELSE r.wish = s.wish

\* However often an answer is lost and the person presses submit again, and
\* whenever the earlier requests arrive, one order as meant is one order at
\* the gateway, one amend one replacement, and one press of a withdrawal or
\* transfer, with its retry after a step-up, one withdrawal.
OneRowPerIntent ==
  \A r, s \in gateway.rows : SameIntent(r, s) => r = s

\* An order the form reported as placed is at the gateway with the terms that
\* were on screen when it was submitted: an id is never reused for an order
\* edited after a failure.
PlacedAsAsked ==
  desk.form = "order" =>
    \A t \in meant.told : \E row \in gateway.rows : row.id = t.id /\ row.body = t.body

\* A form's ids tell its intents apart: a retry is not a second order, and an
\* edit is not the first one.
FormsMeanWhatTheySend == OneRowPerIntent /\ PlacedAsAsked

\* A withdrawal that failed on screen and is submitted again unchanged is the
\* same withdrawal.
RetryIsSameWithdrawal ==
  \A r, s \in gateway.rows : r.wish = s.wish => r = s

=============================================================================
