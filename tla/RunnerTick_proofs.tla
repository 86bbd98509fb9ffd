------------------------- MODULE RunnerTick_proofs -------------------------
(***************************************************************************)
(* Four results on the trading tick, for every market, every set of        *)
(* forecasts and readings, and any number of crashes.                      *)
(*                                                                         *)
(* One bot trades an event key at most once per token and keeps every      *)
(* position within its budget: OncePerKey and WithinBudget, which two bots *)
(* break.  OncePerKey itself says nothing of a bot that is about to buy.   *)
(* The inductive invariant KeyInv adds why it may: the tokens it still has *)
(* in hand were not bought under its key (NotYetBought), and once they     *)
(* leave its hands the key is in the table (MarkedFirst), so that no later *)
(* tick, after a crash or not, takes the same key up again.  RoomInv does  *)
(* the same for the budget.                                                *)
(*                                                                         *)
(* Any number of bots keep TypeOK, and none of them buys a side that the   *)
(* readings had made worthless when its tick began (NoDeadEntries).        *)
(***************************************************************************)
EXTENDS RunnerTick, FiniteSetTheorems, TLAPS

\* The locals of every bot are a record with the fields of Idle.
Fields == {"pc", "seen", "key", "event", "move", "todo", "left", "check", "buy", "room", "back"}

BotShape(b) ==
  /\ bot = [c \in Bots |-> bot[c]]
  /\ DOMAIN bot[b] = Fields

\* What was bought was bought under a marked key.
BoughtMarked == \A x \in bought : x.key \in processed

\* A bot works on one event at a time.
OneEvent(b) == \A j, k \in bot[b].key : j = k

\* The token in hand is not among those still to come.
InHandOnce(b) == bot[b].buy \cap bot[b].left = {}

\* What is in hand or still to come was not bought under this key.
NotYetBought(b) ==
  \A x \in bought : x.key \in bot[b].key => x.token \notin bot[b].left \cup bot[b].buy

\* A bot that buys has its key in the table.
MarkedFirst(b) ==
  bot[b].pc \in {"change_buys", "guard", "fill"} => bot[b].key \subseteq processed

\* A forecast change whose exits are under way has bought nothing.
FreshChange(b) ==
  bot[b].pc = "change_exits" =>
    /\ bot[b].move = bot[b].key /\ bot[b].buy = {}
    /\ \A x \in bought : x.key \notin bot[b].key

\* A buy returns to its loop, or to the forecast changes.
Resumes(b) == bot[b].back \in {"idle", "change", "bucket", "change_buys"}

KeyInv(b) ==
  /\ BotShape(b) /\ OncePerKey /\ BoughtMarked
  /\ OneEvent(b) /\ InHandOnce(b) /\ NotYetBought(b)
  /\ MarkedFirst(b) /\ FreshChange(b) /\ Resumes(b)

-----------------------------------------------------------------------------
\* What a bot has in hand between its loops: nothing.
EmptyHanded(r) ==
  /\ DOMAIN r = Fields
  /\ r.key = {} /\ r.left = {} /\ r.buy = {} /\ r.back = "idle" /\ r.room = 0

Buying == {"change_exits", "change_buys", "guard", "fill"}

LEMMA IdleEmpty == EmptyHanded(Idle) /\ Idle.pc = "idle" /\ Idle.move = {}
  BY DEF EmptyHanded, Idle, Fields

LEMMA ClearedEmpty ==
  ASSUME NEW b, NEW pc
  PROVE  /\ EmptyHanded(Cleared(b, pc))
         /\ Cleared(b, pc).pc = pc /\ Cleared(b, pc).move = {}
  BY IdleEmpty DEF EmptyHanded, Cleared, Fields

\* The locals that a step assigns to a bot are its new locals.
LEMMA Assigned ==
  ASSUME NEW b \in Bots, bot = [c \in Bots |-> bot[c]],
         NEW R, bot' = [bot EXCEPT ![b] = R]
  PROVE  bot'[b] = R /\ bot' = [c \in Bots |-> bot'[c]]
  OBVIOUS

\* Steps that leave a bot with nothing in hand, outside the loops that buy.
LEMMA NothingInHand ==
  ASSUME NEW b \in Bots, KeyInv(b), NEW R, EmptyHanded(R), R.pc \notin Buying,
         bot' = [bot EXCEPT ![b] = R],
         processed \subseteq processed', bought' = bought, again' = again
  PROVE  KeyInv(b)'
<1>1. bot'[b] = R /\ bot' = [c \in Bots |-> bot'[c]]
  BY Assigned DEF KeyInv, BotShape
<1>2. BotShape(b)'
  BY <1>1 DEF BotShape, EmptyHanded
<1>3. OncePerKey' /\ BoughtMarked'
  BY DEF KeyInv, OncePerKey, BoughtMarked
<1>4. OneEvent(b)' /\ InHandOnce(b)' /\ NotYetBought(b)'
  BY <1>1 DEF OneEvent, InHandOnce, NotYetBought, EmptyHanded
<1>5. MarkedFirst(b)' /\ FreshChange(b)' /\ Resumes(b)'
  BY <1>1 DEF MarkedFirst, FreshChange, Resumes, EmptyHanded, Buying
<1> QED  BY <1>2, <1>3, <1>4, <1>5 DEF KeyInv

\* Steps that stay with the event in hand and buy nothing.
LEMMA SameEvent ==
  ASSUME NEW b \in Bots, KeyInv(b), NEW R, DOMAIN R = Fields,
         R.key = bot[b].key, R.left \cup R.buy \subseteq bot[b].left \cup bot[b].buy,
         R.buy \cap R.left = {}, R.back \in {"idle", "change", "bucket", "change_buys"},
         R.pc \in {"change_buys", "guard", "fill"} => R.key \subseteq processed',
         R.pc = "change_exits" =>
           bot[b].pc = "change_exits" /\ R.move = bot[b].move /\ R.buy = bot[b].buy,
         bot' = [bot EXCEPT ![b] = R],
         processed \subseteq processed', bought' = bought, again' = again
  PROVE  KeyInv(b)'
<1>1. bot'[b] = R /\ bot' = [c \in Bots |-> bot'[c]]
  BY Assigned DEF KeyInv, BotShape
<1>2. BotShape(b)'
  BY <1>1 DEF BotShape
<1>3. OncePerKey' /\ BoughtMarked'
  BY DEF KeyInv, OncePerKey, BoughtMarked
<1>4. OneEvent(b)' /\ InHandOnce(b)'
  BY <1>1 DEF KeyInv, OneEvent, InHandOnce
<1>5. NotYetBought(b)'
  BY <1>1 DEF KeyInv, NotYetBought
<1>6. MarkedFirst(b)'
  BY <1>1 DEF MarkedFirst
<1>7. FreshChange(b)'
  BY <1>1 DEF KeyInv, FreshChange
<1>8. Resumes(b)'
  BY <1>1 DEF Resumes
<1> QED  BY <1>2, <1>3, <1>4, <1>5, <1>6, <1>7, <1>8 DEF KeyInv

\* Steps that take up an event whose key is not in the table.
LEMMA NewEvent ==
  ASSUME NEW b \in Bots, KeyInv(b), NEW k, k \notin processed,
         NEW R, DOMAIN R = Fields, R.key = {k}, R.buy \cap R.left = {},
         R.back \in {"idle", "change", "bucket", "change_buys"},
         R.pc \notin {"change_buys", "guard", "fill"},
         R.pc = "change_exits" => R.move = {k} /\ R.buy = {},
         bot' = [bot EXCEPT ![b] = R],
         processed' = processed, bought' = bought, again' = again
  PROVE  KeyInv(b)'
<1>1. bot'[b] = R /\ bot' = [c \in Bots |-> bot'[c]]
  BY Assigned DEF KeyInv, BotShape
<1>2. \A x \in bought : x.key # k
  BY DEF KeyInv, BoughtMarked
<1>3. BotShape(b)'
  BY <1>1 DEF BotShape
<1>4. OncePerKey' /\ BoughtMarked'
  BY DEF KeyInv, OncePerKey, BoughtMarked
<1>5. OneEvent(b)' /\ InHandOnce(b)'
  BY <1>1 DEF OneEvent, InHandOnce
<1>6. NotYetBought(b)' /\ FreshChange(b)'
  BY <1>1, <1>2 DEF NotYetBought, FreshChange
<1>7. MarkedFirst(b)' /\ Resumes(b)'
  BY <1>1 DEF MarkedFirst, Resumes
<1> QED  BY <1>3, <1>4, <1>5, <1>6, <1>7 DEF KeyInv

\* Steps of the world around the bots.
LEMMA Elsewhere ==
  ASSUME NEW b, KeyInv(b), UNCHANGED <<bot, processed, bought, again>>
  PROVE  KeyInv(b)'
  BY DEF KeyInv, BotShape, OncePerKey, BoughtMarked, OneEvent, InHandOnce, NotYetBought,
         MarkedFirst, FreshChange, Resumes

-----------------------------------------------------------------------------
\* The actions that begin an event, one by one.
LEMMA ValueOfferKeeps ==
  ASSUME NEW b \in Bots, KeyInv(b), ValueOffer(b)
  PROVE  KeyInv(b)'
<1>1. PICK o \in ValueOffers :
        /\ IsValueOffer(o)
        /\ bot' = [bot EXCEPT ![b] = [Cleared(b, "value_mark") EXCEPT
                     !.key = {o}, !.event = {o}, !.back = "change", !.buy = {<<o.bucket, "YES">>}]]
  BY DEF ValueOffer
<1> DEFINE R == [Cleared(b, "value_mark") EXCEPT
                   !.key = {o}, !.event = {o}, !.back = "change", !.buy = {<<o.bucket, "YES">>}]
<1>2. /\ DOMAIN R = Fields /\ R.key = {o} /\ R.buy \cap R.left = {}
      /\ R.back = "change" /\ R.pc = "value_mark"
  BY ClearedEmpty DEF EmptyHanded, Fields
<1>3. o \notin processed
  BY <1>1 DEF IsValueOffer
<1>4. bot' = [bot EXCEPT ![b] = R]
  BY <1>1
<1>5. processed' = processed /\ bought' = bought /\ again' = again
  BY DEF ValueOffer
<1> HIDE DEF R
<1> QED  BY <1>2, <1>3, <1>4, <1>5, NewEvent

LEMMA ChangeReadKeeps ==
  ASSUME NEW b \in Bots, KeyInv(b), ChangeRead(b)
  PROVE  KeyInv(b)'
<1>1. PICK c \in ForecastChanges :
        /\ IsFreshChange(c)
        /\ bot' = [bot EXCEPT ![b] = [Cleared(b, "change_exits") EXCEPT
                     !.key = {c}, !.move = {c}, !.check = HeldTokens,
                     !.event = {[type |-> "forecast_change", oldUpd |-> c.oldUpd,
                                 newUpd |-> c.newUpd]}]]
  BY DEF ChangeRead
<1> DEFINE E == {[type |-> "forecast_change", oldUpd |-> c.oldUpd, newUpd |-> c.newUpd]}
           R == [Cleared(b, "change_exits") EXCEPT
                   !.key = {c}, !.move = {c}, !.check = HeldTokens, !.event = E]
<1>2. bot' = [bot EXCEPT ![b] = R]
  BY <1>1
<1> HIDE DEF E
<1>3. /\ DOMAIN R = Fields /\ R.key = {c} /\ R.buy \cap R.left = {}
      /\ R.back = "idle" /\ R.pc = "change_exits" /\ R.move = {c} /\ R.buy = {}
  BY ClearedEmpty DEF EmptyHanded, Fields
<1>4. c \notin processed
  BY <1>1 DEF IsFreshChange
<1>5. processed' = processed /\ bought' = bought /\ again' = again
  BY DEF ChangeRead
<1> HIDE DEF R
<1> QED  BY <1>2, <1>3, <1>4, <1>5, NewEvent

LEMMA TransitionKeeps ==
  ASSUME NEW b \in Bots, KeyInv(b), Transition(b)
  PROVE  KeyInv(b)'
<1>0. processed' = processed /\ bought' = bought /\ again' = again /\ bot[b].pc = "transition"
  BY DEF Transition, At
<1>1. PICK r \in bot[b].todo :
        LET key == ActualKey(r, EffectiveForecast)
            rest == bot[b].todo \ {r}
        IN  IF key \in processed \/ (Kind = "lowest" /\ EffectiveForecast = {})
            THEN bot' = [bot EXCEPT ![b].todo = rest]
            ELSE bot' = [bot EXCEPT ![b] = [Cleared(b, "bucket") EXCEPT
                   !.todo = rest, !.key = {key}, !.event = {ActualEvent(r)},
                   !.move = {r}, !.left = CrossedTokens(r)]]
  BY DEF Transition
<1> DEFINE k == ActualKey(r, EffectiveForecast)
           T == bot[b].todo \ {r}
<1>2. CASE bot' = [bot EXCEPT ![b].todo = T]
  <2> DEFINE R == [bot[b] EXCEPT !.todo = T]
  <2>1. bot' = [bot EXCEPT ![b] = R]
    BY <1>2
  <2> HIDE DEF T
  <2>2. /\ DOMAIN R = Fields /\ R.key = bot[b].key /\ R.left = bot[b].left
        /\ R.buy = bot[b].buy /\ R.back = bot[b].back /\ R.pc = "transition"
    BY <1>0 DEF KeyInv, BotShape, Fields
  <2> HIDE DEF R
  <2> QED  BY <1>0, <2>1, <2>2, SameEvent DEF KeyInv, InHandOnce, Resumes
<1>3. CASE /\ k \notin processed
           /\ bot' = [bot EXCEPT ![b] = [Cleared(b, "bucket") EXCEPT
                   !.todo = T, !.key = {k}, !.event = {ActualEvent(r)},
                   !.move = {r}, !.left = CrossedTokens(r)]]
  <2> DEFINE R == [Cleared(b, "bucket") EXCEPT !.todo = T, !.key = {k},
                     !.event = {ActualEvent(r)}, !.move = {r}, !.left = CrossedTokens(r)]
  <2>1. bot' = [bot EXCEPT ![b] = R]
    BY <1>3
  <2> HIDE DEF T, k
  <2>2. /\ DOMAIN R = Fields /\ R.key = {k} /\ R.buy \cap R.left = {}
        /\ R.back = "idle" /\ R.pc = "bucket"
    BY ClearedEmpty DEF EmptyHanded, Fields
  <2> HIDE DEF R
  <2> QED  BY <1>0, <1>3, <2>1, <2>2, NewEvent
<1> QED  BY <1>1, <1>2, <1>3

-----------------------------------------------------------------------------
\* The actions that go on with an event.
LEMMA ValueMarkKeeps ==
  ASSUME NEW b \in Bots, KeyInv(b), ValueMark(b)
  PROVE  KeyInv(b)'
<1>1. PICK tk \in bot[b].buy :
        bot' = [bot EXCEPT ![b].pc = "guard", ![b].room = RemainingBudget(tk)]
  BY DEF ValueMark
<1> DEFINE N == RemainingBudget(tk)
           R == [bot[b] EXCEPT !.pc = "guard", !.room = N]
<1> HIDE DEF N
<1>2. bot' = [bot EXCEPT ![b] = R]
  BY <1>1 DEF KeyInv, BotShape, N
<1>3. /\ DOMAIN R = Fields /\ R.key = bot[b].key /\ R.left = bot[b].left
      /\ R.buy = bot[b].buy /\ R.back = bot[b].back /\ R.pc = "guard"
  BY DEF KeyInv, BotShape, Fields
<1>4. processed' = processed \cup bot[b].key /\ bought' = bought /\ again' = again
  BY DEF ValueMark
<1> HIDE DEF R
<1> QED  BY <1>2, <1>3, <1>4, SameEvent DEF KeyInv, InHandOnce, Resumes

LEMMA CheckKeeps ==
  ASSUME NEW b \in Bots, KeyInv(b), ForecastExit(b) \/ OpenExit(b)
  PROVE  KeyInv(b)'
<1>1. PICK tk : bot' = [bot EXCEPT ![b].check = @ \ {tk}]
  BY DEF ForecastExit, OpenExit
<1> DEFINE C == bot[b].check \ {tk}
           R == [bot[b] EXCEPT !.check = C]
<1> HIDE DEF C
<1>2. bot' = [bot EXCEPT ![b] = R]
  BY <1>1 DEF KeyInv, BotShape, C
<1>3. /\ DOMAIN R = Fields /\ R.key = bot[b].key /\ R.left = bot[b].left
      /\ R.buy = bot[b].buy /\ R.back = bot[b].back /\ R.pc = bot[b].pc
      /\ R.move = bot[b].move
  BY DEF KeyInv, BotShape, Fields
<1>4. /\ processed' = processed /\ bought' = bought /\ again' = again
      /\ bot[b].pc \in {"change_exits", "exits"}
  BY DEF ForecastExit, OpenExit, At
<1> HIDE DEF R
<1> QED  BY <1>2, <1>3, <1>4, SameEvent DEF KeyInv, InHandOnce, Resumes

LEMMA ChangeCandidatesKeeps ==
  ASSUME NEW b \in Bots, KeyInv(b), ChangeCandidates(b)
  PROVE  KeyInv(b)'
<1>0. bought' = bought /\ again' = again /\ bot[b].pc = "change_exits"
  BY DEF ChangeCandidates, At
<1>1. PICK c \in bot[b].move, missing \in BOOLEAN, chosen \in SUBSET Tokens :
        IF chosen = {}
        THEN /\ GoTo(b, "actual")
             /\ processed' = IF missing THEN processed ELSE processed \cup {c}
        ELSE /\ bot' = [bot EXCEPT ![b].pc = "change_buys", ![b].left = chosen]
             /\ processed' = processed \cup {c}
  BY DEF ChangeCandidates
<1>2. CASE chosen = {}
  <2>1. bot' = [bot EXCEPT ![b] = Cleared(b, "actual")] /\ processed \subseteq processed'
    BY <1>1, <1>2 DEF GoTo
  <2> QED  BY <1>0, <2>1, ClearedEmpty, NothingInHand DEF Buying
<1>3. CASE chosen # {}
  <2> DEFINE R == [bot[b] EXCEPT !.pc = "change_buys", !.left = chosen]
  <2>1. bot' = [bot EXCEPT ![b] = R] /\ processed' = processed \cup {c}
    BY <1>1, <1>3 DEF KeyInv, BotShape
  <2>2. /\ DOMAIN R = Fields /\ R.key = bot[b].key /\ R.left = chosen
        /\ R.buy = bot[b].buy /\ R.back = bot[b].back /\ R.pc = "change_buys"
    BY DEF KeyInv, BotShape, Fields
  <2> HIDE DEF R
  <2>3. bot'[b] = R /\ bot' = [d \in Bots |-> bot'[d]]
    BY <2>1, Assigned DEF KeyInv, BotShape
  <2>4. bot[b].key \subseteq {c} /\ \A x \in bought : x.key \notin bot[b].key
    BY <1>0 DEF KeyInv, FreshChange, OneEvent
  <2>5. BotShape(b)'
    BY <2>2, <2>3 DEF BotShape
  <2>6. OncePerKey' /\ BoughtMarked'
    BY <1>0, <2>1 DEF KeyInv, OncePerKey, BoughtMarked
  <2>7. OneEvent(b)' /\ NotYetBought(b)' /\ FreshChange(b)'
    BY <1>0, <2>2, <2>3, <2>4 DEF KeyInv, OneEvent, NotYetBought, FreshChange
  <2>8. InHandOnce(b)'
    BY <1>0, <2>2, <2>3 DEF KeyInv, InHandOnce, FreshChange
  <2>9. MarkedFirst(b)' /\ Resumes(b)'
    BY <2>1, <2>2, <2>3, <2>4 DEF KeyInv, MarkedFirst, Resumes
  <2> QED  BY <2>5, <2>6, <2>7, <2>8, <2>9 DEF KeyInv
<1> QED  BY <1>2, <1>3

LEMMA ChangeBuyKeeps ==
  ASSUME NEW b \in Bots, KeyInv(b), ChangeBuy(b)
  PROVE  KeyInv(b)'
<1>0. /\ processed' = processed /\ bought' = bought /\ again' = again
      /\ bot[b].pc = "change_buys"
  BY DEF ChangeBuy, At
<1>1. CASE GoTo(b, "actual")
  BY <1>0, <1>1, ClearedEmpty, NothingInHand DEF GoTo, Buying
<1>2. ASSUME NEW tk \in bot[b].left,
             bot' = [bot EXCEPT ![b].pc = "guard", ![b].left = @ \ {tk}, ![b].buy = {tk},
                                ![b].room = Budget, ![b].back = "change_buys"]
      PROVE  KeyInv(b)'
  <2> DEFINE S == bot[b].left \ {tk}
             R == [bot[b] EXCEPT !.pc = "guard", !.left = S, !.buy = {tk},
                                 !.room = Budget, !.back = "change_buys"]
  <2> HIDE DEF S
  <2>1. bot' = [bot EXCEPT ![b] = R]
    BY <1>2 DEF KeyInv, BotShape, Fields, S
  <2>2. /\ DOMAIN R = Fields /\ R.key = bot[b].key /\ R.left = S
        /\ R.buy = {tk} /\ R.back = "change_buys" /\ R.pc = "guard"
    BY DEF KeyInv, BotShape, Fields
  <2>3. bot[b].key \subseteq processed
    BY <1>0 DEF KeyInv, MarkedFirst
  <2> HIDE DEF R
  <2> QED  BY <1>0, <2>1, <2>2, <2>3, SameEvent DEF S
<1> QED  BY <1>1, <1>2 DEF ChangeBuy

LEMMA BucketRefuseKeeps ==
  ASSUME NEW b \in Bots, KeyInv(b), BucketRefuse(b) \/ BucketMissing(b)
  PROVE  KeyInv(b)'
<1>0. /\ processed \subseteq processed' /\ bought' = bought /\ again' = again
      /\ bot[b].pc = "bucket"
  BY DEF BucketRefuse, BucketMissing, At
<1>1. PICK tk : bot' = [bot EXCEPT ![b].left = @ \ {tk}]
  BY DEF BucketRefuse, BucketMissing
<1> DEFINE S == bot[b].left \ {tk}
           R == [bot[b] EXCEPT !.left = S]
<1> HIDE DEF S
<1>2. bot' = [bot EXCEPT ![b] = R]
  BY <1>1 DEF KeyInv, BotShape, S
<1>3. /\ DOMAIN R = Fields /\ R.key = bot[b].key /\ R.left = S
      /\ R.buy = bot[b].buy /\ R.back = bot[b].back /\ R.pc = "bucket"
  BY <1>0 DEF KeyInv, BotShape, Fields
<1> HIDE DEF R
<1> QED  BY <1>0, <1>2, <1>3, SameEvent DEF KeyInv, InHandOnce, Resumes, S

LEMMA BucketTradeKeeps ==
  ASSUME NEW b \in Bots, KeyInv(b), BucketTrade(b)
  PROVE  KeyInv(b)'
<1>0. bought' = bought /\ again' = again /\ bot[b].pc = "bucket"
  BY DEF BucketTrade, At
<1>1. PICK tk \in bot[b].left, k \in bot[b].key :
        /\ \/ bot' = [bot EXCEPT ![b].left = @ \ {tk}, ![b].pc = "guard", ![b].buy = {tk},
                                 ![b].room = Budget, ![b].back = "bucket"]
           \/ bot' = [bot EXCEPT ![b].left = @ \ {tk}]
        /\ processed' = processed \cup {k}
  BY DEF BucketTrade
<1>2. bot[b].key \subseteq processed' /\ processed \subseteq processed'
  BY <1>1 DEF KeyInv, OneEvent
<1> DEFINE S == bot[b].left \ {tk}
<1>3. CASE bot' = [bot EXCEPT ![b].left = @ \ {tk}, ![b].pc = "guard", ![b].buy = {tk},
                              ![b].room = Budget, ![b].back = "bucket"]
  <2> DEFINE R == [bot[b] EXCEPT !.left = S, !.pc = "guard", !.buy = {tk},
                                 !.room = Budget, !.back = "bucket"]
  <2> HIDE DEF S
  <2>1. bot' = [bot EXCEPT ![b] = R]
    BY <1>3 DEF KeyInv, BotShape, Fields, S
  <2>2. /\ DOMAIN R = Fields /\ R.key = bot[b].key /\ R.left = S
        /\ R.buy = {tk} /\ R.back = "bucket" /\ R.pc = "guard"
    BY DEF KeyInv, BotShape, Fields
  <2> HIDE DEF R
  <2> QED  BY <1>0, <1>1, <1>2, <2>1, <2>2, SameEvent DEF S
<1>4. CASE bot' = [bot EXCEPT ![b].left = @ \ {tk}]
  <2> DEFINE R == [bot[b] EXCEPT !.left = S]
  <2> HIDE DEF S
  <2>1. bot' = [bot EXCEPT ![b] = R]
    BY <1>4 DEF KeyInv, BotShape, S
  <2>2. /\ DOMAIN R = Fields /\ R.key = bot[b].key /\ R.left = S
        /\ R.buy = bot[b].buy /\ R.back = bot[b].back /\ R.pc = "bucket"
    BY <1>0 DEF KeyInv, BotShape, Fields
  <2> HIDE DEF R
  <2> QED  BY <1>0, <1>2, <2>1, <2>2, SameEvent DEF KeyInv, InHandOnce, Resumes, S
<1> QED  BY <1>1, <1>3, <1>4

\* The locals of a bot that leaves a buy for its loop.
Resumed(b) == [bot[b] EXCEPT !.pc = bot[b].back, !.buy = {}, !.room = 0]

LEMMA ResumedShape ==
  ASSUME NEW b \in Bots, KeyInv(b), bot[b].pc \in {"guard", "fill"}
  PROVE  /\ DOMAIN Resumed(b) = Fields /\ Resumed(b).key = bot[b].key
         /\ Resumed(b).left = bot[b].left /\ Resumed(b).buy = {}
         /\ Resumed(b).back = bot[b].back
         /\ Resumed(b).pc \in {"idle", "change", "bucket", "change_buys"}
         /\ bot[b].key \subseteq processed
         /\ bot[b].back \in {"idle", "change", "bucket", "change_buys"}
<1>1. bot[b].key \subseteq processed
  BY DEF KeyInv, MarkedFirst
<1>2. bot[b].back \in {"idle", "change", "bucket", "change_buys"}
  BY DEF KeyInv, Resumes
<1>3. DOMAIN bot[b] = Fields
  BY DEF KeyInv, BotShape
<1> QED  BY <1>1, <1>2, <1>3 DEF Resumed, Fields

LEMMA BuyMissKeeps ==
  ASSUME NEW b \in Bots, KeyInv(b), BuyMiss(b)
  PROVE  KeyInv(b)'
<1>1. /\ processed' = processed /\ bought' = bought /\ again' = again
      /\ bot[b].pc = "fill"
  BY DEF BuyMiss, At
<1>2. bot' = [bot EXCEPT ![b] = Resumed(b)]
  BY DEF BuyMiss, KeyInv, BotShape, Fields, Resumed
<1> QED  BY <1>1, <1>2, ResumedShape, SameEvent

LEMMA BuyGuardKeeps ==
  ASSUME NEW b \in Bots, KeyInv(b), BuyGuard(b)
  PROVE  KeyInv(b)'
<1>0. /\ processed' = processed /\ bought' = bought /\ again' = again
      /\ bot[b].pc = "guard"
  BY DEF BuyGuard, At
<1>1. CASE bot' = [bot EXCEPT ![b].pc = bot[b].back, ![b].buy = {}, ![b].room = 0]
  <2>1. bot' = [bot EXCEPT ![b] = Resumed(b)]
    BY <1>1 DEF KeyInv, BotShape, Fields, Resumed
  <2> QED  BY <1>0, <2>1, ResumedShape, SameEvent
<1>2. CASE bot' = [bot EXCEPT ![b].pc = "fill"]
  <2> DEFINE R == [bot[b] EXCEPT !.pc = "fill"]
  <2>1. bot' = [bot EXCEPT ![b] = R]
    BY <1>2 DEF KeyInv, BotShape
  <2>2. /\ DOMAIN R = Fields /\ R.key = bot[b].key /\ R.left = bot[b].left
        /\ R.buy = bot[b].buy /\ R.back = bot[b].back /\ R.pc = "fill"
    BY DEF KeyInv, BotShape, Fields
  <2> HIDE DEF R
  <2> QED  BY <1>0, <2>1, <2>2, ResumedShape, SameEvent DEF KeyInv, InHandOnce
<1> QED  BY <1>1, <1>2 DEF BuyGuard

-----------------------------------------------------------------------------
\* The one step that adds to the history of buys.
LEMMA BuyFillKeeps ==
  ASSUME NEW b \in Bots, KeyInv(b), BuyFill(b)
  PROVE  KeyInv(b)'
<1>0. processed' = processed /\ bot[b].pc = "fill"
  BY DEF BuyFill, At
<1>1. PICK tk \in bot[b].buy, k \in bot[b].key, e \in bot[b].event :
        /\ bought' = bought \cup {[key |-> k, event |-> e, token |-> tk]}
        /\ again' = again \cup Repeats(k, e, tk)
  BY DEF BuyFill
<1> DEFINE x == [key |-> k, event |-> e, token |-> tk]
<1>2. x.key = k /\ x.token = tk
  OBVIOUS
<1>3. bot' = [bot EXCEPT ![b] = Resumed(b)]
  BY DEF BuyFill, KeyInv, BotShape, Fields, Resumed
<1>4. bot'[b] = Resumed(b) /\ bot' = [c \in Bots |-> bot'[c]]
  BY <1>3, Assigned DEF KeyInv, BotShape
<1> HIDE DEF x
<1>5. bought' = bought \cup {x}
  BY <1>1 DEF x
<1>6. BotShape(b)'
  BY <1>0, <1>4, ResumedShape DEF BotShape
<1>7. OncePerKey'
  <2>1. \A y \in bought : ~(y.token = tk /\ y.key = k)
    BY <1>1 DEF KeyInv, NotYetBought
  <2>2. "key" \notin Repeats(k, e, tk)
    BY <2>1 DEF Repeats
  <2> QED  BY <1>1, <2>2 DEF KeyInv, OncePerKey
<1>8. BoughtMarked'
  <2>1. k \in processed
    BY <1>0, <1>1, ResumedShape
  <2> QED  BY <1>0, <1>2, <1>5, <2>1 DEF KeyInv, BoughtMarked
<1>9. OneEvent(b)' /\ InHandOnce(b)' /\ MarkedFirst(b)'
  BY <1>0, <1>4, ResumedShape DEF KeyInv, OneEvent, InHandOnce, MarkedFirst
<1>10. NotYetBought(b)'
  <2>1. tk \notin bot[b].left
    BY <1>1 DEF KeyInv, InHandOnce
  <2> QED  BY <1>0, <1>2, <1>4, <1>5, <2>1, ResumedShape DEF KeyInv, NotYetBought
<1>11. FreshChange(b)' /\ Resumes(b)'
  BY <1>0, <1>4, ResumedShape DEF FreshChange, Resumes
<1> QED  BY <1>6, <1>7, <1>8, <1>9, <1>10, <1>11 DEF KeyInv

\* The actions that leave a bot with nothing in hand.
LEMMA LoopsKeep ==
  ASSUME NEW b \in Bots, KeyInv(b),
         \/ StartTick(b) \/ ValueSkip(b) \/ ChangeSkip(b) \/ ActualStart(b)
         \/ TransitionsDone(b) \/ BucketsDone(b) \/ TickDone(b) \/ Crash(b)
  PROVE  KeyInv(b)'
<1>0. processed' = processed /\ bought' = bought /\ again' = again
  BY DEF StartTick, ValueSkip, ChangeSkip, ActualStart, TransitionsDone, BucketsDone,
         TickDone, Crash
<1>1. CASE StartTick(b)
  <2> DEFINE R == [Idle EXCEPT !.pc = "value", !.seen = LatestAws]
  <2>1. EmptyHanded(R) /\ R.pc = "value"
    BY IdleEmpty DEF EmptyHanded, Fields
  <2>2. bot' = [bot EXCEPT ![b] = R]
    BY <1>1 DEF StartTick
  <2> HIDE DEF R
  <2> QED  BY <1>0, <2>1, <2>2, NothingInHand DEF Buying
<1>2. CASE ValueSkip(b) \/ ChangeSkip(b)
  <2>1. PICK pc \in {"change", "actual"} : bot' = [bot EXCEPT ![b] = Cleared(b, pc)]
    BY <1>2 DEF ValueSkip, ChangeSkip, GoTo
  <2> QED  BY <1>0, <2>1, ClearedEmpty, NothingInHand DEF Buying
<1>3. CASE ActualStart(b) \/ TransitionsDone(b) \/ BucketsDone(b)
  <2>1. PICK pc, T, H :
          /\ pc \in {"transition", "exits"}
          /\ \/ bot' = [bot EXCEPT ![b] = [Cleared(b, pc) EXCEPT !.todo = T]]
             \/ bot' = [bot EXCEPT ![b] = [Cleared(b, pc) EXCEPT !.check = H]]
    BY <1>3 DEF ActualStart, TransitionsDone, BucketsDone
  <2> DEFINE R == [Cleared(b, pc) EXCEPT !.todo = T]
             Q == [Cleared(b, pc) EXCEPT !.check = H]
  <2>2. EmptyHanded(R) /\ R.pc = pc /\ EmptyHanded(Q) /\ Q.pc = pc
    BY ClearedEmpty DEF EmptyHanded, Fields
  <2>3. bot' = [bot EXCEPT ![b] = R] \/ bot' = [bot EXCEPT ![b] = Q]
    BY <2>1
  <2>4. pc \notin Buying
    BY <2>1 DEF Buying
  <2> HIDE DEF R, Q
  <2> QED  BY <1>0, <2>2, <2>3, <2>4, NothingInHand DEF Buying
<1>4. CASE TickDone(b) \/ Crash(b)
  <2>1. bot' = [bot EXCEPT ![b] = Idle]
    BY <1>4 DEF TickDone, Crash
  <2> QED  BY <1>0, <2>1, IdleEmpty, NothingInHand DEF Buying
<1> QED  BY <1>1, <1>2, <1>3, <1>4

-----------------------------------------------------------------------------
LEMMA InitialKeys ==
  ASSUME NEW b \in Bots, Init
  PROVE  KeyInv(b)
<1>1. bot = [c \in Bots |-> Idle] /\ bot[b] = Idle /\ bought = {} /\ again = {}
  BY DEF Init
<1>2. BotShape(b)
  BY <1>1, IdleEmpty DEF BotShape, EmptyHanded
<1>3. OncePerKey /\ BoughtMarked /\ NotYetBought(b)
  BY <1>1 DEF OncePerKey, BoughtMarked, NotYetBought
<1>4. OneEvent(b) /\ InHandOnce(b) /\ MarkedFirst(b) /\ FreshChange(b) /\ Resumes(b)
  BY <1>1, IdleEmpty DEF EmptyHanded, OneEvent, InHandOnce, MarkedFirst, FreshChange, Resumes
<1> QED  BY <1>2, <1>3, <1>4 DEF KeyInv

LEMMA StepsKeepKeys ==
  ASSUME NEW b \in Bots, Bots = {b}, KeyInv(b), [Next]_vars
  PROVE  KeyInv(b)'
<1>1. CASE UNCHANGED vars
  BY <1>1, Elsewhere DEF vars
<1>2. CASE World
  <2>1. UNCHANGED <<bot, processed, bought, again>>
    BY <1>2 DEF World, PassHour, StoreObservation, StoreAgain, StoreForecast
  <2> QED  BY <2>1, Elsewhere
<1>3. CASE Tick(b)
  BY <1>3, LoopsKeep, ValueOfferKeeps, ValueMarkKeeps, ChangeReadKeeps, CheckKeeps,
     ChangeCandidatesKeeps, ChangeBuyKeeps, TransitionKeeps, BucketRefuseKeeps,
     BucketTradeKeeps, BuyGuardKeeps, BuyFillKeeps, BuyMissKeeps DEF Tick
<1>4. CASE Crash(b)
  BY <1>4, LoopsKeep
<1> QED  BY <1>1, <1>2, <1>3, <1>4 DEF Next

\* With one bot on the database, no event key leads to two buys of a token,
\* whatever crashes and whatever arrives between the steps of its ticks: the
\* order "mark, then buy" of runner.py is enough.
THEOREM KeysTradedOnce ==
  ASSUME NEW b, Bots = {b}
  PROVE  Spec => []OncePerKey
<1>1. Init => KeyInv(b)
  BY InitialKeys
<1>2. KeyInv(b) /\ [Next]_vars => KeyInv(b)'
  BY StepsKeepKeys
<1>3. KeyInv(b) => OncePerKey
  BY DEF KeyInv
<1> QED  BY <1>1, <1>2, <1>3, PTL DEF Spec

-----------------------------------------------------------------------------
(* The budget.  WithinBudget says nothing of a bot about to buy.  RoomInv   *)
(* adds that the room it read is still there when it fills: nothing else   *)
(* adds to the position in between, and an event that asks for a whole     *)
(* budget finds no position open.                                          *)

\* The room a bot has read never exceeds the budget.
RoomTyped(r) ==
  r.room \in 0 .. Budget /\ r.back \in {"idle", "change", "bucket", "change_buys"}

\* A buy is of one token, and a forecast-value entry of one of the market's.
OneToken(r) == \A x, y \in r.buy : x = y

ValueAlone(r) == r.pc = "value_mark" => r.back = "change" /\ r.buy \subseteq Tokens

\* The room read is there: from the mark on for a forecast-value entry, from
\* the guard on for any other.
RoomLeft(r, h) ==
  (r.pc = "fill" \/ (r.pc = "guard" /\ r.back = "change")) =>
    \A tk \in r.buy \cap Tokens : h[tk] + r.room <= Budget

\* The other loops work on no forecast-value event.
OtherEvents(r) ==
  (\/ r.pc \in {"change_exits", "change_buys", "bucket"}
   \/ r.pc \in {"guard", "fill"} /\ r.back # "change") =>
    \A k \in r.key : k.type # "forecast_value"

Room(r, h) == RoomTyped(r) /\ OneToken(r) /\ ValueAlone(r) /\ RoomLeft(r, h) /\ OtherEvents(r)

RoomInv(b) == BotShape(b) /\ held \in [Tokens -> 0 .. Budget] /\ Room(bot[b], held)

\* A step that gives a bot these locals keeps the invariant if they do.
LEMMA RoomStep ==
  ASSUME NEW b \in Bots, RoomInv(b), NEW R, DOMAIN R = Fields,
         bot' = [bot EXCEPT ![b] = R], held' \in [Tokens -> 0 .. Budget], Room(R, held')
  PROVE  RoomInv(b)'
<1>1. bot'[b] = R /\ bot' = [c \in Bots |-> bot'[c]]
  BY Assigned DEF RoomInv, BotShape
<1> QED  BY <1>1 DEF RoomInv, BotShape

LEMMA BudgetPositive == Budget \in Nat /\ Budget > 0 /\ 0 \in 0 .. Budget /\ Budget \in 0 .. Budget
  BY RunnerAssumption DEF RunnerAssumption

\* Between the loops there is no room to speak of.
LEMMA EmptyRoom ==
  ASSUME NEW R, NEW h, EmptyHanded(R), R.pc # "value_mark"
  PROVE  Room(R, h)
<1>1. RoomTyped(R) /\ OneToken(R)
  BY BudgetPositive DEF RoomTyped, OneToken, EmptyHanded
<1>2. RoomLeft(R, h) /\ OtherEvents(R)
  BY DEF RoomLeft, OtherEvents, EmptyHanded
<1>3. R.pc # "value_mark" => ValueAlone(R)
  BY DEF ValueAlone
<1> QED  BY <1>1, <1>2, <1>3 DEF Room

\* Selling leaves every position within its budget.
LEMMA SellWithin ==
  ASSUME held \in [Tokens -> 0 .. Budget], NEW tk, held' = held \/ Sell(tk)
  PROVE  held' \in [Tokens -> 0 .. Budget]
<1>1. CASE held' = held
  BY <1>1
<1>2. CASE Sell(tk)
  <2>1. PICK left \in 0 .. held[tk] : held' = [held EXCEPT ![tk] = left]
    BY <1>2 DEF Sell
  <2>2. CASE tk \in Tokens
    <3>1. left \in 0 .. Budget
      BY <2>1, <2>2, BudgetPositive
    <3> QED  BY <2>1, <3>1
  <2>3. CASE tk \notin Tokens
    <3>1. held' = held
      BY <2>1, <2>3
    <3> QED  BY <3>1
  <2> QED  BY <2>2, <2>3
<1> QED  BY <1>1, <1>2

LEMMA ValueOfferRoom ==
  ASSUME NEW b \in Bots, RoomInv(b), ValueOffer(b)
  PROVE  RoomInv(b)'
<1>1. PICK o \in ValueOffers :
        bot' = [bot EXCEPT ![b] = [Cleared(b, "value_mark") EXCEPT
                     !.key = {o}, !.event = {o}, !.back = "change", !.buy = {<<o.bucket, "YES">>}]]
  BY DEF ValueOffer
<1> DEFINE tk == <<o.bucket, "YES">>
           R == [Cleared(b, "value_mark") EXCEPT
                   !.key = {o}, !.event = {o}, !.back = "change", !.buy = {tk}]
<1>2. tk \in Tokens
  BY DEF ValueOffers, Tokens, Sides
<1>3. bot' = [bot EXCEPT ![b] = R]
  BY <1>1
<1> HIDE DEF tk
<1>4. /\ DOMAIN R = Fields /\ R.room = 0 /\ R.back = "change" /\ R.buy = {tk}
      /\ R.pc = "value_mark"
  BY ClearedEmpty DEF EmptyHanded, Fields
<1> HIDE DEF R
<1>5. Room(R, held')
  BY <1>2, <1>4, BudgetPositive DEF Room, RoomTyped, OneToken, ValueAlone, RoomLeft, OtherEvents
<1>6. held' \in [Tokens -> 0 .. Budget]
  BY DEF ValueOffer, RoomInv
<1> QED  BY <1>3, <1>4, <1>5, <1>6, RoomStep

LEMMA ValueMarkRoom ==
  ASSUME NEW b \in Bots, RoomInv(b), ValueMark(b)
  PROVE  RoomInv(b)'
<1>0. held' = held /\ bot[b].pc = "value_mark"
  BY DEF ValueMark, At
<1>1. PICK tk \in bot[b].buy :
        bot' = [bot EXCEPT ![b].pc = "guard", ![b].room = RemainingBudget(tk)]
  BY DEF ValueMark
<1> DEFINE N == RemainingBudget(tk)
           R == [bot[b] EXCEPT !.pc = "guard", !.room = N]
<1>2. tk \in Tokens /\ bot[b].buy = {tk} /\ bot[b].back = "change"
  BY <1>0, <1>1 DEF RoomInv, Room, OneToken, ValueAlone
<1>3. held[tk] \in 0 .. Budget
  BY <1>2 DEF RoomInv
<1>4. N \in 0 .. Budget /\ held[tk] + N <= Budget
  BY <1>3, BudgetPositive DEF RemainingBudget
<1> HIDE DEF N
<1>5. bot' = [bot EXCEPT ![b] = R]
  BY <1>1 DEF RoomInv, BotShape, N
<1>6. /\ DOMAIN R = Fields /\ R.room = N /\ R.buy = {tk} /\ R.back = "change" /\ R.pc = "guard"
  BY <1>2 DEF RoomInv, BotShape, Fields
<1> HIDE DEF R
<1>7. Room(R, held')
  BY <1>0, <1>4, <1>6 DEF Room, RoomTyped, OneToken, ValueAlone, RoomLeft, OtherEvents
<1>8. held' \in [Tokens -> 0 .. Budget]
  BY <1>0 DEF RoomInv
<1> QED  BY <1>5, <1>6, <1>7, <1>8, RoomStep

LEMMA ChangeReadRoom ==
  ASSUME NEW b \in Bots, RoomInv(b), ChangeRead(b)
  PROVE  RoomInv(b)'
<1>1. PICK c \in ForecastChanges :
        bot' = [bot EXCEPT ![b] = [Cleared(b, "change_exits") EXCEPT
                     !.key = {c}, !.move = {c}, !.check = HeldTokens,
                     !.event = {[type |-> "forecast_change", oldUpd |-> c.oldUpd,
                                 newUpd |-> c.newUpd]}]]
  BY DEF ChangeRead
<1> DEFINE E == {[type |-> "forecast_change", oldUpd |-> c.oldUpd, newUpd |-> c.newUpd]}
           R == [Cleared(b, "change_exits") EXCEPT
                   !.key = {c}, !.move = {c}, !.check = HeldTokens, !.event = E]
<1>2. c.type = "forecast_change"
  BY DEF ForecastChanges
<1>3. bot' = [bot EXCEPT ![b] = R]
  BY <1>1
<1> HIDE DEF E
<1>4. /\ DOMAIN R = Fields /\ R.room = 0 /\ R.back = "idle" /\ R.key = {c} /\ R.buy = {}
      /\ R.pc = "change_exits"
  BY ClearedEmpty DEF EmptyHanded, Fields
<1> HIDE DEF R
<1>5. Room(R, held')
  BY <1>2, <1>4, BudgetPositive DEF Room, RoomTyped, OneToken, ValueAlone, RoomLeft, OtherEvents
<1>6. held' \in [Tokens -> 0 .. Budget]
  BY DEF ChangeRead, RoomInv
<1> QED  BY <1>3, <1>4, <1>5, <1>6, RoomStep

LEMMA TransitionRoom ==
  ASSUME NEW b \in Bots, RoomInv(b), Transition(b)
  PROVE  RoomInv(b)'
<1>0. held' = held /\ bot[b].pc = "transition"
  BY DEF Transition, At
<1>1. PICK r \in bot[b].todo :
        \/ bot' = [bot EXCEPT ![b].todo = bot[b].todo \ {r}]
        \/ bot' = [bot EXCEPT ![b] = [Cleared(b, "bucket") EXCEPT
                   !.todo = bot[b].todo \ {r}, !.key = {ActualKey(r, EffectiveForecast)},
                   !.event = {ActualEvent(r)}, !.move = {r}, !.left = CrossedTokens(r)]]
  BY DEF Transition
<1> DEFINE k == ActualKey(r, EffectiveForecast)
           T == bot[b].todo \ {r}
           Q == [bot[b] EXCEPT !.todo = T]
           R == [Cleared(b, "bucket") EXCEPT !.todo = T, !.key = {k},
                   !.event = {ActualEvent(r)}, !.move = {r}, !.left = CrossedTokens(r)]
<1>2. bot' = [bot EXCEPT ![b] = Q] \/ bot' = [bot EXCEPT ![b] = R]
  BY <1>1
<1>3. k.type = "actual_cross"
  BY DEF ActualKey
<1> HIDE DEF T, k
<1>4. /\ DOMAIN Q = Fields /\ Q.room = bot[b].room /\ Q.back = bot[b].back
      /\ Q.pc = "transition" /\ Q.buy = bot[b].buy
  BY <1>0 DEF RoomInv, BotShape, Fields
<1>5. /\ DOMAIN R = Fields /\ R.room = 0 /\ R.back = "idle" /\ R.key = {k}
      /\ R.pc = "bucket" /\ R.buy = {}
  BY ClearedEmpty DEF EmptyHanded, Fields
<1> HIDE DEF Q, R
<1>6. Room(Q, held')
  BY <1>4 DEF RoomInv, Room, RoomTyped, OneToken, ValueAlone, RoomLeft, OtherEvents
<1>7. Room(R, held')
  BY <1>3, <1>5, BudgetPositive DEF Room, RoomTyped, OneToken, ValueAlone, RoomLeft, OtherEvents
<1>8. held' \in [Tokens -> 0 .. Budget]
  BY <1>0 DEF RoomInv
<1> QED  BY <1>2, <1>4, <1>5, <1>6, <1>7, <1>8, RoomStep

LEMMA ExitRoom ==
  ASSUME NEW b \in Bots, RoomInv(b), ForecastExit(b) \/ OpenExit(b)
  PROVE  RoomInv(b)'
<1>1. PICK tk : /\ bot' = [bot EXCEPT ![b].check = @ \ {tk}]
                /\ held' = held \/ Sell(tk)
  BY DEF ForecastExit, OpenExit
<1> DEFINE C == bot[b].check \ {tk}
           R == [bot[b] EXCEPT !.check = C]
<1> HIDE DEF C
<1>2. bot' = [bot EXCEPT ![b] = R]
  BY <1>1 DEF RoomInv, BotShape, C
<1>3. /\ DOMAIN R = Fields /\ R.key = bot[b].key /\ R.buy = bot[b].buy
      /\ R.room = bot[b].room /\ R.back = bot[b].back /\ R.pc = bot[b].pc
  BY DEF RoomInv, BotShape, Fields
<1>4. bot[b].pc \in {"change_exits", "exits"}
  BY DEF ForecastExit, OpenExit, At
<1> HIDE DEF R
<1>5. Room(R, held')
  BY <1>3, <1>4 DEF RoomInv, Room, RoomTyped, OneToken, ValueAlone, RoomLeft, OtherEvents
<1>6. held' \in [Tokens -> 0 .. Budget]
  BY <1>1, SellWithin DEF RoomInv
<1> QED  BY <1>2, <1>3, <1>5, <1>6, RoomStep

LEMMA ChangeCandidatesRoom ==
  ASSUME NEW b \in Bots, RoomInv(b), ChangeCandidates(b)
  PROVE  RoomInv(b)'
<1>0. held' = held /\ bot[b].pc = "change_exits"
  BY DEF ChangeCandidates, At
<1>1. PICK chosen : \/ GoTo(b, "actual")
                    \/ bot' = [bot EXCEPT ![b].pc = "change_buys", ![b].left = chosen]
  BY DEF ChangeCandidates
<1> DEFINE R == [bot[b] EXCEPT !.pc = "change_buys", !.left = chosen]
           Q == Cleared(b, "actual")
<1>2. bot' = [bot EXCEPT ![b] = R] \/ bot' = [bot EXCEPT ![b] = Q]
  BY <1>1 DEF GoTo, RoomInv, BotShape
<1>3. /\ DOMAIN R = Fields /\ R.key = bot[b].key /\ R.room = bot[b].room
      /\ R.back = bot[b].back /\ R.pc = "change_buys" /\ R.buy = bot[b].buy
  BY DEF RoomInv, BotShape, Fields
<1>4. EmptyHanded(Q) /\ Q.pc = "actual"
  BY ClearedEmpty
<1> HIDE DEF Q, R
<1>5. Room(R, held')
  BY <1>0, <1>3 DEF RoomInv, Room, RoomTyped, OneToken, ValueAlone, RoomLeft, OtherEvents
<1>6. Room(Q, held') /\ DOMAIN Q = Fields
  BY <1>4, EmptyRoom DEF EmptyHanded
<1>7. held' \in [Tokens -> 0 .. Budget]
  BY <1>0 DEF RoomInv
<1> QED  BY <1>2, <1>3, <1>5, <1>6, <1>7, RoomStep

\* The two loops that hand a token over to a buy.
LEMMA HandOverRoom ==
  ASSUME NEW b \in Bots, RoomInv(b), ChangeBuy(b) \/ BucketTrade(b)
  PROVE  RoomInv(b)'
<1>0. held' = held /\ bot[b].pc \in {"change_buys", "bucket"}
  BY DEF ChangeBuy, BucketTrade, At
<1>1. PICK tk, back :
        /\ back \in {"change_buys", "bucket"}
        /\ \/ GoTo(b, "actual")
           \/ bot' = [bot EXCEPT ![b].left = @ \ {tk}]
           \/ bot' = [bot EXCEPT ![b].pc = "guard", ![b].left = @ \ {tk}, ![b].buy = {tk},
                                 ![b].room = Budget, ![b].back = back]
  <2>1. CASE ChangeBuy(b)
    BY <2>1 DEF ChangeBuy
  <2>2. CASE BucketTrade(b)
    <3>1. PICK tk \in bot[b].left :
            \/ bot' = [bot EXCEPT ![b].left = @ \ {tk}, ![b].pc = "guard", ![b].buy = {tk},
                                  ![b].room = Budget, ![b].back = "bucket"]
            \/ bot' = [bot EXCEPT ![b].left = @ \ {tk}]
      BY <2>2 DEF BucketTrade
    <3>2. CASE bot' = [bot EXCEPT ![b].left = @ \ {tk}]
      BY <3>2
    <3>3. CASE bot' = [bot EXCEPT ![b].left = @ \ {tk}, ![b].pc = "guard", ![b].buy = {tk},
                                  ![b].room = Budget, ![b].back = "bucket"]
      <4>1. bot' = [bot EXCEPT ![b].pc = "guard", ![b].left = @ \ {tk}, ![b].buy = {tk},
                               ![b].room = Budget, ![b].back = "bucket"]
        BY <3>3 DEF RoomInv, BotShape, Fields
      <4> QED  BY <4>1
    <3> QED  BY <3>1, <3>2, <3>3
  <2> QED  BY <2>1, <2>2
<1> DEFINE S == bot[b].left \ {tk}
           P == Cleared(b, "actual")
           Q == [bot[b] EXCEPT !.left = S]
           R == [bot[b] EXCEPT !.pc = "guard", !.left = S, !.buy = {tk},
                               !.room = Budget, !.back = back]
<1> HIDE DEF S
<1>2. \/ bot' = [bot EXCEPT ![b] = P] \/ bot' = [bot EXCEPT ![b] = Q]
      \/ bot' = [bot EXCEPT ![b] = R]
  <2>1. CASE GoTo(b, "actual")
    BY <2>1 DEF GoTo
  <2>2. CASE bot' = [bot EXCEPT ![b].left = @ \ {tk}]
    BY <2>2 DEF RoomInv, BotShape, S
  <2>3. CASE bot' = [bot EXCEPT ![b].pc = "guard", ![b].left = @ \ {tk}, ![b].buy = {tk},
                                ![b].room = Budget, ![b].back = back]
    BY <2>3 DEF RoomInv, BotShape, Fields, S
  <2> QED  BY <1>1, <2>1, <2>2, <2>3
<1>3. EmptyHanded(P) /\ P.pc = "actual"
  BY ClearedEmpty
<1>4. /\ DOMAIN Q = Fields /\ Q.key = bot[b].key /\ Q.room = bot[b].room
      /\ Q.back = bot[b].back /\ Q.pc = bot[b].pc /\ Q.buy = bot[b].buy
  BY DEF RoomInv, BotShape, Fields
<1>5. /\ DOMAIN R = Fields /\ R.key = bot[b].key /\ R.room = Budget
      /\ R.back = back /\ R.pc = "guard" /\ R.buy = {tk}
  BY DEF RoomInv, BotShape, Fields
<1> HIDE DEF P, Q, R
<1>6. Room(P, held') /\ DOMAIN P = Fields
  BY <1>3, EmptyRoom DEF EmptyHanded
<1>7. Room(Q, held')
  BY <1>0, <1>4 DEF RoomInv, Room, RoomTyped, OneToken, ValueAlone, RoomLeft, OtherEvents
<1>8. Room(R, held')
  BY <1>0, <1>1, <1>5, BudgetPositive
     DEF RoomInv, Room, RoomTyped, OneToken, ValueAlone, RoomLeft, OtherEvents
<1>9. held' \in [Tokens -> 0 .. Budget]
  BY <1>0 DEF RoomInv
<1> QED  BY <1>2, <1>4, <1>5, <1>6, <1>7, <1>8, <1>9, RoomStep

LEMMA BucketRoom ==
  ASSUME NEW b \in Bots, RoomInv(b), BucketRefuse(b) \/ BucketMissing(b)
  PROVE  RoomInv(b)'
<1>0. held' = held /\ bot[b].pc = "bucket"
  BY DEF BucketRefuse, BucketMissing, At
<1>1. PICK tk : bot' = [bot EXCEPT ![b].left = @ \ {tk}]
  BY DEF BucketRefuse, BucketMissing
<1> DEFINE S == bot[b].left \ {tk}
           R == [bot[b] EXCEPT !.left = S]
<1> HIDE DEF S
<1>2. bot' = [bot EXCEPT ![b] = R]
  BY <1>1 DEF RoomInv, BotShape, S
<1>3. /\ DOMAIN R = Fields /\ R.key = bot[b].key /\ R.room = bot[b].room
      /\ R.back = bot[b].back /\ R.pc = "bucket" /\ R.buy = bot[b].buy
  BY <1>0 DEF RoomInv, BotShape, Fields
<1> HIDE DEF R
<1>4. Room(R, held')
  BY <1>0, <1>3 DEF RoomInv, Room, RoomTyped, OneToken, ValueAlone, RoomLeft, OtherEvents
<1>5. held' \in [Tokens -> 0 .. Budget]
  BY <1>0 DEF RoomInv
<1> QED  BY <1>2, <1>3, <1>4, <1>5, RoomStep

\* A bot that leaves a buy has no room left to use.
LEMMA ResumedRoom ==
  ASSUME NEW b \in Bots, RoomInv(b), bot[b].pc \in {"guard", "fill"}, NEW h
  PROVE  DOMAIN Resumed(b) = Fields /\ Room(Resumed(b), h)
<1>1. /\ DOMAIN Resumed(b) = Fields /\ Resumed(b).key = bot[b].key
      /\ Resumed(b).buy = {} /\ Resumed(b).room = 0
      /\ Resumed(b).back = bot[b].back /\ Resumed(b).pc = bot[b].back
  BY DEF RoomInv, BotShape, Resumed, Fields
<1>2. RoomTyped(Resumed(b)) /\ OneToken(Resumed(b)) /\ RoomLeft(Resumed(b), h)
  BY <1>1, BudgetPositive DEF RoomInv, Room, RoomTyped, OneToken, RoomLeft
<1>3. ValueAlone(Resumed(b)) /\ OtherEvents(Resumed(b))
  BY <1>1 DEF RoomInv, Room, RoomTyped, OneToken, ValueAlone, OtherEvents
<1> QED  BY <1>1, <1>2, <1>3 DEF Room

LEMMA BuyGuardRoom ==
  ASSUME NEW b \in Bots, RoomInv(b), BuyGuard(b)
  PROVE  RoomInv(b)'
<1>0. held' = held /\ bot[b].pc = "guard" /\ held' \in [Tokens -> 0 .. Budget]
  BY DEF BuyGuard, At, RoomInv
<1>1. CASE bot' = [bot EXCEPT ![b].pc = bot[b].back, ![b].buy = {}, ![b].room = 0]
  <2>1. bot' = [bot EXCEPT ![b] = Resumed(b)]
    BY <1>1 DEF RoomInv, BotShape, Fields, Resumed
  <2> QED  BY <1>0, <2>1, ResumedRoom, RoomStep
<1>2. ASSUME NEW tk \in bot[b].buy, ~EntryRefused(b, tk),
             bot' = [bot EXCEPT ![b].pc = "fill"]
      PROVE  RoomInv(b)'
  <2> DEFINE R == [bot[b] EXCEPT !.pc = "fill"]
  <2>1. bot' = [bot EXCEPT ![b] = R]
    BY <1>2 DEF RoomInv, BotShape
  <2>2. /\ DOMAIN R = Fields /\ R.key = bot[b].key /\ R.buy = bot[b].buy
        /\ R.room = bot[b].room /\ R.back = bot[b].back /\ R.pc = "fill"
    BY DEF RoomInv, BotShape, Fields
  <2> HIDE DEF R
  <2>3. ~(held[tk] > 0) \/ \E k \in bot[b].key : k.type = "forecast_value"
    BY <1>2 DEF EntryRefused
  <2>4. RoomLeft(R, held')
    <3>1. CASE bot[b].back = "change"
      BY <1>0, <2>2, <3>1 DEF RoomInv, Room, RoomLeft
    <3>2. CASE bot[b].back # "change"
      <4>1. ~(held[tk] > 0)
        BY <1>0, <2>3, <3>2 DEF RoomInv, Room, OtherEvents
      <4>2. tk \in Tokens => held[tk] = 0
        BY <4>1, BudgetPositive DEF RoomInv
      <4>3. \A x \in bot[b].buy : x = tk
        BY DEF RoomInv, Room, OneToken
      <4> QED  BY <1>0, <2>2, <4>2, <4>3, BudgetPositive DEF RoomInv, Room, RoomTyped, RoomLeft
    <3> QED  BY <3>1, <3>2
  <2>5. Room(R, held')
    BY <1>0, <2>2, <2>4 DEF RoomInv, Room, RoomTyped, OneToken, ValueAlone, OtherEvents
  <2> QED  BY <1>0, <2>1, <2>2, <2>5, RoomStep
<1> QED  BY <1>1, <1>2 DEF BuyGuard

LEMMA BuyFillRoom ==
  ASSUME NEW b \in Bots, RoomInv(b), BuyFill(b) \/ BuyMiss(b)
  PROVE  RoomInv(b)'
<1>0. bot[b].pc = "fill"
  BY DEF BuyFill, BuyMiss, At
<1>1. bot' = [bot EXCEPT ![b] = Resumed(b)]
  BY DEF BuyFill, BuyMiss, RoomInv, BotShape, Fields, Resumed
<1>2. held' \in [Tokens -> 0 .. Budget]
  <2>1. CASE held' = held
    BY <2>1 DEF RoomInv
  <2>2. ASSUME NEW tk \in bot[b].buy, NEW n \in 1 .. bot[b].room,
               held' = [held EXCEPT ![tk] = @ + n]
        PROVE  held' \in [Tokens -> 0 .. Budget]
    <3>1. CASE tk \in Tokens
      <4>1. /\ held[tk] \in 0 .. Budget /\ bot[b].room \in 0 .. Budget
            /\ held[tk] + bot[b].room <= Budget
        <5>1. held[tk] \in 0 .. Budget
          BY <3>1 DEF RoomInv
        <5>2. bot[b].room \in 0 .. Budget
          BY DEF RoomInv, Room, RoomTyped
        <5>3. held[tk] + bot[b].room <= Budget
          BY <1>0, <2>2, <3>1 DEF RoomInv, Room, RoomLeft
        <5> QED  BY <5>1, <5>2, <5>3
      <4>2. held[tk] + n \in 0 .. Budget
        BY <4>1, BudgetPositive
      <4> QED  BY <2>2, <4>2 DEF RoomInv
    <3>2. CASE tk \notin Tokens
      <4>1. held' = held
        BY <2>2, <3>2 DEF RoomInv
      <4> QED  BY <4>1 DEF RoomInv
    <3> QED  BY <3>1, <3>2
  <2> QED  BY <2>1, <2>2 DEF BuyFill, BuyMiss
<1> QED  BY <1>0, <1>1, <1>2, ResumedRoom, RoomStep

LEMMA LoopsRoom ==
  ASSUME NEW b \in Bots, RoomInv(b),
         \/ StartTick(b) \/ ValueSkip(b) \/ ChangeSkip(b) \/ ActualStart(b)
         \/ TransitionsDone(b) \/ BucketsDone(b) \/ TickDone(b) \/ Crash(b)
  PROVE  RoomInv(b)'
<1>1. held' \in [Tokens -> 0 .. Budget]
  BY DEF StartTick, ValueSkip, ChangeSkip, ActualStart, TransitionsDone, BucketsDone,
         TickDone, Crash, RoomInv
<1>2. ASSUME NEW R, EmptyHanded(R), R.pc # "value_mark", bot' = [bot EXCEPT ![b] = R]
      PROVE  RoomInv(b)'
  <2>1. DOMAIN R = Fields /\ Room(R, held')
    BY <1>2, EmptyRoom DEF EmptyHanded
  <2> QED  BY <1>1, <1>2, <2>1, RoomStep
<1>3. CASE StartTick(b)
  <2> DEFINE R == [Idle EXCEPT !.pc = "value", !.seen = LatestAws]
  <2>1. EmptyHanded(R) /\ R.pc = "value"
    BY IdleEmpty DEF EmptyHanded, Fields
  <2>2. bot' = [bot EXCEPT ![b] = R]
    BY <1>3 DEF StartTick
  <2> HIDE DEF R
  <2> QED  BY <1>2, <2>1, <2>2
<1>4. CASE TickDone(b) \/ Crash(b)
  BY <1>2, <1>4, IdleEmpty DEF TickDone, Crash
<1>5. CASE ValueSkip(b) \/ ChangeSkip(b)
  <2>1. PICK pc \in {"change", "actual"} : bot' = [bot EXCEPT ![b] = Cleared(b, pc)]
    BY <1>5 DEF ValueSkip, ChangeSkip, GoTo
  <2> QED  BY <1>2, <2>1, ClearedEmpty
<1>6. CASE ActualStart(b) \/ TransitionsDone(b) \/ BucketsDone(b)
  <2>1. PICK pc, T, H :
          /\ pc \in {"transition", "exits"}
          /\ \/ bot' = [bot EXCEPT ![b] = [Cleared(b, pc) EXCEPT !.todo = T]]
             \/ bot' = [bot EXCEPT ![b] = [Cleared(b, pc) EXCEPT !.check = H]]
    BY <1>6 DEF ActualStart, TransitionsDone, BucketsDone
  <2> DEFINE R == [Cleared(b, pc) EXCEPT !.todo = T]
             Q == [Cleared(b, pc) EXCEPT !.check = H]
  <2>2. EmptyHanded(R) /\ R.pc = pc /\ EmptyHanded(Q) /\ Q.pc = pc
    BY ClearedEmpty DEF EmptyHanded, Fields
  <2>3. bot' = [bot EXCEPT ![b] = R] \/ bot' = [bot EXCEPT ![b] = Q]
    BY <2>1
  <2>4. pc # "value_mark"
    BY <2>1
  <2> HIDE DEF R, Q
  <2> QED  BY <1>2, <2>2, <2>3, <2>4
<1> QED  BY <1>3, <1>4, <1>5, <1>6

LEMMA StepsKeepRoom ==
  ASSUME NEW b \in Bots, Bots = {b}, RoomInv(b), [Next]_vars
  PROVE  RoomInv(b)'
<1>1. CASE World \/ UNCHANGED vars
  <2>1. UNCHANGED <<bot, held>>
    BY <1>1 DEF World, PassHour, StoreObservation, StoreAgain, StoreForecast, vars
  <2> QED  BY <2>1 DEF RoomInv, BotShape
<1>2. CASE Tick(b)
  BY <1>2, LoopsRoom, ValueOfferRoom, ValueMarkRoom, ChangeReadRoom, ExitRoom,
     ChangeCandidatesRoom, HandOverRoom, TransitionRoom, BucketRoom, BuyGuardRoom,
     BuyFillRoom DEF Tick
<1>3. CASE Crash(b)
  BY <1>3, LoopsRoom
<1> QED  BY <1>1, <1>2, <1>3 DEF Next

\* With one bot on the database, no position ever exceeds its budget, however
\* entries, top-ups, partial fills, sales and crashes follow one another: the
\* room that _remaining_position_budget leaves, or the open position that
\* stops an entry, is enough.
THEOREM BudgetKept ==
  ASSUME NEW b, Bots = {b}
  PROVE  Spec => []WithinBudget
<1>1. Init => RoomInv(b)
  <2> SUFFICES ASSUME Init PROVE RoomInv(b)
    OBVIOUS
  <2>1. bot = [c \in Bots |-> Idle] /\ bot[b] = Idle /\ held = [tk \in Tokens |-> 0]
    BY DEF Init
  <2>2. Room(bot[b], held) /\ BotShape(b)
    BY <2>1, IdleEmpty, EmptyRoom DEF BotShape, EmptyHanded
  <2> QED  BY <2>1, <2>2, BudgetPositive DEF RoomInv
<1>2. RoomInv(b) /\ [Next]_vars => RoomInv(b)'
  BY StepsKeepRoom
<1>3. RoomInv(b) => WithinBudget
  BY BudgetPositive DEF RoomInv, WithinBudget
<1> QED  BY <1>1, <1>2, <1>3, PTL DEF Spec
-----------------------------------------------------------------------------
(* Any number of bots.  The hands of every bot hold tokens of the market    *)
(* only (HandInv), which is what types the tables (TypeOK).  A bot passes  *)
(* the guard of a buy only when the last row leaves its token alive        *)
(* (Allowed), and the last row can only be behind one the tick has seen    *)
(* when an older payload was served in between (InOrder).                  *)

Reading == [at : Hours, value : Temps, station : Stations]

Sample == [upd : Nat, fetched : Hours, path : Paths]

TableInv ==
  /\ clock \in Hours /\ readings \in Seq(Reading) /\ samples \in Seq(Sample)
  /\ held \in [Tokens -> Nat] /\ crashes \in Nat /\ again \subseteq {"key", "event"}

\* A YES on a label without a temperature is never bought.
Buyable == {tk \in Tokens : tk[2] = "YES" => Pred(tk).type # "OTHER"}

Hand(r) ==
  /\ DOMAIN r = Fields
  /\ r.buy \subseteq Buyable /\ r.left \subseteq Buyable /\ r.check \subseteq Tokens
  /\ r.room \in Nat /\ OneToken(r)
  /\ r.seen \subseteq DOMAIN readings

HandInv == bot = [c \in Bots |-> bot[c]] /\ \A b \in Bots : Hand(bot[b])

\* These locals are those of a bot that has just passed the guard of a buy.
Passed(b, r) ==
  /\ r.buy = bot[b].buy /\ r.seen = bot[b].seen
  /\ \E tk \in bot[b].buy : ~EntryRefused(b, tk)

\* A step of bot b leaves it with proper locals, and about to fill a buy
\* only after the guard.
StepOf(b) ==
  \E r : /\ bot' = [bot EXCEPT ![b] = r] /\ Hand(r)
         /\ r.pc = "fill" => r.buy = {} \/ Passed(b, r)

LEMMA EmptyHand ==
  ASSUME NEW r, EmptyHanded(r), r.check \subseteq Tokens, r.seen \subseteq DOMAIN readings
  PROVE  Hand(r) /\ r.buy = {}
  BY DEF EmptyHanded, Hand, OneToken

LEMMA ClearedRest ==
  ASSUME NEW b \in Bots, NEW pc
  PROVE  Cleared(b, pc).check = {} /\ Cleared(b, pc).seen = bot[b].seen
  BY DEF Cleared, Idle, Fields

LEMMA LoopsHand ==
  ASSUME NEW b \in Bots, HandInv,
         \/ StartTick(b) \/ ValueSkip(b) \/ ChangeSkip(b) \/ ActualStart(b)
         \/ TransitionsDone(b) \/ BucketsDone(b) \/ TickDone(b) \/ Crash(b)
  PROVE  StepOf(b)
<1>0. bot[b].seen \subseteq DOMAIN readings
  BY DEF HandInv, Hand
<1>1. ASSUME NEW R, EmptyHanded(R), R.check \subseteq Tokens, R.seen \subseteq DOMAIN readings,
             bot' = [bot EXCEPT ![b] = R]
      PROVE  StepOf(b)
  BY <1>1, EmptyHand DEF StepOf
<1>2. CASE StartTick(b)
  <2> DEFINE R == [Idle EXCEPT !.pc = "value", !.seen = LatestAws]
  <2>1. EmptyHanded(R)
    BY IdleEmpty DEF EmptyHanded, Fields
  <2>2. R.check = {} /\ R.seen = LatestAws
    BY DEF Idle
  <2>3. LatestAws \subseteq DOMAIN readings
    BY DEF LatestAws
  <2>4. bot' = [bot EXCEPT ![b] = R]
    BY <1>2 DEF StartTick
  <2> HIDE DEF R
  <2> QED  BY <1>1, <2>1, <2>2, <2>3, <2>4
<1>3. CASE TickDone(b) \/ Crash(b)
  <2>1. bot' = [bot EXCEPT ![b] = Idle]
    BY <1>3 DEF TickDone, Crash
  <2>2. Idle.check = {} /\ Idle.seen = {}
    BY DEF Idle
  <2> QED  BY <1>1, <2>1, <2>2, IdleEmpty
<1>4. CASE ValueSkip(b) \/ ChangeSkip(b)
  <2>1. PICK pc \in {"change", "actual"} : bot' = [bot EXCEPT ![b] = Cleared(b, pc)]
    BY <1>4 DEF ValueSkip, ChangeSkip, GoTo
  <2> QED  BY <1>0, <1>1, <2>1, ClearedEmpty, ClearedRest
<1>5. CASE ActualStart(b) \/ TransitionsDone(b) \/ BucketsDone(b)
  <2>1. PICK pc, T, H :
          /\ H \subseteq Tokens
          /\ \/ bot' = [bot EXCEPT ![b] = [Cleared(b, pc) EXCEPT !.todo = T]]
             \/ bot' = [bot EXCEPT ![b] = [Cleared(b, pc) EXCEPT !.check = H]]
    <3>1. CASE ActualStart(b) \/ BucketsDone(b)
      BY <3>1 DEF ActualStart, BucketsDone
    <3>2. CASE TransitionsDone(b)
      BY <3>2 DEF TransitionsDone, HeldTokens
    <3> QED  BY <1>5, <3>1, <3>2
  <2> DEFINE R == [Cleared(b, pc) EXCEPT !.todo = T]
             Q == [Cleared(b, pc) EXCEPT !.check = H]
  <2>2. EmptyHanded(R) /\ EmptyHanded(Q)
    BY ClearedEmpty DEF EmptyHanded, Fields
  <2>3. R.seen = bot[b].seen /\ Q.seen = bot[b].seen /\ R.check = {} /\ Q.check = H
    BY ClearedEmpty, ClearedRest DEF EmptyHanded, Fields
  <2>4. bot' = [bot EXCEPT ![b] = R] \/ bot' = [bot EXCEPT ![b] = Q]
    BY <2>1
  <2> HIDE DEF R, Q
  <2>5. H \subseteq Tokens
    BY <2>1
  <2> QED  BY <1>0, <1>1, <2>2, <2>3, <2>4, <2>5
<1> QED  BY <1>2, <1>3, <1>4, <1>5

LEMMA MatchesTyped ==
  ASSUME NEW p, NEW t, Matches(p, t)
  PROVE  p.type # "OTHER"
  BY DEF Matches

LEMMA ValueOfferHand ==
  ASSUME NEW b \in Bots, HandInv, ValueOffer(b)
  PROVE  StepOf(b)
<1>1. PICK o \in ValueOffers :
        /\ IsValueOffer(o)
        /\ bot' = [bot EXCEPT ![b] = [Cleared(b, "value_mark") EXCEPT
                     !.key = {o}, !.event = {o}, !.back = "change", !.buy = {<<o.bucket, "YES">>}]]
  BY DEF ValueOffer
<1> DEFINE tk == <<o.bucket, "YES">>
           R == [Cleared(b, "value_mark") EXCEPT
                   !.key = {o}, !.event = {o}, !.back = "change", !.buy = {tk}]
<1>2. tk \in Buyable
  <2>1. o.bucket \in DOMAIN Outcomes /\ Matches(Outcomes[o.bucket], o.value)
    BY <1>1 DEF IsValueOffer, ForecastMatching
  <2>2. Pred(tk).type # "OTHER"
    BY <2>1, MatchesTyped DEF Pred
  <2>3. tk \in Tokens
    BY <2>1 DEF Tokens, Sides
  <2> QED  BY <2>2, <2>3 DEF Buyable
<1>3. bot' = [bot EXCEPT ![b] = R]
  BY <1>1
<1> HIDE DEF tk
<1>4. /\ DOMAIN R = Fields /\ R.room = 0 /\ R.buy = {tk} /\ R.left = {}
      /\ R.pc = "value_mark" /\ R.check = {} /\ R.seen = bot[b].seen
  BY ClearedEmpty, ClearedRest DEF EmptyHanded, Fields
<1> HIDE DEF R
<1>5. bot[b].seen \subseteq DOMAIN readings
  BY DEF HandInv, Hand
<1>6. Hand(R)
  BY <1>2, <1>4, <1>5 DEF Hand, OneToken
<1> QED  BY <1>3, <1>4, <1>6 DEF StepOf

LEMMA ValueMarkHand ==
  ASSUME NEW b \in Bots, HandInv, TableInv, ValueMark(b)
  PROVE  StepOf(b)
<1>1. PICK tk \in bot[b].buy :
        bot' = [bot EXCEPT ![b].pc = "guard", ![b].room = RemainingBudget(tk)]
  BY DEF ValueMark
<1> DEFINE N == RemainingBudget(tk)
           R == [bot[b] EXCEPT !.pc = "guard", !.room = N]
<1>2. tk \in Tokens
  BY <1>1 DEF HandInv, Hand, Buyable
<1>3. held[tk] \in Nat
  BY <1>2 DEF TableInv
<1>4. N \in Nat
  BY <1>3, BudgetPositive DEF RemainingBudget
<1> HIDE DEF N
<1>5. bot' = [bot EXCEPT ![b] = R]
  BY <1>1 DEF HandInv, Hand, N
<1>6. /\ DOMAIN R = Fields /\ R.room = N /\ R.buy = bot[b].buy /\ R.left = bot[b].left
      /\ R.pc = "guard" /\ R.check = bot[b].check /\ R.seen = bot[b].seen
  BY DEF HandInv, Hand, Fields
<1> HIDE DEF R
<1>7. Hand(R)
  BY <1>4, <1>6 DEF HandInv, Hand, OneToken
<1> QED  BY <1>5, <1>6, <1>7 DEF StepOf

LEMMA ChangeReadHand ==
  ASSUME NEW b \in Bots, HandInv, ChangeRead(b)
  PROVE  StepOf(b)
<1>1. PICK c \in ForecastChanges :
        bot' = [bot EXCEPT ![b] = [Cleared(b, "change_exits") EXCEPT
                     !.key = {c}, !.move = {c}, !.check = HeldTokens,
                     !.event = {[type |-> "forecast_change", oldUpd |-> c.oldUpd,
                                 newUpd |-> c.newUpd]}]]
  BY DEF ChangeRead
<1> DEFINE E == {[type |-> "forecast_change", oldUpd |-> c.oldUpd, newUpd |-> c.newUpd]}
           H == HeldTokens
           R == [Cleared(b, "change_exits") EXCEPT
                   !.key = {c}, !.move = {c}, !.check = H, !.event = E]
<1>2. H \subseteq Tokens
  BY DEF HeldTokens
<1>3. bot' = [bot EXCEPT ![b] = R]
  BY <1>1
<1> HIDE DEF E, H
<1>4. /\ DOMAIN R = Fields /\ R.room = 0 /\ R.buy = {} /\ R.left = {}
      /\ R.pc = "change_exits" /\ R.check = H /\ R.seen = bot[b].seen
  BY ClearedEmpty, ClearedRest DEF EmptyHanded, Fields
<1> HIDE DEF R
<1>5. bot[b].seen \subseteq DOMAIN readings
  BY DEF HandInv, Hand
<1>6. Hand(R)
  BY <1>2, <1>4, <1>5 DEF Hand, OneToken
<1> QED  BY <1>3, <1>4, <1>6 DEF StepOf

LEMMA ExitHand ==
  ASSUME NEW b \in Bots, HandInv, ForecastExit(b) \/ OpenExit(b)
  PROVE  StepOf(b)
<1>1. PICK tk : bot' = [bot EXCEPT ![b].check = @ \ {tk}]
  BY DEF ForecastExit, OpenExit
<1> DEFINE C == bot[b].check \ {tk}
           R == [bot[b] EXCEPT !.check = C]
<1>2. C \subseteq Tokens
  BY DEF HandInv, Hand
<1>3. bot[b].pc # "fill"
  BY DEF ForecastExit, OpenExit, At
<1> HIDE DEF C
<1>4. bot' = [bot EXCEPT ![b] = R]
  BY <1>1 DEF HandInv, Hand, C
<1>5. /\ DOMAIN R = Fields /\ R.room = bot[b].room /\ R.buy = bot[b].buy
      /\ R.left = bot[b].left /\ R.pc = bot[b].pc /\ R.check = C /\ R.seen = bot[b].seen
  BY DEF HandInv, Hand, Fields
<1> HIDE DEF R
<1>6. Hand(R)
  BY <1>2, <1>5 DEF HandInv, Hand, OneToken
<1> QED  BY <1>3, <1>4, <1>5, <1>6 DEF StepOf

\* What a move of the forecast or of the reading offers has a temperature,
\* or is the NO of a bucket.
LEMMA CandidateBuyable ==
  ASSUME NEW tk \in Tokens, NEW old, NEW new,
         \/ ForecastMoveCandidate(Pred(tk), tk[2], old, new)
         \/ CrossSide(Kind, Pred(tk), tk[2], old, new)
  PROVE  tk \in Buyable
<1>1. CASE ForecastMoveCandidate(Pred(tk), tk[2], old, new)
  <2>1. tk[2] = "YES" => Matches(Pred(tk), new)
    BY <1>1 DEF ForecastMoveCandidate, ForecastMoveSide
  <2> QED  BY <2>1, MatchesTyped DEF Buyable
<1>2. CASE CrossSide(Kind, Pred(tk), tk[2], old, new)
  <2>1. tk[2] = "YES" => Pred(tk).type \in {"GTE_C", "EXACT_C", "BOTTOM_BUCKET_LTE_C"}
    BY <1>2 DEF CrossSide, RisesInto, FallsInto
  <2> QED  BY <2>1 DEF Buyable
<1> QED  BY <1>1, <1>2

LEMMA ChangeCandidatesHand ==
  ASSUME NEW b \in Bots, HandInv, ChangeCandidates(b)
  PROVE  StepOf(b)
<1>1. PICK chosen :
        /\ \A tk \in chosen : tk \in Buyable
        /\ \/ GoTo(b, "actual")
           \/ bot' = [bot EXCEPT ![b].pc = "change_buys", ![b].left = chosen]
  <2>1. PICK chosen \in SUBSET {tk \in Tokens : \E d \in bot[b].move :
                             ForecastMoveCandidate(Pred(tk), tk[2], d.old, d.new)} :
          \/ GoTo(b, "actual")
          \/ bot' = [bot EXCEPT ![b].pc = "change_buys", ![b].left = chosen]
    BY DEF ChangeCandidates
  <2>2. ASSUME NEW tk \in chosen PROVE tk \in Buyable
    <3>1. tk \in Tokens /\ \E d \in bot[b].move :
            ForecastMoveCandidate(Pred(tk), tk[2], d.old, d.new)
      OBVIOUS
    <3> QED  BY <3>1, CandidateBuyable
  <2> QED  BY <2>1, <2>2
<1> DEFINE R == [bot[b] EXCEPT !.pc = "change_buys", !.left = chosen]
           Q == Cleared(b, "actual")
<1>2. bot' = [bot EXCEPT ![b] = R] \/ bot' = [bot EXCEPT ![b] = Q]
  BY <1>1 DEF GoTo, HandInv, Hand
<1>3. /\ DOMAIN R = Fields /\ R.room = bot[b].room /\ R.buy = bot[b].buy
      /\ R.left = chosen /\ R.pc = "change_buys" /\ R.check = bot[b].check
      /\ R.seen = bot[b].seen
  BY DEF HandInv, Hand, Fields
<1>4. EmptyHanded(Q) /\ Q.check = {} /\ Q.seen = bot[b].seen
  BY ClearedEmpty, ClearedRest
<1> HIDE DEF Q, R
<1>5. Hand(R)
  BY <1>1, <1>3 DEF HandInv, Hand, OneToken
<1>6. bot[b].seen \subseteq DOMAIN readings
  BY DEF HandInv, Hand
<1>7. Hand(Q) /\ Q.buy = {}
  BY <1>4, <1>6, EmptyHand
<1> QED  BY <1>2, <1>3, <1>5, <1>7 DEF StepOf

\* The two loops that hand a token over to a buy.
LEMMA HandOverHand ==
  ASSUME NEW b \in Bots, HandInv, ChangeBuy(b) \/ BucketTrade(b)
  PROVE  StepOf(b)
<1>0. bot[b].pc \in {"change_buys", "bucket"}
  BY DEF ChangeBuy, BucketTrade, At
<1>1. PICK tk, back :
        \/ GoTo(b, "actual")
        \/ bot' = [bot EXCEPT ![b].left = @ \ {tk}]
        \/ /\ tk \in bot[b].left
           /\ bot' = [bot EXCEPT ![b].pc = "guard", ![b].left = @ \ {tk}, ![b].buy = {tk},
                                 ![b].room = Budget, ![b].back = back]
  <2>1. CASE ChangeBuy(b)
    BY <2>1 DEF ChangeBuy
  <2>2. CASE BucketTrade(b)
    <3>1. PICK tk \in bot[b].left :
            \/ bot' = [bot EXCEPT ![b].left = @ \ {tk}, ![b].pc = "guard", ![b].buy = {tk},
                                  ![b].room = Budget, ![b].back = "bucket"]
            \/ bot' = [bot EXCEPT ![b].left = @ \ {tk}]
      BY <2>2 DEF BucketTrade
    <3>2. CASE bot' = [bot EXCEPT ![b].left = @ \ {tk}]
      BY <3>2
    <3>3. CASE bot' = [bot EXCEPT ![b].left = @ \ {tk}, ![b].pc = "guard", ![b].buy = {tk},
                                  ![b].room = Budget, ![b].back = "bucket"]
      <4>1. bot' = [bot EXCEPT ![b].pc = "guard", ![b].left = @ \ {tk}, ![b].buy = {tk},
                               ![b].room = Budget, ![b].back = "bucket"]
        BY <3>3 DEF HandInv, Hand, Fields
      <4> QED  BY <4>1
    <3> QED  BY <3>1, <3>2, <3>3
  <2> QED  BY <2>1, <2>2
<1> DEFINE S == bot[b].left \ {tk}
           P == Cleared(b, "actual")
           Q == [bot[b] EXCEPT !.left = S]
           R == [bot[b] EXCEPT !.pc = "guard", !.left = S, !.buy = {tk},
                               !.room = Budget, !.back = back]
<1>2. S \subseteq Buyable /\ (tk \in bot[b].left => tk \in Buyable)
  BY DEF HandInv, Hand
<1> HIDE DEF S
<1>3. \/ bot' = [bot EXCEPT ![b] = P] \/ bot' = [bot EXCEPT ![b] = Q]
      \/ tk \in bot[b].left /\ bot' = [bot EXCEPT ![b] = R]
  <2>1. CASE GoTo(b, "actual")
    BY <2>1 DEF GoTo
  <2>2. CASE bot' = [bot EXCEPT ![b].left = @ \ {tk}]
    BY <2>2 DEF HandInv, Hand, S
  <2>3. CASE /\ tk \in bot[b].left
             /\ bot' = [bot EXCEPT ![b].pc = "guard", ![b].left = @ \ {tk}, ![b].buy = {tk},
                                   ![b].room = Budget, ![b].back = back]
    BY <2>3 DEF HandInv, Hand, Fields, S
  <2> QED  BY <1>1, <2>1, <2>2, <2>3
<1>4. EmptyHanded(P) /\ P.check = {} /\ P.seen = bot[b].seen
  BY ClearedEmpty, ClearedRest
<1>5. /\ DOMAIN Q = Fields /\ Q.room = bot[b].room /\ Q.buy = bot[b].buy
      /\ Q.left = S /\ Q.pc = bot[b].pc /\ Q.check = bot[b].check /\ Q.seen = bot[b].seen
  BY DEF HandInv, Hand, Fields
<1>6. /\ DOMAIN R = Fields /\ R.room = Budget /\ R.buy = {tk}
      /\ R.left = S /\ R.pc = "guard" /\ R.check = bot[b].check /\ R.seen = bot[b].seen
  BY DEF HandInv, Hand, Fields
<1> HIDE DEF P, Q, R
<1>7. bot[b].seen \subseteq DOMAIN readings
  BY DEF HandInv, Hand
<1>8. Hand(P) /\ P.buy = {}
  BY <1>4, <1>7, EmptyHand
<1>9. Hand(Q)
  BY <1>2, <1>5 DEF HandInv, Hand, OneToken
<1>10. tk \in bot[b].left => Hand(R)
  BY <1>2, <1>6, BudgetPositive DEF HandInv, Hand, OneToken
<1> QED  BY <1>0, <1>3, <1>5, <1>6, <1>8, <1>9, <1>10 DEF StepOf

LEMMA TransitionHand ==
  ASSUME NEW b \in Bots, HandInv, Transition(b)
  PROVE  StepOf(b)
<1>0. bot[b].pc = "transition"
  BY DEF Transition, At
<1>1. PICK r \in bot[b].todo :
        \/ bot' = [bot EXCEPT ![b].todo = bot[b].todo \ {r}]
        \/ bot' = [bot EXCEPT ![b] = [Cleared(b, "bucket") EXCEPT
                   !.todo = bot[b].todo \ {r}, !.key = {ActualKey(r, EffectiveForecast)},
                   !.event = {ActualEvent(r)}, !.move = {r}, !.left = CrossedTokens(r)]]
  BY DEF Transition
<1> DEFINE k == ActualKey(r, EffectiveForecast)
           T == bot[b].todo \ {r}
           L == CrossedTokens(r)
           Q == [bot[b] EXCEPT !.todo = T]
           R == [Cleared(b, "bucket") EXCEPT !.todo = T, !.key = {k},
                   !.event = {ActualEvent(r)}, !.move = {r}, !.left = L]
<1>2. bot' = [bot EXCEPT ![b] = Q] \/ bot' = [bot EXCEPT ![b] = R]
  BY <1>1
<1>3. L \subseteq Buyable
  <2> SUFFICES ASSUME NEW tk \in L PROVE tk \in Buyable
    OBVIOUS
  <2>1. tk \in Tokens /\ CrossSide(Kind, Pred(tk), tk[2], r.old.value, r.new.value)
    BY DEF CrossedTokens
  <2> QED  BY <2>1, CandidateBuyable
<1> HIDE DEF T, k, L
<1>4. /\ DOMAIN Q = Fields /\ Q.room = bot[b].room /\ Q.buy = bot[b].buy /\ Q.left = bot[b].left
      /\ Q.pc = "transition" /\ Q.check = bot[b].check /\ Q.seen = bot[b].seen
  BY <1>0 DEF HandInv, Hand, Fields
<1>5. /\ DOMAIN R = Fields /\ R.room = 0 /\ R.buy = {} /\ R.left = L
      /\ R.pc = "bucket" /\ R.check = {} /\ R.seen = bot[b].seen
  BY ClearedEmpty, ClearedRest DEF EmptyHanded, Fields
<1> HIDE DEF Q, R
<1>6. Hand(Q)
  BY <1>4 DEF HandInv, Hand, OneToken
<1>7. bot[b].seen \subseteq DOMAIN readings
  BY DEF HandInv, Hand
<1>8. Hand(R)
  BY <1>3, <1>5, <1>7 DEF Hand, OneToken
<1> QED  BY <1>2, <1>4, <1>5, <1>6, <1>8 DEF StepOf

LEMMA BucketHand ==
  ASSUME NEW b \in Bots, HandInv, BucketRefuse(b) \/ BucketMissing(b)
  PROVE  StepOf(b)
<1>0. bot[b].pc = "bucket"
  BY DEF BucketRefuse, BucketMissing, At
<1>1. PICK tk : bot' = [bot EXCEPT ![b].left = @ \ {tk}]
  BY DEF BucketRefuse, BucketMissing
<1> DEFINE S == bot[b].left \ {tk}
           R == [bot[b] EXCEPT !.left = S]
<1>2. S \subseteq Buyable
  BY DEF HandInv, Hand
<1> HIDE DEF S
<1>3. bot' = [bot EXCEPT ![b] = R]
  BY <1>1 DEF HandInv, Hand, S
<1>4. /\ DOMAIN R = Fields /\ R.room = bot[b].room /\ R.buy = bot[b].buy
      /\ R.left = S /\ R.pc = "bucket" /\ R.check = bot[b].check /\ R.seen = bot[b].seen
  BY <1>0 DEF HandInv, Hand, Fields
<1> HIDE DEF R
<1>5. Hand(R)
  BY <1>2, <1>4 DEF HandInv, Hand, OneToken
<1> QED  BY <1>3, <1>4, <1>5 DEF StepOf

LEMMA ResumedHand ==
  ASSUME NEW b \in Bots, HandInv
  PROVE  Hand(Resumed(b)) /\ Resumed(b).buy = {}
<1>1. /\ DOMAIN Resumed(b) = Fields /\ Resumed(b).buy = {} /\ Resumed(b).room = 0
      /\ Resumed(b).left = bot[b].left /\ Resumed(b).check = bot[b].check
      /\ Resumed(b).seen = bot[b].seen
  BY DEF HandInv, Hand, Resumed, Fields
<1> QED  BY <1>1 DEF HandInv, Hand, OneToken

LEMMA BuyGuardHand ==
  ASSUME NEW b \in Bots, HandInv, BuyGuard(b)
  PROVE  StepOf(b)
<1>1. CASE bot' = [bot EXCEPT ![b].pc = bot[b].back, ![b].buy = {}, ![b].room = 0]
  <2>1. bot' = [bot EXCEPT ![b] = Resumed(b)]
    BY <1>1 DEF HandInv, Hand, Fields, Resumed
  <2> QED  BY <2>1, ResumedHand DEF StepOf
<1>2. ASSUME NEW tk \in bot[b].buy, ~EntryRefused(b, tk),
             bot' = [bot EXCEPT ![b].pc = "fill"]
      PROVE  StepOf(b)
  <2> DEFINE R == [bot[b] EXCEPT !.pc = "fill"]
  <2>1. bot' = [bot EXCEPT ![b] = R]
    BY <1>2 DEF HandInv, Hand
  <2>2. /\ DOMAIN R = Fields /\ R.room = bot[b].room /\ R.buy = bot[b].buy
        /\ R.left = bot[b].left /\ R.pc = "fill" /\ R.check = bot[b].check
        /\ R.seen = bot[b].seen
    BY DEF HandInv, Hand, Fields
  <2> HIDE DEF R
  <2>3. Hand(R)
    BY <2>2 DEF HandInv, Hand, OneToken
  <2>4. Passed(b, R)
    BY <1>2, <2>2 DEF Passed
  <2> QED  BY <2>1, <2>3, <2>4 DEF StepOf
<1> QED  BY <1>1, <1>2 DEF BuyGuard

LEMMA BuyFillHand ==
  ASSUME NEW b \in Bots, HandInv, BuyFill(b) \/ BuyMiss(b)
  PROVE  StepOf(b)
<1>1. bot' = [bot EXCEPT ![b] = Resumed(b)]
  BY DEF BuyFill, BuyMiss, HandInv, Hand, Fields, Resumed
<1> QED  BY <1>1, ResumedHand DEF StepOf

\* Every step of a bot changes its own locals only, and properly.
LEMMA BotSteps ==
  ASSUME NEW b \in Bots, HandInv, TableInv, Tick(b) \/ Crash(b)
  PROVE  StepOf(b)
BY LoopsHand, ValueOfferHand, ValueMarkHand, ChangeReadHand, ExitHand, ChangeCandidatesHand,
   HandOverHand, TransitionHand, BucketHand, BuyGuardHand, BuyFillHand DEF Tick
-----------------------------------------------------------------------------
\* The rows a tick has seen stay where they are as the table grows.
LEMMA HandsKept ==
  ASSUME HandInv, DOMAIN readings \subseteq DOMAIN readings',
         bot' = bot \/ \E b \in Bots : StepOf(b)
  PROVE  HandInv'
<1>1. ASSUME NEW r, Hand(r) PROVE Hand(r)'
  BY <1>1 DEF Hand, OneToken, Buyable, Tokens, Pred
<1>2. CASE bot' = bot
  BY <1>1, <1>2 DEF HandInv
<1>3. ASSUME NEW b \in Bots, StepOf(b) PROVE HandInv'
  <2>1. PICK r : bot' = [bot EXCEPT ![b] = r] /\ Hand(r)
    BY <1>3 DEF StepOf
  <2>2. /\ bot'[b] = r /\ bot' = [c \in Bots |-> bot'[c]]
        /\ \A c \in Bots : c # b => bot'[c] = bot[c]
    BY <2>1 DEF HandInv
  <2>3. ASSUME NEW c \in Bots PROVE Hand(bot[c])'
    <3>1. CASE c = b
      <4>1. Hand(r)'
        BY <1>1, <2>1
      <4> QED  BY <2>2, <3>1, <4>1 DEF Hand, OneToken
    <3>2. CASE c # b
      <4>1. Hand(bot[c])
        BY DEF HandInv
      <4>2. bot'[c] = bot[c]
        BY <2>2, <3>2
      <4> QED  BY <4>1, <4>2 DEF Hand, OneToken, Buyable, Tokens, Pred
    <3> QED  BY <3>1, <3>2
  <2> QED  BY <2>2, <2>3 DEF HandInv
<1> QED  BY <1>2, <1>3

LEMMA InitialHands == Init => HandInv /\ TableInv
<1> SUFFICES ASSUME Init PROVE HandInv /\ TableInv
  OBVIOUS
<1>1. bot = [c \in Bots |-> Idle] /\ readings = <<>> /\ samples = <<>>
  BY DEF Init
<1>2. Idle.check = {} /\ Idle.seen = {}
  BY DEF Idle
<1>3. Hand(Idle)
  BY <1>2, IdleEmpty, EmptyHand
<1>4. HandInv
  BY <1>1, <1>3 DEF HandInv
<1>5. 1 \in Hours
  BY RunnerAssumption DEF RunnerAssumption, Hours
<1>6. TableInv
  BY <1>1, <1>5 DEF Init, TableInv
<1> QED  BY <1>4, <1>6

LEMMA SellNat ==
  ASSUME held \in [Tokens -> Nat], NEW tk, held' = held \/ Sell(tk)
  PROVE  held' \in [Tokens -> Nat]
<1>1. CASE Sell(tk)
  <2>1. PICK left \in 0 .. held[tk] : held' = [held EXCEPT ![tk] = left]
    BY <1>1 DEF Sell
  <2>2. left \in Nat
    OBVIOUS
  <2> QED  BY <2>1, <2>2
<1> QED  BY <1>1

\* What a bot's steps do to the tables.
LEMMA BotTables ==
  ASSUME NEW b \in Bots, HandInv, TableInv, Tick(b) \/ Crash(b)
  PROVE  TableInv' /\ readings' = readings
<1>1. CASE ForecastExit(b) \/ OpenExit(b)
  <2>1. PICK tk : held' = held \/ Sell(tk)
    BY <1>1 DEF ForecastExit, OpenExit
  <2>2. held' \in [Tokens -> Nat]
    BY <2>1, SellNat DEF TableInv
  <2>3. UNCHANGED <<clock, readings, samples, crashes, again>>
    BY <1>1 DEF ForecastExit, OpenExit
  <2> QED  BY <2>2, <2>3 DEF TableInv, Hours, Tokens, Reading, Sample
<1>2. CASE BuyFill(b)
  <2>1. PICK tk \in bot[b].buy, k \in bot[b].key, e \in bot[b].event, n \in 1 .. bot[b].room :
          held' = [held EXCEPT ![tk] = @ + n] /\ again' = again \cup Repeats(k, e, tk)
    BY <1>2 DEF BuyFill
  <2>2. tk \in Tokens /\ bot[b].room \in Nat
    BY <2>1 DEF HandInv, Hand, Buyable
  <2>3. n \in Nat
    BY <2>2
  <2>4. held' \in [Tokens -> Nat]
    BY <2>1, <2>2, <2>3 DEF TableInv
  <2>5. Repeats(k, e, tk) \subseteq {"key", "event"}
    BY DEF Repeats
  <2>6. UNCHANGED <<clock, readings, samples, crashes>>
    BY <1>2 DEF BuyFill
  <2> QED  BY <2>1, <2>4, <2>5, <2>6 DEF TableInv, Hours, Tokens, Reading, Sample
<1>3. CASE Crash(b)
  BY <1>3 DEF Crash, TableInv, Hours, Tokens, Reading, Sample
<1>4. CASE /\ Tick(b) /\ ~(ForecastExit(b) \/ OpenExit(b)) /\ ~BuyFill(b)
  <2>1. UNCHANGED <<clock, readings, samples, held, crashes, again>>
    BY <1>4 DEF Tick, StartTick, ValueSkip, ValueOffer, ValueMark, ChangeSkip, ChangeRead,
       ChangeCandidates, ChangeBuy, ActualStart, Transition, TransitionsDone, BucketsDone,
       BucketRefuse, BucketMissing, BucketTrade, BuyGuard, BuyMiss, TickDone
  <2> QED  BY <2>1 DEF TableInv, Hours, Tokens, Reading, Sample
<1> QED  BY <1>1, <1>2, <1>3, <1>4

\* A new row of either table has its type, and the rows before it stay.
LEMMA WorldTables ==
  ASSUME TableInv, World
  PROVE  /\ TableInv' /\ bot' = bot
         /\ readings' = readings \/ \E row \in Reading : readings' = Append(readings, row)
<1>1. CASE PassHour
  BY <1>1 DEF PassHour, TableInv, Hours, Tokens, Reading, Sample
<1>2. CASE StoreObservation \/ StoreAgain
  <2>1. PICK row \in Reading : readings' = Append(readings, row)
    <3>1. CASE StoreObservation
      BY <3>1 DEF StoreObservation, TableInv, Reading
    <3>2. CASE StoreAgain
      BY <3>2 DEF StoreAgain, TableInv
    <3> QED  BY <1>2, <3>1, <3>2
  <2>2. UNCHANGED <<clock, samples, held, bot, crashes, again>>
    BY <1>2 DEF StoreObservation, StoreAgain
  <2>3. readings' \in Seq(Reading)
    BY <2>1 DEF TableInv
  <2> QED  BY <2>1, <2>2, <2>3 DEF TableInv, Hours, Tokens, Reading, Sample
<1>3. CASE StoreForecast
  <2>1. UNCHANGED <<clock, readings, held, bot, crashes, again>>
    BY <1>3 DEF StoreForecast
  <2>2. samples' \in Seq(Sample)
    <3>1. samples \in Seq(Sample) /\ clock \in Hours
      BY DEF TableInv
    <3>2. ASSUME NEW path \in Paths,
                 samples' = Append(samples, [upd |-> Cardinality(UpdateIds) + 1,
                                             fetched |-> clock, path |-> path])
          PROVE  samples' \in Seq(Sample)
      <4>1. IsFiniteSet(UpdateIds)
        <5>1. UpdateIds \subseteq 1 .. Len(samples) /\ Len(samples) \in Nat
          BY <3>1 DEF UpdateIds
        <5>2. IsFiniteSet(1 .. Len(samples))
          BY <5>1, FS_Interval
        <5> QED  BY <5>1, <5>2, FS_Subset
      <4>2. Cardinality(UpdateIds) + 1 \in Nat
        BY <4>1, FS_CardinalityType
      <4> QED  BY <3>1, <3>2, <4>2 DEF Sample
    <3>3. ASSUME samples # <<>>,
                 samples' = Append(samples, [samples[Len(samples)] EXCEPT !.fetched = clock])
          PROVE  samples' \in Seq(Sample)
      <4>1. samples[Len(samples)] \in Sample
        BY <3>1, <3>3
      <4>2. [samples[Len(samples)] EXCEPT !.fetched = clock] \in Sample
        BY <3>1, <4>1 DEF Sample
      <4> QED  BY <3>1, <3>3, <4>2
    <3> QED  BY <1>3, <3>2, <3>3 DEF StoreForecast
  <2> QED  BY <2>1, <2>2 DEF TableInv, Hours, Tokens, Reading, Sample
<1> QED  BY <1>1, <1>2, <1>3 DEF World

LEMMA StepsKeepHands ==
  ASSUME HandInv, TableInv, [Next]_vars
  PROVE  HandInv' /\ TableInv'
<1>1. CASE UNCHANGED vars
  <2>1. HandInv'
    BY <1>1, HandsKept DEF vars
  <2> QED  BY <1>1, <2>1 DEF vars, TableInv, Hours, Tokens, Reading, Sample
<1>2. CASE World
  <2>1. DOMAIN readings \subseteq DOMAIN readings'
    BY <1>2, WorldTables DEF TableInv
  <2> QED  BY <1>2, <2>1, WorldTables, HandsKept
<1>3. CASE \E b \in Bots : Tick(b) \/ Crash(b)
  <2>1. PICK b \in Bots : Tick(b) \/ Crash(b)
    BY <1>3
  <2>2. StepOf(b) /\ TableInv' /\ readings' = readings
    BY <2>1, BotSteps, BotTables
  <2> QED  BY <2>2, HandsKept
<1> QED  BY <1>1, <1>2, <1>3 DEF Next

\* The tables and the bots' locals keep their types, for any number of bots
\* on one database: what a tick takes up from its tables (runner.py
\* process_runtime_tick and the entries and exits it calls) is one of the
\* market's tokens, however many rows and crashes come between its steps.
THEOREM TypeCorrect == Spec => []TypeOK
<1>1. Init => HandInv /\ TableInv
  BY InitialHands
<1>2. (HandInv /\ TableInv) /\ [Next]_vars => (HandInv /\ TableInv)'
  BY StepsKeepHands
<1>3. HandInv /\ TableInv => TypeOK
  BY DEF HandInv, Hand, Buyable, TableInv, TypeOK, Reading, Sample
<1> QED  BY <1>1, <1>2, <1>3, PTL DEF Spec
-----------------------------------------------------------------------------
(* Dead entries.                                                            *)

\* Of two rows, the later is not behind the earlier, or the feed has served
\* an older payload.
InOrder ==
  \A i, k \in DOMAIN readings :
    i < k /\ Beyond(Kind, readings[i].value, readings[k].value) => Reordered(i)

\* A bot that is past the guard holds nothing that its rows had lost.
Allowed(r) ==
  r.pc = "fill" =>
    \A tk \in r.buy, i \in r.seen :
      Lost(Kind, Pred(tk), tk[2], readings[i].value, Temps) => Reordered(i)

\* A bucket that no temperature can reach any more is one that the reading
\* has left behind: the temperatures have no gap that swallows a bucket.
BucketsReachable ==
  \A i \in DOMAIN Outcomes : \A v \in Temps :
    Lost(Kind, Outcomes[i], "YES", v, Temps) =>
      Outcomes[i].type = "OTHER" \/ PositionInvalidated(Kind, Outcomes[i], "YES", v)

\* Without a gap between the temperatures every bucket is reachable.
LEMMA IntegersReach ==
  ASSUME Temps = Int
  PROVE  BucketsReachable
<1> SUFFICES ASSUME NEW i \in DOMAIN Outcomes, NEW v \in Temps,
                    Lost(Kind, Outcomes[i], "YES", v, Temps), Outcomes[i].type # "OTHER"
             PROVE  PositionInvalidated(Kind, Outcomes[i], "YES", v)
  BY DEF BucketsReachable
<1> DEFINE p == Outcomes[i]
<1>1. p.type \in Types \ {"OTHER"} /\ p.value \in Int
  <2>1. Outcomes[i] \in Predicate
    BY RunnerAssumption DEF RunnerAssumption
  <2> QED  BY <2>1 DEF Predicate
<1>2. Kind \in {"highest", "lowest"} /\ v \in Int /\ Deg \in Nat \ {0}
  BY RunnerAssumption, DegAssumption DEF RunnerAssumption, DegAssumption, Kinds
<1>3. \A w \in Int : ~Beyond(Kind, v, w) => ~Matches(p, w)
  BY DEF Lost, Resolves
<1>4. p.value \in Int /\ p.value + Deg - 1 \in Int
  BY <1>1, <1>2
<1> HIDE DEF p
<1>5. ~Beyond(Kind, v, v)
  BY <1>2 DEF Beyond
<1>6. ~Matches(p, v)
  BY <1>2, <1>3, <1>5
<1>7. ~Beyond(Kind, v, p.value) => ~Matches(p, p.value)
  BY <1>3, <1>4
<1>8. ~Beyond(Kind, v, p.value + Deg - 1) => ~Matches(p, p.value + Deg - 1)
  BY <1>3, <1>4
<1>9. PositionInvalidated(Kind, p, "YES", v)
  BY <1>1, <1>2, <1>6, <1>7, <1>8 DEF Types, Matches, Above, Beyond, PositionInvalidated
<1> QED  BY <1>9 DEF p

LEMMA ReorderedStays ==
  ASSUME TableInv, NEW row \in Reading, readings' = Append(readings, row),
         NEW i \in DOMAIN readings, Reordered(i)
  PROVE  Reordered(i)'
<1>1. /\ DOMAIN readings = 1 .. Len(readings) /\ DOMAIN readings' = 1 .. Len(readings) + 1
      /\ Len(readings) \in Nat
      /\ \A k \in DOMAIN readings : readings'[k] = readings[k]
  BY DEF TableInv
<1>2. PICK h, j, k \in DOMAIN readings :
        /\ h < j /\ j < k /\ i < k
        /\ readings[h] = readings[k] /\ readings[j] # readings[k]
        /\ readings[j].station = readings[k].station
  BY DEF Reordered
<1>3. h \in DOMAIN readings' /\ j \in DOMAIN readings' /\ k \in DOMAIN readings'
  BY <1>1
<1> QED  BY <1>1, <1>2, <1>3 DEF Reordered

LEMMA RowValues ==
  ASSUME TableInv, Stations = {"HKO"}, NEW i \in DOMAIN readings
  PROVE  /\ readings[i].value \in Temps /\ readings[i].value \in Int
         /\ readings[i].station = "HKO"
<1>1. readings[i] \in Reading
  BY DEF TableInv
<1> QED  BY <1>1, RunnerAssumption DEF Reading, RunnerAssumption

\* A row that goes back is an older payload, and shows that it is.
LEMMA NewRowInOrder ==
  ASSUME TableInv, Stations = {"HKO"}, InOrder, StoreObservation \/ StoreAgain
  PROVE  InOrder'
<1> DEFINE n == Len(readings) + 1
<1>1. PICK row \in Reading :
        /\ readings' = Append(readings, row)
        /\ \/ \A i \in DOMAIN readings : ~Beyond(Kind, readings[i].value, row.value)
           \/ \E h \in DOMAIN readings : row = readings[h]
  <2>1. CASE StoreObservation
    <3>1. PICK v \in Temps, s \in Stations :
            /\ \A i \in DOMAIN readings :
                 readings[i].station = s => ~Beyond(Kind, readings[i].value, v)
            /\ readings' = Append(readings, [at |-> clock, value |-> v, station |-> s])
      BY <2>1 DEF StoreObservation
    <3>2. [at |-> clock, value |-> v, station |-> s] \in Reading
      BY DEF TableInv, Reading
    <3>3. \A i \in DOMAIN readings : readings[i].station = s
      BY RowValues
    <3> QED  BY <3>1, <3>2, <3>3
  <2>2. CASE StoreAgain
    <3>1. PICK h \in DOMAIN readings : readings' = Append(readings, readings[h])
      BY <2>2 DEF StoreAgain
    <3>2. readings[h] \in Reading
      BY DEF TableInv
    <3> QED  BY <3>1, <3>2
  <2> QED  BY <2>1, <2>2
<1>2. /\ DOMAIN readings = 1 .. Len(readings) /\ Len(readings) \in Nat
      /\ DOMAIN readings' = 1 .. n /\ readings'[n] = row
      /\ \A k \in DOMAIN readings : readings'[k] = readings[k]
  BY <1>1 DEF TableInv
<1> SUFFICES ASSUME NEW i \in 1 .. n, NEW k \in 1 .. n, i < k,
                    Beyond(Kind, readings'[i].value, readings'[k].value)
             PROVE  Reordered(i)'
  BY <1>2 DEF InOrder
<1>3. i \in DOMAIN readings /\ (k \in DOMAIN readings \/ k = n)
  BY <1>2
<1>4. CASE k \in DOMAIN readings
  <2>1. Reordered(i)
    BY <1>2, <1>3, <1>4 DEF InOrder
  <2> QED  BY <1>1, <1>3, <2>1, ReorderedStays
<1>5. CASE k = n
  <2>1. Beyond(Kind, readings[i].value, row.value)
    BY <1>2, <1>3, <1>5
  <2>2. PICK h \in DOMAIN readings : row = readings[h]
    BY <1>1, <1>3, <2>1
  <2>3. readings[i].value \in Int /\ readings[h].value \in Int
    BY <1>3, RowValues
  <2>4. readings[i] # readings[h] /\ h # i
    BY <2>1, <2>2, <2>3 DEF Beyond
  <2>5. CASE i < h
    <3>1. Reordered(i)
      BY <1>3, <2>1, <2>2, <2>5 DEF InOrder
    <3> QED  BY <1>1, <1>3, <3>1, ReorderedStays
  <2>6. CASE h < i
    <3>1. h \in DOMAIN readings' /\ i \in DOMAIN readings' /\ n \in DOMAIN readings'
      BY <1>2, <1>3
    <3>2. readings'[h] = readings'[n] /\ readings'[i] # readings'[n]
      BY <1>2, <1>3, <2>2, <2>4
    <3>3. readings'[i].station = readings'[n].station
      BY <1>2, <1>3, <2>2, RowValues
    <3>4. h < i /\ i < n
      BY <1>2, <1>3, <2>6
    <3> QED  BY <3>1, <3>2, <3>3, <3>4 DEF Reordered
  <2>7. i \in Int /\ h \in Int
    BY <1>2, <1>3
  <2> QED  BY <2>4, <2>5, <2>6, <2>7
<1> QED  BY <1>3, <1>4, <1>5

\* What is lost at one reading is lost at every later one.
LEMMA LostStays ==
  ASSUME NEW p, NEW side, NEW v \in Temps, NEW w \in Temps, ~Beyond(Kind, v, w),
         Lost(Kind, p, side, v, Temps)
  PROVE  Lost(Kind, p, side, w, Temps)
<1>1. \A x \in Temps : ~Beyond(Kind, w, x) => ~Beyond(Kind, v, x)
  BY RunnerAssumption DEF RunnerAssumption, Beyond
<1> QED  BY <1>1 DEF Lost

\* A token that is lost at the last reading is stopped by the guard.
LEMMA LostIsInvalidated ==
  ASSUME BucketsReachable, NEW tk \in Buyable, NEW v \in Temps,
         Lost(Kind, Pred(tk), tk[2], v, Temps)
  PROVE  PositionInvalidated(Kind, Pred(tk), tk[2], v)
<1>1. tk[1] \in DOMAIN Outcomes /\ tk[2] \in {"YES", "NO"}
  BY DEF Buyable, Tokens, Sides
<1>2. CASE tk[2] = "YES"
  BY <1>1, <1>2 DEF BucketsReachable, Buyable, Pred
<1>3. CASE tk[2] = "NO"
  <2>1. ~Beyond(Kind, v, v)
    BY RunnerAssumption DEF RunnerAssumption, Beyond
  <2>2. ~Resolves(Pred(tk), "NO", v)
    BY <1>3, <2>1 DEF Lost
  <2> QED  BY <1>3, <2>2 DEF Resolves, PositionInvalidated
<1> QED  BY <1>1, <1>2, <1>3

LEMMA PassedAllowed ==
  ASSUME NEW b \in Bots, HandInv, TableInv, InOrder, BucketsReachable, Stations = {"HKO"},
         NEW r, Passed(b, r)
  PROVE  Allowed(r)
<1> SUFFICES ASSUME NEW tk \in bot[b].buy, NEW i \in bot[b].seen,
                    Lost(Kind, Pred(tk), tk[2], readings[i].value, Temps)
             PROVE  Reordered(i)
  BY DEF Passed, Allowed
<1>1. ~EntryRefused(b, tk)
  <2>1. PICK x \in bot[b].buy : ~EntryRefused(b, x)
    BY DEF Passed
  <2>2. x = tk
    BY DEF HandInv, Hand, OneToken
  <2> QED  BY <2>1, <2>2
<1>2. tk \in Buyable /\ i \in DOMAIN readings
  BY DEF HandInv, Hand
<1> DEFINE n == Len(readings)
<1>3. n \in DOMAIN readings /\ i <= n /\ i \in Int /\ n \in Int /\ readings # <<>>
  BY <1>2 DEF TableInv
<1>4. ~PositionInvalidated(Kind, Pred(tk), tk[2], readings[n].value)
  BY <1>1, <1>3 DEF EntryRefused, LatestObserved
<1>5. readings[i].value \in Temps /\ readings[n].value \in Temps /\ readings[i].value \in Int
  BY <1>2, <1>3, RowValues
<1> HIDE DEF n
<1>6. Beyond(Kind, readings[i].value, readings[n].value)
  BY <1>2, <1>4, <1>5, LostStays, LostIsInvalidated
<1>7. i # n
  BY <1>5, <1>6 DEF Beyond
<1> QED  BY <1>2, <1>3, <1>6, <1>7 DEF InOrder

\* A bot's step leaves only what is allowed about to be filled.
LEMMA AllowedKept ==
  ASSUME HandInv, TableInv, InOrder, BucketsReachable, Stations = {"HKO"},
         \A c \in Bots : Allowed(bot[c]), [Next]_vars
  PROVE  InOrder' /\ \A c \in Bots : Allowed(bot[c])'
<1>0. ASSUME NEW r, Allowed(r), readings' = readings PROVE Allowed(r)'
  BY <1>0 DEF Allowed, Reordered, Pred
<1>1. CASE readings' = readings /\ bot' = bot
  <2>1. InOrder'
    BY <1>1 DEF InOrder, Reordered
  <2>2. ASSUME NEW c \in Bots PROVE Allowed(bot[c])'
    BY <1>1 DEF Allowed, Reordered, Pred
  <2> QED  BY <2>1, <2>2
<1>2. CASE StoreObservation \/ StoreAgain
  <2>1. InOrder'
    BY <1>2, NewRowInOrder
  <2>2. World
    BY <1>2 DEF World
  <2>3. bot' = bot
    BY <2>2, WorldTables
  <2>4. PICK row \in Reading : readings' = Append(readings, row)
    <3>1. readings' # readings
      <4>1. \E x : readings' = Append(readings, x)
        BY <1>2 DEF StoreObservation, StoreAgain
      <4> QED  BY <4>1 DEF TableInv
    <3> QED  BY <2>2, <3>1, WorldTables
  <2>5. ASSUME NEW c \in Bots PROVE Allowed(bot[c])'
    <3> SUFFICES ASSUME bot[c].pc = "fill", NEW tk \in bot[c].buy, NEW i \in bot[c].seen,
                        Lost(Kind, Pred(tk), tk[2], readings'[i].value, Temps)
                 PROVE  Reordered(i)'
      BY <2>3 DEF Allowed, Pred
    <3>1. i \in DOMAIN readings
      BY DEF HandInv, Hand
    <3>2. readings'[i] = readings[i]
      BY <2>4, <3>1 DEF TableInv
    <3>3. Reordered(i)
      BY <3>2 DEF Allowed
    <3> QED  BY <2>4, <3>1, <3>3, ReorderedStays
  <2> QED  BY <2>1, <2>5
<1>3. ASSUME NEW b \in Bots, Tick(b) \/ Crash(b)
      PROVE  InOrder' /\ \A c \in Bots : Allowed(bot[c])'
  <2>1. readings' = readings
    BY <1>3, BotTables
  <2>2. PICK r : /\ bot' = [bot EXCEPT ![b] = r]
                 /\ r.pc = "fill" => r.buy = {} \/ Passed(b, r)
    BY <1>3, BotSteps DEF StepOf
  <2>3. Allowed(r)
    <3>1. CASE r.pc = "fill" => r.buy = {}
      BY <3>1 DEF Allowed
    <3>2. CASE Passed(b, r)
      BY <3>2, PassedAllowed
    <3> QED  BY <2>2, <3>1, <3>2
  <2>4. InOrder'
    BY <2>1 DEF InOrder, Reordered
  <2>5. ASSUME NEW c \in Bots PROVE Allowed(bot[c])'
    <3>1. bot'[c] = IF c = b THEN r ELSE bot[c]
      BY <2>2 DEF HandInv
    <3>2. Allowed(bot'[c])
      BY <2>3, <3>1
    <3>3. PICK q : q = bot'[c]
      OBVIOUS
    <3>4. Allowed(q)'
      BY <1>0, <2>1, <3>2, <3>3
    <3> QED  BY <3>3, <3>4 DEF Allowed
  <2> QED  BY <2>4, <2>5
<1> QED  BY <1>1, <1>2, <1>3 DEF Next, World, PassHour, StoreForecast, vars

\* With the AWS feed alone on the table, no bot ever fills a buy of a side
\* which the rows its tick started from had made worthless, unless the feed
\* has served an older payload since: for any number of bots, of readings
\* and of crashes (runner.py _actual_entry_guard_reason).
THEOREM NoDeadBuys ==
  ASSUME Stations = {"HKO"}, BucketsReachable
  PROVE  Spec => NoDeadEntries
<1> DEFINE Inv == /\ HandInv /\ TableInv /\ InOrder
                  /\ \A c \in Bots : Allowed(bot[c])
           NoDead == \A b \in Bots, tk \in Tokens :
                       BuyFill(b) /\ held'[tk] > held[tk]
                         => \A i \in bot[b].seen :
                              Lost(Kind, Pred(tk), tk[2], readings[i].value, Temps)
                                => Reordered(i)
<1>1. Init => Inv
  <2> SUFFICES ASSUME Init PROVE Inv
    OBVIOUS
  <2>1. InOrder
    BY DEF Init, InOrder
  <2>2. ASSUME NEW c \in Bots PROVE Allowed(bot[c])
    <3>1. bot[c] = Idle
      BY DEF Init
    <3> QED  BY <3>1, IdleEmpty DEF Allowed
  <2> QED  BY <2>1, <2>2, InitialHands
<1>2. Inv /\ [Next]_vars => Inv'
  <2> SUFFICES ASSUME Inv, [Next]_vars PROVE Inv'
    OBVIOUS
  <2> QED  BY StepsKeepHands, AllowedKept
<1>3. Inv /\ [Next]_vars => [NoDead]_vars
  <2> SUFFICES ASSUME Inv, NEW b \in Bots, NEW tk \in Tokens, BuyFill(b), held'[tk] > held[tk],
                      NEW i \in bot[b].seen,
                      Lost(Kind, Pred(tk), tk[2], readings[i].value, Temps)
               PROVE  Reordered(i)
    OBVIOUS
  <2>1. bot[b].pc = "fill"
    BY DEF BuyFill, At
  <2>2. PICK x \in bot[b].buy, n \in 1 .. bot[b].room : held' = [held EXCEPT ![x] = @ + n]
    BY DEF BuyFill
  <2>3. tk = x
    <3>1. held[tk] \in Nat
      BY DEF TableInv
    <3>2. tk # x => held'[tk] = held[tk]
      BY <2>2 DEF TableInv
    <3> QED  BY <3>1, <3>2
  <2>4. Allowed(bot[b])
    OBVIOUS
  <2> QED  BY <2>1, <2>2, <2>3, <2>4 DEF Allowed
<1>4. Spec => [][NoDead]_vars
  <2> HIDE DEF Inv, NoDead
  <2> QED  BY <1>1, <1>2, <1>3, PTL DEF Spec
<1> QED  BY <1>4 DEF NoDeadEntries

-----------------------------------------------------------------------------
(* What the temperature rules of runner.py mean for the money: theorems    *)
(* about Markets for every predicate, every pair of readings and every     *)
(* course the rest of the day can take.  All are arithmetic on one bucket; *)
(* a step of a proof is a kind of market and a side.                       *)

LEMMA PredicateArithmetic ==
  ASSUME NEW p \in Predicate
  PROVE  /\ p.value \in Int /\ p.type \in Types
         /\ Above(p) \in Int /\ p.value < Above(p)
  BY DegAssumption DEF DegAssumption, Above, Predicate

\* Readings of the highest temperature that can still come after v.
LEMMA StillToCome ==
  ASSUME NEW v \in Int, NEW w \in Int
  PROVE  /\ ~Beyond("highest", v, w) <=> v <= w
         /\ ~Beyond("lowest", v, w) <=> w <= v
  BY DEF Beyond

\* The NO that an actual cross buys at up to 0.99 (_actual_cross_side,
\* _actual_low_cross_side) pays out whatever the rest of the day brings.
THEOREM CrossedNoSettled ==
  ASSUME NEW kind \in Kinds, NEW p \in Predicate, NEW old \in Int, NEW new \in Int,
         CrossSide(kind, p, "NO", old, new)
  PROVE  Settled(kind, p, "NO", new, Int)
<1> SUFFICES ASSUME NEW w \in Int, ~Beyond(kind, new, w)
             PROVE  Resolves(p, "NO", w)
  BY DEF Settled
<1> USE PredicateArithmetic
<1>1. CASE kind = "highest"
  <2>1. new <= w  BY <1>1, StillToCome
  <2>2. RisesPast(p, old, new)  BY <1>1 DEF CrossSide
  <2> QED  BY <2>1, <2>2 DEF RisesPast, Resolves, Matches
<1>2. CASE kind = "lowest"
  <2>1. w <= new  BY <1>2, StillToCome
  <2>2. FallsPast(p, old, new)  BY <1>2 DEF CrossSide
  <2> QED  BY <2>1, <2>2 DEF FallsPast, Resolves, Matches
<1> QED  BY <1>1, <1>2 DEF Kinds

\* The YES of the outermost bucket that an actual cross buys pays out too:
\* the top bucket of a market on the maximum, the bottom one on the minimum.
THEOREM CrossedEndSettled ==
  ASSUME NEW kind \in Kinds, NEW p \in Predicate, NEW old \in Int, NEW new \in Int,
         CrossSide(kind, p, "YES", old, new), p.type # "EXACT_C"
  PROVE  Settled(kind, p, "YES", new, Int)
<1> SUFFICES ASSUME NEW w \in Int, ~Beyond(kind, new, w)
             PROVE  Resolves(p, "YES", w)
  BY DEF Settled
<1> USE PredicateArithmetic
<1>1. CASE kind = "highest"
  <2>1. new <= w  BY <1>1, StillToCome
  <2>2. RisesInto(p, old, new)  BY <1>1 DEF CrossSide
  <2> QED  BY <2>1, <2>2 DEF RisesInto, Resolves, Matches
<1>2. CASE kind = "lowest"
  <2>1. w <= new  BY <1>2, StillToCome
  <2>2. FallsInto(p, old, new)  BY <1>2 DEF CrossSide
  <2> QED  BY <2>1, <2>2 DEF FallsInto, Resolves, Matches
<1> QED  BY <1>1, <1>2 DEF Kinds

\* A position held to maturity (_position_can_hold_to_maturity) is one the
\* market will pay.
THEOREM HeldToMaturityPays ==
  ASSUME NEW kind \in Kinds, NEW p \in Predicate, NEW side \in Sides, NEW v \in Int,
         PositionCanHoldToMaturity(kind, p, side, v)
  PROVE  Settled(kind, p, side, v, Int)
<1> SUFFICES ASSUME NEW w \in Int, ~Beyond(kind, v, w)
             PROVE  Resolves(p, side, w)
  BY DEF Settled
<1> USE PredicateArithmetic
<1>1. CASE kind = "highest"
  <2>1. v <= w  BY <1>1, StillToCome
  <2> QED  BY <1>1, <2>1
             DEF PositionCanHoldToMaturity, Resolves, Matches
<1>2. CASE kind = "lowest"
  <2>1. w <= v  BY <1>2, StillToCome
  <2> QED  BY <1>2, <2>1
             DEF PositionCanHoldToMaturity, Resolves, Matches
<1> QED  BY <1>1, <1>2 DEF Kinds

\* For a YES, the reading's invalidation (_position_invalidated) is exactly
\* worthlessness: no day still to come pays it, and no position that some
\* such day would pay is sold or refused on the reading's word.
THEOREM InvalidatedYesIsLost ==
  ASSUME NEW kind \in Kinds, NEW p \in Predicate, NEW v \in Int, p.type # "OTHER"
  PROVE  PositionInvalidated(kind, p, "YES", v) <=> Lost(kind, p, "YES", v, Int)
<1> USE PredicateArithmetic
<1>1. ASSUME PositionInvalidated(kind, p, "YES", v), NEW w \in Int, ~Beyond(kind, v, w)
      PROVE  ~Resolves(p, "YES", w)
  <2>1. CASE kind = "highest"
    <3>1. v <= w  BY <1>1, <2>1, StillToCome
    <3> QED  BY <1>1, <2>1, <3>1
               DEF PositionInvalidated, Resolves, Matches
  <2>2. CASE kind = "lowest"
    <3>1. w <= v  BY <1>1, <2>2, StillToCome
    <3> QED  BY <1>1, <2>2, <3>1
               DEF PositionInvalidated, Resolves, Matches
  <2> QED  BY <2>1, <2>2 DEF Kinds
<1>2. ASSUME ~PositionInvalidated(kind, p, "YES", v)
      PROVE  \E w \in Int : ~Beyond(kind, v, w) /\ Resolves(p, "YES", w)
  <2>1. CASE kind = "highest"
    <3> DEFINE w == IF v < p.value THEN p.value ELSE v
    <3>1. w \in Int /\ v <= w  OBVIOUS
    <3>2. Resolves(p, "YES", w)
      BY <1>2, <2>1 DEF PositionInvalidated, Resolves, Matches, Types
    <3> QED  BY <2>1, <3>1, <3>2, StillToCome
  <2>2. CASE kind = "lowest"
    <3> DEFINE w == IF v < Above(p) THEN v ELSE p.value
    <3>1. w \in Int /\ w <= v  BY DEF Predicate, Above
    <3>2. Resolves(p, "YES", w)
      BY <1>2, <2>2 DEF PositionInvalidated, Resolves, Matches, Types
    <3> QED  BY <2>2, <3>1, <3>2, StillToCome
  <2> QED  BY <2>1, <2>2 DEF Kinds
<1> QED  BY <1>1, <1>2 DEF Lost

\* Temperatures in one degree have one floor.
LEMMA SameFloor ==
  ASSUME NEW q \in Int, NEW t \in Int, q * Deg <= t, t < q * Deg + Deg
  PROVE  Floor(t) = q
<1> DEFINE d == t \div Deg
           m == t % Deg
<1>1. d \in Int /\ m \in Int /\ t = Deg * d + m /\ 0 <= m /\ m < Deg
  BY DegAssumption DEF DegAssumption
<1>2. Deg * (d - q) < Deg /\ Deg * (q - d) < Deg
  BY <1>1, DegAssumption DEF DegAssumption
<1>3. d - q < 1 /\ q - d < 1
  BY <1>1, <1>2, DegAssumption DEF DegAssumption
<1> QED  BY <1>1, <1>3 DEF Floor

\* Away from the bottom bucket, the side bought on a forecast's change
\* (_forecast_move_side) is one the same forecast does not end.
THEOREM ForecastMoveAgrees ==
  ASSUME NEW p \in Predicate, NEW side \in Sides, NEW old \in Int, NEW new \in Int,
         ForecastMoveSide(p, side, old, new), p.type # "BOTTOM_BUCKET_LTE_C",
         Floor(old) # Floor(new),
         NEW q \in Int, p.value = q * Deg
  PROVE  ~PositionInvalidatedByForecast(p, side, new)
<1> USE PredicateArithmetic
<1>1. CASE side = "YES"
  BY <1>1 DEF ForecastMoveSide, PositionInvalidatedByForecast
<1>2. CASE side = "NO"
  <2>1. CASE new < old
    BY <1>2, <2>1 DEF ForecastMoveSide, PositionInvalidatedByForecast, Matches
  <2>2. CASE new > old
    <3>1. p.type = "EXACT_C" /\ p.value < new /\ (Matches(p, new) => Matches(p, old))
      BY <1>2, <2>2 DEF ForecastMoveSide
    <3>2. ASSUME Matches(p, new)  PROVE FALSE
      <4>1. p.value <= old /\ old < Above(p) /\ p.value <= new /\ new < Above(p)
        BY <3>1, <3>2 DEF Matches
      <4>2. Floor(old) = q /\ Floor(new) = q
        BY <4>1, SameFloor DEF Above
      <4> QED  BY <4>2
    <3> QED  BY <1>2, <3>2 DEF PositionInvalidatedByForecast
  <2> QED  BY <1>2, <2>1, <2>2 DEF ForecastMoveSide
<1> QED  BY <1>1, <1>2 DEF Sides
=============================================================================
