----------------------------- MODULE AlpacaTypes -----------------------------
(***************************************************************************)
(* fromJSON of the value types of alpaca/: what a body of the REST service  *)
(* becomes.  A text is abstracted to                                        *)
(*                                                                          *)
(*   is      "broken" (no JSON), "scalar", "array" or "object"              *)
(*   of      of an object: the kind of the JSON value of each member that   *)
(*           Members names, "none" when the member is missing               *)
(*   items   of an object with a list of objects, or an array: the items    *)
(*                                                                          *)
(* Left out: the members that are strings.  fromJSON leaves them empty when *)
(* the text has no string for them, and their values are only copied.       *)
(***************************************************************************)
EXTENDS Integers, FiniteSets, Sequences

(* The macro of json.h that reads each member, by its name in the JSON      *)
(* text.  ITEMS stands for GetArray() without a question asked, and NAME    *)
(* for a string that decides how the object is read.                        *)
AccountJSON ==
  [account_blocked |-> "BOOL", daytrade_count |-> "INT", pattern_day_trader |-> "BOOL",
   shorting_enabled |-> "BOOL", trade_suspended_by_user |-> "BOOL",
   trading_blocked |-> "BOOL", transfers_blocked |-> "BOOL"]

ConfigurationsJSON == [no_shorting |-> "BOOL", suspend_trade |-> "BOOL"]

ActivityJSON == [activity_type |-> "NAME"]

AssetJSON ==
  [easy_to_borrow |-> "BOOL", marginable |-> "BOOL", shortable |-> "BOOL", tradable |-> "BOOL"]

BarJSON ==
  [t |-> "UINT", o |-> "DOUBLE", h |-> "DOUBLE", l |-> "DOUBLE", c |-> "DOUBLE", v |-> "UINT"]

ClockJSON == [is_open |-> "BOOL"]

OrderJSON == [extended_hours |-> "BOOL", legs |-> "BOOL"]

PortfolioJSON ==
  [base_value |-> "DOUBLE", equity |-> "VECTOR_DOUBLES", profit_loss |-> "VECTOR_DOUBLES",
   profit_loss_pct |-> "VECTOR_DOUBLES", timestamp |-> "VECTOR_UINT64"]

DateJSON == <<>>
PositionJSON == <<>>

Members ==
  [Account |-> AccountJSON, AccountConfigurations |-> ConfigurationsJSON,
   Activity |-> ActivityJSON, Asset |-> AssetJSON, Bar |-> BarJSON,
   Bars |-> [symbol |-> "ITEMS"], Clock |-> ClockJSON, Date |-> DateJSON,
   Order |-> OrderJSON, PortfolioHistory |-> PortfolioJSON,
   Position |-> PositionJSON, Watchlist |-> [assets |-> "ITEMS"]]

(* The members that the classes declare without an initial value.           *)
AccountScalars ==
  {"account_blocked", "daytrade_count", "pattern_day_trader", "shorting_enabled",
   "trade_suspended_by_user", "trading_blocked", "transfers_blocked"}
ConfigurationsScalars == {"no_shorting", "suspend_trade"}
AssetScalars == {"easy_to_borrow", "marginable", "shortable", "tradable"}
BarScalars == {"t", "o", "h", "l", "c", "v"}
ClockScalars == {"is_open"}
OrderScalars == {"extended_hours", "legs"}
PortfolioScalars == {"base_value"}

Scalars ==
  [type \in DOMAIN Members |->
     CASE type = "Account" -> AccountScalars
       [] type = "AccountConfigurations" -> ConfigurationsScalars
       [] type = "Asset" -> AssetScalars
       [] type = "Bar" -> BarScalars
       [] type = "Clock" -> ClockScalars
       [] type = "Order" -> OrderScalars
       [] type = "PortfolioHistory" -> PortfolioScalars
       [] OTHER -> {}]

(* The kinds of values a macro takes.  "int" fits 32 bits and "large" does  *)
(* not; "nulls" is an array where some numbers are null, which are skipped. *)
AcceptsWith(numbers) ==
  [BOOL |-> {"bool"}, INT |-> {"int", "negative"}, UINT |-> {"int"},
   DOUBLE |-> numbers, NAME |-> {"string"}, ITEMS |-> {"array"},
   VECTOR_DOUBLES |-> {"array", "nulls", "fractions"},
   VECTOR_UINT64 |-> {"array", "nulls"}]

(* Mutant: PARSE_DOUBLE asks for IsDouble() instead of IsNumber(). *)
AcceptsDoubles == AcceptsWith({"fraction"})
Accepts == AcceptsWith({"int", "negative", "large", "fraction"})

Takes(type, text, m) == text.of[m] \in Accepts[Members[type][m]]

(* The members that fromJSON leaves with an indeterminate value, though it  *)
(* returns OK.                                                              *)
Unset(type, text) ==
  {m \in Scalars[type] : m \in DOMAIN Members[type] => ~Takes(type, text, m)}

(* GetArray() on what is no array, and GetUint64() on a number that is no   *)
(* uint64_t: assertions of rapidjson.                                       *)
Asserts(type, text) ==
  \E m \in DOMAIN Members[type] :
    \/ Members[type][m] = "ITEMS" /\ ~Takes(type, text, m)
    \/ Members[type][m] = "VECTOR_UINT64" /\ text.of[m] = "fractions"

(* The outcome of a loop over items that returns at the first that fails.   *)
FirstFailure(outcomes) ==
  LET bad == {i \in DOMAIN outcomes : outcomes[i] # "ok"}
  IN  IF bad = {} THEN "ok"
      ELSE outcomes[CHOOSE i \in bad : \A j \in bad : i <= j]

(* Mutant of Plain: the check for an object is forgotten. *)
PlainUnchecked(type, text) == IF text.is = "broken" THEN "error" ELSE "ok"

(* fromJSON of a type without items. *)
Plain(type, text) ==
  IF text.is # "object" THEN "error"
  ELSE IF Asserts(type, text) THEN "assert" ELSE "ok"

(* The loops of Bars::fromJSON and Watchlist::fromJSON. *)
BarsFromJSON(text) ==
  IF Plain("Bars", text) # "ok" THEN Plain("Bars", text)
  ELSE FirstFailure([i \in DOMAIN text.items |->
                       IF text.items[i].is = "object" THEN "ok" ELSE "assert"])

WatchlistFromJSON(text) ==
  IF Plain("Watchlist", text) # "ok" THEN Plain("Watchlist", text)
  ELSE FirstFailure([i \in DOMAIN text.items |-> Plain("Asset", text.items[i])])

(* getAccountActivity looks into the activities itself, to tell the trades  *)
(* from the others; HasMember() of what is no object is an assertion.       *)
ActivityFromJSON(text) ==
  IF text.is # "object" THEN "assert"
  ELSE IF ~Takes("Activity", text, "activity_type") THEN "error"
  ELSE Plain("Activity", text)

(* What becomes of a text that should be an object of the type. *)
fromJSON(type, text) ==
  CASE text.is = "broken" -> "error"
    [] text.is # "broken" /\ type = "Activity" -> ActivityFromJSON(text)
    [] text.is # "broken" /\ type = "Bars" -> BarsFromJSON(text)
    [] text.is # "broken" /\ type = "Watchlist" -> WatchlistFromJSON(text)
    [] OTHER -> Plain(type, text)

(* The loop of an operation that returns a list. *)
ListFromJSON(type, list) ==
  CASE list.is = "broken" -> "error"
    [] list.is # "broken" /\ list.is # "array" -> "assert"
    [] OTHER -> FirstFailure([i \in DOMAIN list.items |-> fromJSON(type, list.items[i])])

-----------------------------------------------------------------------------
(***************************************************************************)
(* What the service sends, as in the texts of the unit tests: the kinds of  *)
(* order_test.cpp:9-34, bars_test.cpp:9-31, portfolio_test.cpp:9-17 ...     *)
(***************************************************************************)
Usual(type, m) ==
  CASE m = "legs" -> {"null"}
    [] m # "legs" /\ Members[type][m] = "BOOL" -> {"bool"}
    [] Members[type][m] = "NAME" -> {"string"}
    [] Members[type][m] \in {"INT", "UINT"} -> {"int"}
    [] Members[type][m] = "DOUBLE" -> {"fraction", "int"}
    [] OTHER -> {"array"}

Kinds(macro) ==
  CASE macro \in {"BOOL", "NAME", "ITEMS"} -> {"null"}
    [] macro \in {"INT", "UINT"} -> {"none", "large"}
    [] macro = "DOUBLE" -> {"none", "int"}
    [] OTHER -> {"nulls", "fractions"}

Text(is, of, items) == [is |-> is, of |-> of, items |-> items]

UsualMembers(type) ==
  [m \in DOMAIN Members[type] |-> CHOOSE kind \in Usual(type, m) : TRUE]

ItemType(type) == CASE type = "Watchlist" -> "Asset" [] type = "Bars" -> "Bar" [] OTHER -> "none"

Documented(type) ==
  Text("object", UsualMembers(type),
       IF ItemType(type) = "none" THEN <<>>
       ELSE <<Text("object", UsualMembers(ItemType(type)), <<>>)>>)

(* Objects of the right shape: one member at most is not as usual. *)
Objects(type) ==
  {Documented(type)} \cup
  UNION {{[Documented(type) EXCEPT !.of[m] = kind] : kind \in Kinds(Members[type][m])} :
            m \in DOMAIN Members[type]}

(* The same with other items: one more, or one that is not as usual. *)
WithItems(type) ==
  IF ItemType(type) = "none" THEN {}
  ELSE {[Documented(type) EXCEPT !.items = <<@[1], item>>] : item \in Objects(ItemType(type))}

(* Texts that are something else. *)
Others(type) ==
  {[Documented(type) EXCEPT !.is = is] : is \in {"broken", "scalar", "array"}}
  \cup IF ItemType(type) = "none" THEN {}
       ELSE {[Documented(type) EXCEPT !.items = <<@[1], [@[1] EXCEPT !.is = "scalar"]>>]}

Texts(type) == Objects(type) \cup WithItems(type) \cup Others(type)

(* Lists of at most two. *)
Lists(type) ==
  LET items == {text \in Texts(type) : text.is # "broken"}
  IN  {[is |-> "array", items |-> list] : list \in {<<>>} \cup [1 .. 1 -> items]
                                               \cup [1 .. 2 -> items]}
      \cup {[is |-> is, items |-> <<>>] : is \in {"broken", "scalar", "object"}}

(* What an operation reads: one object, or a list of them. *)
Bodies(type, list) == IF list THEN Lists(type) ELSE Texts(type)

Outcome(type, list, body) ==
  IF list THEN ListFromJSON(type, body) ELSE fromJSON(type, body)

(* The objects of a body: its texts, and their items. *)
Parts(type, list, body) ==
  LET texts == IF list THEN {body.items[i] : i \in DOMAIN body.items} ELSE {body}
  IN  {<<type, text>> : text \in texts}
      \cup UNION {{<<ItemType(type), text.items[i]>> : i \in DOMAIN text.items} :
                     text \in texts}

(* How a body relates to what the operation expects. *)
Shape(type, list, body) ==
  IF \/ list /\ body.is # "array"
     \/ \E part \in Parts(type, list, body) : part[2].is # "object" THEN "wrong"
  ELSE IF \A part \in Parts(type, list, body) :
            \A m \in DOMAIN Members[part[1]] : part[2].of[m] \in Usual(part[1], m)
       THEN "documented" ELSE "unusual"

(* The members that are indeterminate in what is returned. *)
UnsetIn(type, list, body) ==
  UNION {Unset(part[1], part[2]) : part \in Parts(type, list, body)}
=============================================================================
