--------------------------- MODULE DebugProtocol ---------------------------
(***************************************************************************)
(* What the debug server answers: the operations of handle_graphql on the  *)
(* registry, the conversions of field values on the way from the user's    *)
(* text to the component's bytes, and the names entities are shown under.  *)
(* Both ends use it: DebugServer (the sockets) and Debugger (the tool).    *)
(*                                                                         *)
(* A registry is [alive, table]: the live entities and, per component, a   *)
(* value or Missing for each entity (for a singleton, for Holder).  A      *)
(* value is a function of the component's fields, the empty one for a tag. *)
(* A handle is [index, version].  Texts and values are naturals: a number  *)
(* is counted in units of 1/One, finer than what is told apart here, and a *)
(* string is its length, which is what a field cuts.                       *)
(***************************************************************************)
EXTENDS Naturals, Sequences, FiniteSets

CONSTANTS
    Entity,       \* every handle the program may have alive
    Component,    \* the registered components, DebugName among them
    Info,         \* Info[c].kind and, for each field's name, Info[c].fields[name]
    Holder,       \* the entity that stores the singletons
    Missing,
    Needs,        \* Needs[job]: the components its matching entities have
    One,          \* the units in the number one, a power of two
    Mantissa,     \* significant bits of a double (53): f64, every JSON number
    FloatMantissa,\* significant bits of a float (24): f32
    Largest,      \* the greatest f32 and the greatest f64
    PlainFrom, PlainTo,  \* from 1e-4 up to 1e15 a double is written without exponent
    LongDigits,   \* digits of long long (63), the tool's integer type
    Digits,       \* digits of each integer field type
    StringSize    \* bytes of a string field, the final 0 included

Job == DOMAIN Needs

(* Entity::value compares the version first: it is the high word. *)
ValueAtMost(a, b) == \/ a.version < b.version
                     \/ a.version = b.version /\ a.index <= b.index
----------------------------------------------------------------------------
(* Field values.  Negative ones would add the signs of what is here. *)

FloatType == {"f32", "f64"}

(* The nearest number with so many significant bits, the even one of two:  *)
(* strtod, and the conversion of a double to float.                        *)
Rounded(bits, n) ==
    IF n <= 2 ^ bits THEN n
    ELSE LET k == CHOOSE k \in 1 .. n : /\ 2 ^ (bits + k) > n
                                        /\ 2 ^ (bits + k - 1) <= n
             quotient  == n \div 2 ^ k
             remainder == n % 2 ^ k
         IN IF \/ 2 * remainder < 2 ^ k
               \/ 2 * remainder = 2 ^ k /\ quotient % 2 = 0
            THEN quotient * 2 ^ k ELSE (quotient + 1) * 2 ^ k

Least(a, b) == IF a < b THEN a ELSE b

Plain(n) == n = 0 \/ (PlainFrom <= n /\ n < PlainTo)

(* parse_field_value and the JSON the payload is written as.  strtoll      *)
(* reads the whole part and saturates, strtod rounds; a double is written  *)
(* with all its digits, a small or large one with an exponent, and one     *)
(* beyond the range of doubles as null.                                    *)
Typed(type, text) ==
    CASE type = "bool"   -> [kind |-> "bool", number |-> IF text = 1 THEN 1 ELSE 0]
      [] type = "string" -> [kind |-> "string", number |-> text]
      [] type \in FloatType ->
           LET double == Rounded(Mantissa, text)
           IN [kind |-> CASE double > Largest["f64"] -> "null"
                          [] Plain(double) -> "plain"
                          [] OTHER -> "exponent",
               number |-> double]
      [] OTHER -> [kind |-> "integer", number |-> Least(text \div One, 2 ^ LongDigits - 1)]

(* The digits before the exponent, as many of them as the unit tells.      *)
Significand[n \in Nat] == CASE n < One       -> Significand[10 * n]
                            [] n >= 10 * One -> Significand[n \div 10]
                            [] OTHER         -> n

(* The double JsonParser::parse_number reads: it stops at an exponent, and *)
(* nobody looks at what follows.                                           *)
Parsed(json) ==
    CASE json.kind = "integer" -> Rounded(Mantissa, json.number) * One
      [] json.kind = "plain"   -> json.number
      [] OTHER                 -> Significand[json.number]

(* write_field_value: whether a field takes the JSON value ... *)
FieldFits(type, json) ==
    IF type \in {"bool", "string"} THEN json.kind = type
    ELSE /\ json.kind \in {"integer", "plain", "exponent"}
         /\ IF type \in FloatType THEN Parsed(json) <= Largest[type]
            ELSE Parsed(json) % One = 0 /\ Parsed(json) < 2 ^ Digits[type] * One

(* ... and what it then holds: a string is cut to leave room for its end,  *)
(* a number is converted from the double JsonParser read.                  *)
FieldValue(type, json) ==
    CASE type = "bool"   -> json.number
      [] type = "string" -> Least(json.number, StringSize - 1)
      [] type = "f32"    -> Rounded(FloatMantissa, Parsed(json))
      [] OTHER           -> Parsed(json)
----------------------------------------------------------------------------
(* The names entities are shown under: a base name and an ordinal among    *)
(* those that share it, 0 if nobody else does.                             *)

NoName == [base |-> 0, ordinal |-> 0]

BaseName(reg, e) == LET name == reg.table["DebugName"][e]
                    IN IF name = Missing THEN 0 ELSE name["name"]

Namesakes(reg, e) == {x \in reg.alive : BaseName(reg, x) = BaseName(reg, e)}

Shown(reg, e, before) ==
    CASE BaseName(reg, e) = 0 -> NoName
      [] Cardinality(Namesakes(reg, e)) = 1 ->
           [base |-> BaseName(reg, e), ordinal |-> 0]
      [] OTHER -> [base |-> BaseName(reg, e), ordinal |-> Cardinality(before)]

(* entity_display_names, for the lists: counted in the order of the view. *)
ListName(reg, e) ==
    Shown(reg, e, {x \in Namesakes(reg, e) : x.index <= e.index})

(* debug_name_display_name, for the detail: counted by Entity::value. *)
DetailName(reg, e) ==
    Shown(reg, e, {x \in Namesakes(reg, e) : ValueAtMost(x, e)})
----------------------------------------------------------------------------
(* Answers. *)

Error == [kind |-> "error"]

Has(reg, e, c) == e \in reg.alive /\ reg.table[c][e] # Missing

ComponentsOf(reg, e) ==
    {c \in Component : Info[c].kind # "singleton" /\ Has(reg, e, c)}

Matching(reg, job) == {e \in reg.alive : Needs[job] \subseteq ComponentsOf(reg, e)}

EntitiesAnswer(reg) ==
    [kind |-> "entities", names |-> [e \in reg.alive \ {Holder} |-> ListName(reg, e)]]

SingletonsAnswer(reg) ==
    [kind |-> "singletons",
     components |-> {c \in Component : /\ Info[c].kind = "singleton"
                                       /\ reg.table[c][Holder] # Missing}]

TagsAnswer == [kind |-> "tags", tags |-> {c \in Component : Info[c].kind = "tag"}]

(* append_job: what is listed of a job is how many entities it matches. *)
JobSummary(reg, j) == Cardinality(Matching(reg, j))

JobsAnswer(reg) == [kind |-> "jobs", matches |-> [j \in Job |-> JobSummary(reg, j)]]

(* append_component and append_component_instance: the fields' values. *)
Instance(reg, holder, c) == reg.table[c][holder]

(* entity_response and append_entity_detail *)
EntityAnswer(reg, e) ==
    IF e \notin reg.alive THEN [kind |-> "null"]
    ELSE [kind |-> "entity", id |-> e, name |-> DetailName(reg, e),
          components |-> [c \in ComponentsOf(reg, e) |-> Instance(reg, e, c)],
          matchingJobs |-> {j \in Job : e \in Matching(reg, j)}]

(* job_response and append_job_detail *)
JobAnswer(reg, j) ==
    IF j \notin Job THEN [kind |-> "null"]
    ELSE [kind |-> "job", id |-> j,
          matching |-> [e \in Matching(reg, j) |-> ListName(reg, e)]]
----------------------------------------------------------------------------
(* Mutations.  Each is [reg, answer]. *)

Unchanged(reg, answer) == [reg |-> reg, answer |-> answer]

RemoveComponent(reg, e, c) ==
    IF c \notin Component THEN Unchanged(reg, Error)
    ELSE IF Info[c].kind = "singleton" \/ ~Has(reg, e, c)
    THEN Unchanged(reg, [kind |-> "removed", ok |-> FALSE])
    ELSE [reg |-> [reg EXCEPT !.table[c][e] = Missing],
          answer |-> [kind |-> "removed", ok |-> TRUE]]

(* The fields of a component that is not there yet are all zero. *)
Blank(c) == [f \in DOMAIN Info[c].fields |-> 0]

Written(c, old, values) ==
    [f \in DOMAIN old |-> IF f \in DOMAIN values
                          THEN FieldValue(Info[c].fields[f], values[f]) ELSE old[f]]

Valid(c, values) ==
    /\ DOMAIN values \subseteq DOMAIN Info[c].fields
    /\ \A f \in DOMAIN values : FieldFits(Info[c].fields[f], values[f])

(* set_component_response: the fields are written on a copy of the bytes,  *)
(* which is added when every one was valid.                                *)
SetComponent(reg, e, c, values) ==
    LET holder == IF Info[c].kind = "singleton" THEN Holder ELSE e
        stored == Written(c, IF reg.table[c][holder] = Missing THEN Blank(c)
                             ELSE reg.table[c][holder], values)
        adds   == Info[c].kind = "singleton" \/ e \in reg.alive
    IN IF \/ c \notin Component
          \/ Info[c].kind = "opaque"   \* not trivially copyable, or no field metadata
          \/ ~Valid(c, values) /\ Info[c].kind # "tag"
          \/ ~adds
       THEN Unchanged(reg, Error)
       ELSE LET after == [reg EXCEPT !.table[c][holder] =
                            IF Info[c].kind = "tag" THEN Blank(c) ELSE stored]
            IN [reg |-> after,
                answer |-> [kind |-> "set", value |-> Instance(after, holder, c)]]
----------------------------------------------------------------------------
Operations == <<"schema", "removeComponent", "setComponent", "entity", "job",
                "registeredTags", "serverName", "singletons", "jobs", "entities">>

(* The first of Operations whose word occurs in the query decides. *)
OperationOf(words) ==
    LET hits == {n \in DOMAIN Operations : Operations[n] \in words}
    IN IF hits = {} THEN "unsupported"
       ELSE Operations[CHOOSE n \in hits : \A m \in hits : n <= m]

HandleGraphql(reg, request) ==
    LET op == OperationOf(request.words)
    IN CASE op = "removeComponent" -> RemoveComponent(reg, request.id, request.component)
         [] op = "setComponent" ->
              SetComponent(reg, request.id, request.component, request.values)
         [] op = "entity"         -> Unchanged(reg, EntityAnswer(reg, request.id))
         [] op = "job"            -> Unchanged(reg, JobAnswer(reg, request.id))
         [] op = "registeredTags" -> Unchanged(reg, TagsAnswer)
         [] op = "singletons"     -> Unchanged(reg, SingletonsAnswer(reg))
         [] op = "jobs"           -> Unchanged(reg, JobsAnswer(reg))
         [] op = "entities"       -> Unchanged(reg, EntitiesAnswer(reg))
         [] op \in {"schema", "serverName"} -> Unchanged(reg, [kind |-> "fixed"])
         [] OTHER -> Unchanged(reg, Error)
=============================================================================
