------------------------------- MODULE Schema -------------------------------
(***************************************************************************)
(* Data models, descriptions and queries of the earlier core library       *)
(* (schema.hpp, schema.cpp).  An agent describes itself by an instance of  *)
(* a data model and asks for others by constraints on attributes combined  *)
(* with !, && and ||; valid() looks at types, check() decides what a query *)
(* matches.  Everything travels as protocol buffer messages, which need    *)
(* not have been made by these classes and hold integers of 64 bits.       *)
(*                                                                         *)
(* Values are integers: doubles and strings are numbered in their order, 0 *)
(* is 0.0, "" and false, and the location with longitude x and latitude y  *)
(* is Side * y + x.  So 0 is what a protocol buffer field that is not set  *)
(* reads as, for each type.                                                *)
(***************************************************************************)
EXTENDS Integers, Sequences, FiniteSets

CONSTANTS
    Scopes,      \* the inputs, see below
    IntValues,   \* integers in messages
    Half,        \* an int is in -Half .. Half - 1 (2^31)
    Scalars,     \* doubles and strings, in their order
    Side,        \* longitudes and latitudes are in 0 .. Side - 1
    Dist         \* Location::distance, a function of two locations

Types == {"DOUBLE", "INT", "BOOL", "STRING", "LOCATION"}

ASSUME SchemaAssumption ==
    /\ IntValues \subseteq Int /\ Half \in Nat \ {0}
    /\ 0 \in Scalars /\ Scalars \subseteq Nat /\ Side \in Nat \ {0}
    /\ LET P == 0 .. Side * Side - 1 IN Dist \in [P \X P -> Nat]

VARIABLES
    scope,    \* the scope of this behaviour
    model,    \* DataModel: the sequence of its attributes
    sent,     \* the message of an instance: its data model is this one, its values
    made,     \* how the message came about: not at all, by the classes, refused, by others
    query,    \* the constraints of a QueryModel that carries this data model (valid()
              \* looks at nothing in one that carries none)
    ops       \* steps taken to make the query

vars == <<scope, model, sent, made, query, ops>>

ValuesOf(t) ==
    CASE t = "INT" -> IntValues
      [] t = "BOOL" -> {0, 1}
      [] t = "LOCATION" -> 0 .. Side * Side - 1
      [] OTHER -> Scalars

Value == UNION {[type : {t}, v : ValuesOf(t)] : t \in Types}

\* A scope has sequences of attributes to make models of, maps from names to values,
\* leaves <<name, constraint>> to make queries of, and a bound on the steps of that.
Values == Scopes[scope].values
Leaves == Scopes[scope].leaves
MaxOps == Scopes[scope].maxOps

Lon(p) == p % Side
Lat(p) == p \div Side

-----------------------------------------------------------------------------
(* Data models and instances. *)

\* The constructor of DataModel refuses a name that occurs twice.
DataModelAccepts(attrs) ==
    \A i, j \in DOMAIN attrs : attrs[i].name = attrs[j].name => i = j

Find(n) == {i \in DOMAIN model : model[i].name = n}

Required == {i \in DOMAIN model : model[i].required}

\* Variant: required attributes are counted, not looked up.
InstanceAccepts_Count(values) ==
    /\ Cardinality(DOMAIN values) <= Len(model)
    /\ Cardinality(DOMAIN values) >= Cardinality(Required)
    /\ \A n \in DOMAIN values : \E i \in Find(n) : values[n].type = model[i].type

\* The constructor of Instance: two counts, then each value is looked up, and
\* each one of a required attribute is counted down.
InstanceAccepts(values) ==
    /\ Cardinality(DOMAIN values) <= Len(model)
    /\ Cardinality(DOMAIN values) >= Cardinality(Required)
    /\ \A n \in DOMAIN values : \E i \in Find(n) : values[n].type = model[i].type
    /\ Cardinality(Required)
         - Cardinality({n \in DOMAIN values : Find(n) \cap Required # {}}) = 0

\* Attribute::instantiate: throws for a missing or wrongly typed value.
Instantiates(values, a) ==
    IF a.name \in DOMAIN values THEN values[a.name].type = a.type ELSE ~a.required

\* int(v.value().i())
Narrowed(i) == ((i + Half) % (2 * Half)) - Half

FitsInt(i) == i \in -Half .. Half - 1

NarrowedValue(x) == IF x.type = "INT" THEN [x EXCEPT !.v = Narrowed(@)] ELSE x

\* Instance(const Query_Instance &): takes the values as they come.
Parsed(values) == [n \in DOMAIN values |-> NarrowedValue(values[n])]

-----------------------------------------------------------------------------
(* Constraints.  The type of a constraint is the oneof case of its message; *)
(* a field of another case reads as 0.  A distance comes in a message only: *)
(* the constructor of Constraint copies a Distance into the field of a set, *)
(* which the protocol buffer library refuses by ending the process.         *)

Constraint ==
    [form : {"relation", "set", "range", "distance"}, op : STRING,
     type : Types, first : Int, second : Int, vals : SUBSET Int]

Relation(op, t, v) ==
    [form |-> "relation", op |-> op, type |-> t, first |-> v, second |-> 0, vals |-> {}]
Set(op, t, vs) ==
    [form |-> "set", op |-> op, type |-> t, first |-> 0, second |-> 0, vals |-> vs]
Range(t, a, b) ==
    [form |-> "range", op |-> "", type |-> t, first |-> a, second |-> b, vals |-> {}]
Distance(p, d) ==
    [form |-> "distance", op |-> "", type |-> "LOCATION", first |-> p, second |-> d, vals |-> {}]

Relation_valid(c, t) ==
    c.type = t /\ (t \in {"LOCATION", "BOOL"} => c.op \in {"EQ", "NOTEQ"})
Set_valid(c, t) == c.type = t
Range_valid(c, t) == t # "BOOL" /\ c.type = t
Distance_valid(c, t) == t = "LOCATION"

Constraint_valid(n, c) ==
    \E i \in Find(n) :
        CASE c.form = "relation" -> Relation_valid(c, model[i].type)
          [] c.form = "set" -> Set_valid(c, model[i].type)
          [] c.form = "range" -> Range_valid(c, model[i].type)
          [] c.form = "distance" -> Distance_valid(c, model[i].type)

Field(c, t, x) == IF c.type = t THEN x ELSE 0

\* operator< of Location compares latitudes.
Less(t, a, b) == IF t = "LOCATION" THEN Lat(a) < Lat(b) ELSE a < b
LessEq(t, a, b) == IF t = "LOCATION" THEN Lat(a) <= Lat(b) ELSE a <= b

\* Relation::get<T> and check_value; get<int> narrows.
Relation_check(c, x) ==
    LET f == Field(c, x.type, c.first)
        s == IF x.type = "INT" THEN Narrowed(f) ELSE f
    IN  CASE c.op = "EQ" -> s = x.v
          [] c.op = "NOTEQ" -> s # x.v
          [] c.op = "LT" -> Less(x.type, x.v, s)
          [] c.op = "LTEQ" -> LessEq(x.type, x.v, s)
          [] c.op = "GT" -> Less(x.type, s, x.v)
          [] c.op = "GTEQ" -> LessEq(x.type, s, x.v)

\* Set::check compares the values with the 64 bits of the message.
Set_check(c, x) ==
    LET found == c.type = x.type /\ x.v \in c.vals
    IN  IF c.op = "NOTIN" THEN ~found ELSE found

Distance_check(c, x) ==
    x.type = "LOCATION" /\ Dist[c.first, x.v] <= c.second

Between(a, x, b) == a <= x /\ x <= b
min_max(a, b) == IF a < b THEN <<a, b>> ELSE <<b, a>>

\* Range::check: the corners of a rectangle come in any order.
Range_check(c, x) ==
    LET a == Field(c, x.type, c.first)
        b == Field(c, x.type, c.second)
        lats == min_max(Lat(a), Lat(b))
        lons == min_max(Lon(a), Lon(b))
    IN  CASE x.type = "BOOL" -> FALSE
          [] x.type = "LOCATION" -> /\ Between(lats[1], Lat(x.v), lats[2])
                                    /\ Between(lons[1], Lon(x.v), lons[2])
          [] OTHER -> Between(a, x.v, b)

Constraint_check(c, x) ==
    CASE c.form = "relation" -> Relation_check(c, x)
      [] c.form = "set" -> Set_check(c, x)
      [] c.form = "range" -> Range_check(c, x)
      [] c.form = "distance" -> Distance_check(c, x)

-----------------------------------------------------------------------------
(* Expressions and queries. *)

Node(kind, args) ==
    [kind |-> kind, args |-> args, name |-> "", c |-> Range("INT", 0, 0)]
Leaf(n, c) == [kind |-> "constraint", args |-> <<>>, name |-> n, c |-> c]

RECURSIVE ConstraintExpr_valid(_)
ConstraintExpr_valid(e) ==
    CASE e.kind = "constraint" -> Constraint_valid(e.name, e.c)
      [] e.kind = "not" -> ConstraintExpr_valid(e.args[1])
      [] e.kind \in {"and", "or"} -> /\ \A i \in DOMAIN e.args : ConstraintExpr_valid(e.args[i])
                                     /\ Len(e.args) > 1
      [] e.kind = "unset" -> FALSE

\* An attribute without a value satisfies no constraint.
Present(n, values) == n \in DOMAIN values

RECURSIVE ConstraintExpr_check(_, _)
ConstraintExpr_check(e, values) ==
    CASE e.kind = "constraint" -> Present(e.name, values) /\ Constraint_check(e.c, values[e.name])
      [] e.kind = "not" -> ~ConstraintExpr_check(e.args[1], values)
      [] e.kind = "and" -> \A i \in DOMAIN e.args : ConstraintExpr_check(e.args[i], values)
      [] e.kind = "or" -> \E i \in DOMAIN e.args : ConstraintExpr_check(e.args[i], values)
      [] e.kind = "unset" -> FALSE

QueryModel_valid ==
    query # <<>> /\ \A i \in DOMAIN query : ConstraintExpr_valid(query[i])

QueryModel_check(instance) ==
    /\ instance.mine
    /\ \A i \in DOMAIN query : ConstraintExpr_check(query[i], Parsed(instance.values))

-----------------------------------------------------------------------------
NoValues == [n \in {} |-> 0]

Init ==
    /\ scope \in DOMAIN Scopes
    /\ model \in {m \in Scopes[scope].models : DataModelAccepts(m)}
    /\ sent = [mine |-> TRUE, values |-> NoValues]
    /\ made = "not"
    /\ query = <<>>
    /\ ops = 0

\* Instance(model, values) with a map from names to VariantType.
MakeInstance(values) ==
    /\ made = "not"
    /\ \A n \in DOMAIN values : values[n].type = "INT" => FitsInt(values[n].v)
    /\ made' = IF InstanceAccepts(values) THEN "accepted" ELSE "refused"
    /\ sent' = [mine |-> TRUE, values |-> values]
    /\ UNCHANGED <<scope, model, query, ops>>

\* A message that other software made, of this data model or of another one.
ReceiveInstance(mine, values) ==
    /\ made = "not"
    /\ made' = "elsewhere"
    /\ sent' = [mine |-> mine, values |-> values]
    /\ UNCHANGED <<scope, model, query, ops>>

Becomes(q) ==
    /\ ops < MaxOps
    /\ ops' = ops + 1
    /\ query' = q
    /\ UNCHANGED <<scope, model, sent, made>>

Last == query[Len(query)]
Front == SubSeq(query, 1, Len(query) - 1)

AddConstraint == \E l \in Leaves : Becomes(Append(query, Leaf(l[1], l[2])))

\* A message whose expression is not set.
AddUnset == Becomes(Append(query, Node("unset", <<>>)))

\* operator!
Negate == query # <<>> /\ Becomes(Append(Front, Node("not", <<Last>>)))

\* operator&& and operator|| of the last two
Combine(kind) ==
    /\ Len(query) >= 2
    /\ Becomes(Append(SubSeq(query, 1, Len(query) - 2),
                      Node(kind, SubSeq(query, Len(query) - 1, Len(query)))))

Next ==
    \/ \E values \in Values : MakeInstance(values)
    \/ \E values \in Values, mine \in BOOLEAN : ReceiveInstance(mine, values)
    \/ AddConstraint
    \/ AddUnset
    \/ Negate
    \/ Combine("and")
    \/ Combine("or")

Spec == Init /\ [][Next]_vars

-----------------------------------------------------------------------------
(* What queries and instances mean, without the dispatch on types. *)

WellFormed(values) ==
    /\ \A n \in DOMAIN values :
           \E i \in DOMAIN model : model[i].name = n /\ model[i].type = values[n].type
    /\ {model[i].name : i \in Required} \subseteq DOMAIN values

\* The values of its type that a constraint is for.
Region(c) ==
    LET V == ValuesOf(c.type)
    IN  CASE c.op = "EQ" -> {c.first}
          [] c.op = "NOTEQ" -> V \ {c.first}
          [] c.op = "LT" -> {x \in V : x < c.first}
          [] c.op = "LTEQ" -> {x \in V : x <= c.first}
          [] c.op = "GT" -> {x \in V : x > c.first}
          [] c.op = "GTEQ" -> {x \in V : x >= c.first}
          [] c.op = "IN" -> c.vals
          [] c.op = "NOTIN" -> V \ c.vals
          [] c.form = "distance" -> {x \in V : Dist[c.first, x] <= c.second}
          [] c.form = "range" /\ c.type # "LOCATION" -> V \cap (c.first .. c.second)
          [] c.form = "range" /\ c.type = "LOCATION" ->
                {x \in V : \A Axis \in {[p \in V |-> Lat(p)], [p \in V |-> Lon(p)]} :
                      \/ Axis[x] \in Axis[c.first] .. Axis[c.second]
                      \/ Axis[x] \in Axis[c.second] .. Axis[c.first]}

RECURSIVE Means(_, _)
Means(e, values) ==
    CASE e.kind = "constraint" -> e.name \in DOMAIN values /\ values[e.name].v \in Region(e.c)
      [] e.kind = "not" -> ~Means(e.args[1], values)
      [] e.kind = "and" -> Means(e.args[1], values) /\ Means(e.args[2], values)
      [] e.kind = "or" -> Means(e.args[1], values) \/ Means(e.args[2], values)

\* The values of the variables; a model has no name twice, so that a look-up
\* by name finds one attribute.
TypeOK ==
    /\ model \in Scopes[scope].models /\ Cardinality({model[i].name : i \in DOMAIN model}) = Len(model)
    /\ sent.values \in Values
    /\ made \in {"not", "accepted", "refused", "elsewhere"}
    /\ ops \in 0 .. MaxOps
    /\ Len(query) <= ops

\* The constructor of Instance, which counts values and required attributes,
\* accepts exactly the maps that fit the model; what it accepts can be
\* instantiated, and reads back from its message as it was.
AcceptedIsWhole ==
    /\ made = "accepted" => /\ WellFormed(sent.values)
                            /\ \A i \in DOMAIN model : Instantiates(sent.values, model[i])
                            /\ Parsed(sent.values) = sent.values
    /\ made = "refused" => ~WellFormed(sent.values)

IntegersFit(values) == \A n \in DOMAIN values : values[n].type = "INT" => FitsInt(values[n].v)

\* The integers of relations, which get<int> narrows; sets and ranges keep 64 bits.
RECURSIVE RelationsFit(_)
RelationsFit(e) ==
    CASE e.kind = "constraint" -> e.c.form = "relation" /\ e.c.type = "INT" => FitsInt(e.c.first)
      [] OTHER -> \A i \in DOMAIN e.args : RelationsFit(e.args[i])

MeaningKept ==
    QueryModel_check(sent) <=> sent.mine /\ \A i \in DOMAIN query : Means(query[i], sent.values)

\* A query that valid() accepts is decided by check() as its constraints say, for
\* every instance that fits the model, if the integers of the instance and of the
\* query's relations fit an int; sets and ranges may have any: valid() keeps check()
\* from reading fields that are not set and from comparing what has no order.
CheckIsMeaning ==
    /\ QueryModel_valid
    /\ sent.mine => WellFormed(sent.values) /\ IntegersFit(sent.values)
    /\ \A i \in DOMAIN query : RelationsFit(query[i])
    => MeaningKept

\* Types, instances that fit their model, and queries that mean what they say.
SchemaInv == TypeOK /\ AcceptedIsWhole /\ CheckIsMeaning

-----------------------------------------------------------------------------
(* What one would expect from the code's own words, and what it does not do *)
(* (the README, Known deviations).                                          *)

\* A message's integers are compared as they are, however large ("int(v.value().i())").
LargeIntegersKept ==
    QueryModel_valid /\ (sent.mine => WellFormed(sent.values)) => MeaningKept
=============================================================================
