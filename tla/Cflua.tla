------------------------------- MODULE Cflua --------------------------------
(***************************************************************************)
(* wuy_cflua.c: a Lua table is read into a C struct, its container, as the *)
(* commands of a struct wuy_cflua_table say.  A container is made once for *)
(* each Lua table and found again through the Lua registry, in this parse  *)
(* and in later ones.  Members of an array inherit what they leave out     *)
(* from a default container that is read from the table around them.       *)
(*                                                                         *)
(* A parse calls nothing that comes back to it, so it is one step; its     *)
(* recursion is written as operators on the parser's state.  The value     *)
(* types are one, a number with an upper limit.  Left out: the handlers    *)
(* except a post that wants an option to be set, u.next, keys that begin   *)
(* with '_', and arrays with holes.  The programs use a Lua table for one  *)
(* type only (the registry knows no types) and do not change it.           *)
(***************************************************************************)
EXTENDS Integers, Sequences, SequencesExt, FiniteSetsExt

CONSTANTS
  Types,     \* the struct wuy_cflua_table of each type, by name
  Options,   \* the string keys
  Programs,  \* what the Lua tables hold: sequences of [opt, arr]
  RootType,  \* the type wuy_cflua_parse() is called with
  Roots,     \* the Lua tables it is called with
  MaxParses  \* bound on the calls

\* A command; upper is the limit of a number, which is never below 0.
Commands == [name : Options \cup {""}, of : DOMAIN Types \cup {"number"}, upper : Nat,
             default : Nat, single : BOOLEAN, inherit : {0, 1}]

ASSUME CfluaAssumption ==
  /\ RootType \in DOMAIN Types /\ MaxParses \in Nat
  /\ \A t \in DOMAIN Types :
       /\ \A i \in 1 .. Len(Types[t].commands) : Types[t].commands[i] \in Commands
       \* What may be omitted is a pointer.
       /\ Types[t].mayOmit => Types[t].size # 0

\* What a key of a Lua table, or one of its members, stands for.
Nil      == [is |-> "nil", v |-> 0]
Number(n) == [is |-> "number", v |-> n]
Table(k) == [is |-> "table", v |-> k]

\* A place in memory: a member of an object, or of an object's k-th element.
NULL == [obj |-> 0, k |-> 0, at |-> <<>>]
Object(n) == [NULL EXCEPT !.obj = n]
Element(n, k) == [NULL EXCEPT !.obj = n, !.k = k]
Member(a, name) == IF a = NULL THEN NULL ELSE [a EXCEPT !.at = Append(@, name)]

VARIABLES
  lua,       \* the Lua tables of the program
  memory,    \* what has been written into each object, by place; the rest is 0
  registry,  \* the container of each Lua table; 0 for none
  parses,
  stale,     \* history: Lua tables that a failed parse has put into the registry
  good,      \* containers that a caller may inherit from: filled, with none of those
  last       \* specification only: the last parse

cfluaVars == <<lua, memory, registry, parses, stale, good, last>>

-----------------------------------------------------------------------------
(* The parser's state: memory, registry, stack of tables, error.           *)

Key(a) == <<a.k, a.at>>
Get(s, a) ==
  IF a.obj # 0 /\ Key(a) \in DOMAIN s.memory[a.obj] THEN s.memory[a.obj][Key(a)] ELSE 0
Put(s, a, v) == [s EXCEPT !.memory[a.obj] = (Key(a) :> v) @@ @]

\* wuy_cflua_error() jumps out of all calls: nothing is done after it.
Error(s, e) == [s EXCEPT !.error = e]
AndThen(s, Op(_)) == IF s.error = "" THEN Op(s) ELSE s

\* A new object, and the pointer to it.
Blank == [x \in {} |-> 0]
NewObject(s, a) ==
  Put([s EXCEPT !.memory = Append(@, Blank)], a, Len(s.memory) + 1)

\* What a pointer leads to; nothing if there is none.
Deref(s, a) == IF a = NULL \/ Get(s, a) = 0 THEN NULL ELSE Object(Get(s, a))

NewTable == [id |-> 0, opt |-> [n \in Options |-> Nil], arr |-> <<>>]
Load(v) == [id |-> v, opt |-> lua[v].opt, arr |-> lua[v].arr]

\* from is the member that is inherited, or NULL.
RECURSIVE SetTable(_, _, _, _, _)
RECURSIVE SetDefault(_, _, _, _)

\* The value v for command c.  A table whose only array member is a number may
\* be written as the number.
SetTypes(s, c, v, to, from) ==
  CASE c.of = "number" /\ v.is = "number" ->
         IF v.v > c.upper THEN Error(s, "limit") ELSE Put(s, to, v.v)
    [] c.of # "number" /\ v.is = "table" -> SetTable(s, c, Load(v.v), to, from)
    [] /\ c.of # "number" /\ v.is = "number"
       /\ Types[c.of].commands[1].name = "" /\ Types[c.of].commands[1].of = "number" ->
         SetTable(s, c, [NewTable EXCEPT !.arr = <<v>>], to, from)
    [] OTHER -> Error(s, "wrong type")

\* a is the container, f the container that is inherited.
SetOption(s, c, t, a, f) ==
  IF t.opt[c.name] = Nil THEN SetDefault(s, c, a, f)
  ELSE SetTypes(s, c, t.opt[c.name], Member(a, c.name), Member(f, c.name))

ArrayInheritDefault(s, c, t, a, f) ==
  SetTable(s, [c EXCEPT !.inherit = -1], t, Member(a, "default"), Member(f, "default"))

SetArraySingle(s, c, t, a, f) ==
  CASE Len(t.arr) = 0 -> SetDefault(s, c, a, f)
    [] Len(t.arr) = 1 -> SetTypes(s, c, t.arr[1], Member(a, c.name), Member(f, c.name))
    [] OTHER -> Error(s, "multi members")

\* The members of an array that is already there, and their number.
SetMembers(s, c, t, a, from) ==
  LET array == Len(s.memory)
      Set(r, i) == AndThen(r, LAMBDA q : SetTypes(q, c, t.arr[i], Element(array, i), from))
  IN  AndThen(FoldLeftDomain(Set, s, t.arr),
           LAMBDA q : Put(q, Member(a, "length"), Len(t.arr)))

SetArrayMembers(s, c, t, a, f) ==
  LET inherits == c.inherit # 0
      Members(r) ==
        IF t.arr = <<>> THEN SetDefault(r, c, a, f)
        ELSE SetMembers(NewObject(r, Member(a, "")), c, t, a,
                        IF inherits THEN Member(a, "default") ELSE NULL)
  IN  IF c.single THEN SetArraySingle(s, c, t, a, f)
      ELSE AndThen(IF inherits THEN ArrayInheritDefault(s, c, t, a, f) ELSE s, Members)

MayOmit(s, c, f) ==
  Types[c.of].mayOmit /\ (f = NULL \/ Get(s, Member(f, c.name)) = 0)

\* The value is inherited, and how many levels it has come down is counted.
SetDefault(s, c, a, f) ==
  LET to == Member(a, c.name)
      value == IF f = NULL THEN c.default ELSE Get(s, Member(f, c.name))
      count == IF f = NULL THEN -1 ELSE Get(s, Member(Member(f, c.name), "count")) + 1
      counted == Put(s, Member(to, "count"), count)
  IN  CASE (c.name = "" /\ ~c.single) \/ c.of = "number" -> Put(counted, to, value)
        [] OTHER ->
             CASE value # 0 /\ Types[c.of].size # 0 -> Put(counted, to, value)
               [] /\ value = 0 \/ Types[c.of].size = 0
                  /\ c.name # "" /\ ~MayOmit(s, c, f) ->
                    SetTable(counted, c, NewTable, to, Member(f, c.name))
               [] OTHER -> counted

-----------------------------------------------------------------------------
(* wuy_cflua_valid_command(): a key must be an option of the type, or of a *)
(* type whose defaults are read from the same table.                       *)

\* Mutant: only an option of the type.
KnownHere(type, name) ==
  \E i \in 1 .. Len(Types[type].commands) : Types[type].commands[i].name = name

RECURSIVE KnownIn(_, _)
KnownIn(type, name) ==
  \E i \in 1 .. Len(Types[type].commands) :
    LET c == Types[type].commands[i] IN
    IF c.name # "" THEN c.name = name ELSE c.inherit # 0 /\ KnownIn(c.of, name)

Known(type, name) == KnownIn(type, name)

Validate(s, t, type) ==
  CASE /\ t.arr # <<>>
       /\ \A i \in 1 .. Len(Types[type].commands) : Types[type].commands[i].name # "" ->
         Error(s, "no array")
    [] \E n \in Options : t.opt[n] # Nil /\ ~Known(type, n) -> Error(s, "invalid command")
    [] OTHER -> s

\* Mutant: the defaults of the defaults are not read.
CommandShallow(s, c, isInherit, t, a, f) ==
  CASE c.name # "" -> SetOption(s, c, t, a, f)
    [] c.name = "" /\ ~isInherit -> SetArrayMembers(s, c, t, a, f)
    [] OTHER -> s

Command(s, c, isInherit, t, a, f) ==
  CASE c.name # "" -> SetOption(s, c, t, a, f)
    [] c.name = "" /\ ~isInherit -> SetArrayMembers(s, c, t, a, f)
    [] c.name = "" /\ isInherit /\ c.inherit # 0 -> ArrayInheritDefault(s, c, t, a, f)
    [] OTHER -> s

Post(s, a, type) ==
  IF type.wants # "" /\ Get(s, Member(a, type.wants)) = 0 THEN Error(s, "post") ELSE s

\* A new container, found in the registry from now on unless it has defaults.
NewContainer(s, t, to, isInherit) ==
  LET r == NewObject(s, to) IN
  IF isInherit \/ t.id = 0 THEN r ELSE [r EXCEPT !.registry[t.id] = Len(r.memory)]

\* The commands are walked through, and then the table's keys.
Fill(s, t, typeName, isInherit, a, f) ==
  LET type == Types[typeName]
      Walk(r, c) == AndThen(r, LAMBDA q : Command(q, c, isInherit, t, a, f))
      pushed == [s EXCEPT !.stack = Append(@, [table |-> t.id, type |-> typeName, at |-> a])]
      walked == FoldLeft(Walk, pushed, type.commands)
      valid  == AndThen(walked, LAMBDA q : IF isInherit THEN q ELSE Validate(q, t, typeName))
  IN  AndThen(AndThen(valid, LAMBDA q : Post(q, a, type)),
           LAMBDA q : [q EXCEPT !.stack = Front(@)])

SetTable(s, c, t, to, from) ==
  LET isInherit == c.inherit = -1
      hit == IF isInherit \/ t.id = 0 THEN 0 ELSE s.registry[t.id]
  IN  CASE Types[c.of].size = 0 -> Fill(s, t, c.of, isInherit, to, from)
        [] Types[c.of].size # 0 /\ hit # 0 -> Put(s, to, hit)
        [] OTHER -> Fill(NewContainer(s, t, to, isInherit), t, c.of, isInherit,
                         Object(Len(s.memory) + 1), Deref(s, from))

-----------------------------------------------------------------------------
\* The Lua tables that can be reached from the tables of T.
RECURSIVE Reach(_)
Reach(T) ==
  LET values == UNION {Range(lua[t].arr) \cup {lua[t].opt[n] : n \in Options} : t \in T}
      more == T \cup {x.v : x \in {y \in values : y.is = "table"}}
  IN  IF more = T THEN T ELSE Reach(more)

CfluaInit ==
  /\ lua \in Programs
  /\ memory = <<>> /\ parses = 0
  /\ registry = [t \in DOMAIN lua |-> 0]
  /\ good = {NULL} /\ stale = {}
  /\ last = [root |-> 0, at |-> NULL, from |-> NULL, before |-> registry,
             error |-> "", stack |-> <<>>, clean |-> FALSE]

\* wuy_cflua_parse_opts() with a container of the caller's, which may inherit
\* from one that an earlier call has filled.  With a pool of its own, a parse that
\* fails frees its containers, which the registry still knows.
Parse(root, from) ==
  LET at == Object(Len(memory) + 1)
      c  == [name |-> "", of |-> RootType, upper |-> 0, default |-> 0, single |-> FALSE,
             inherit |-> 0]
      start == [memory |-> Append(memory, Blank), registry |-> registry,
                stack |-> <<>>, error |-> ""]
      clean == Reach({root}) \cap stale = {}
  IN  /\ parses < MaxParses /\ parses' = parses + 1
      /\ UNCHANGED lua
      /\ \E s \in {SetTable(start, c, Load(root), at, from)} :
           /\ memory' = s.memory /\ registry' = s.registry
           /\ good' = IF clean /\ s.error = "" THEN good \cup {at} ELSE good
           /\ stale' = IF s.error = "" THEN stale
                       ELSE stale \cup {t \in DOMAIN lua : s.registry[t] # registry[t]}
           /\ last' = [root |-> root, at |-> at, from |-> from, before |-> registry,
                       error |-> s.error, stack |-> s.stack, clean |-> clean]

CfluaNext == \E root \in Roots, from \in good : Parse(root, from)

CfluaSpec == CfluaInit /\ [][CfluaNext]_cfluaVars
-----------------------------------------------------------------------------
(* What the last parse should have come to, told from the Lua tables.      *)

Now == [memory |-> memory]
New(t) == last.before[t] = 0
TablesIn(values) == {x.v : x \in {y \in values : y.is = "table"}}
CommandsOf(type) == Range(Types[type].commands)
Inheriting(type) == {c \in CommandsOf(type) : c.inherit # 0}

\* Where a table is found through arrays: it, and those around it, outermost first.
RECURSIVE PlacesWithin(_)
PlacesWithin(p) ==
  {p} \cup UNION {PlacesWithin([tables |-> Append(p.tables, t), of |-> c.of]) :
                    c \in Inheriting(p.of), t \in TablesIn(Range(lua[Last(p.tables)].arr))}
Places == PlacesWithin([tables |-> <<last.root>>, of |-> RootType])

ContainerOf(t) == IF t = last.root THEN last.at ELSE Object(registry[t])

\* The options that end up in the container itself, and where.
InPlace(c) == c.of # "number" /\ Types[c.of].size = 0
Values(type) == {c \in CommandsOf(type) : c.name # "" /\ (c.of = "number" \/ InPlace(c))}
Spot(a, c) == IF InPlace(c) THEN Member(Member(a, c.name), "") ELSE Member(a, c.name)
Given(t, c) ==
  LET x == lua[t].opt[c.name] IN
  CASE x.is = "number" -> {x.v}
    [] x.is = "table"  -> {y.v : y \in Range(lua[x.v].arr)}
    [] OTHER -> {}

RECURSIVE DefaultsOf(_, _)
DefaultsOf(f, depth) ==
  IF depth = 0 THEN f ELSE DefaultsOf(Deref(Now, Member(f, "default")), depth - 1)

\* The innermost table that gives a value does, and is so many levels away.  When
\* there is none, the value is the inherited container's, or the default.
ValueAsWritten(p, c, a) ==
  LET n == Len(p.tables)
      giving == {j \in 1 .. n : Given(p.tables[j], c) # {}}
      value == Get(Now, Spot(a, c))
  IN  IF giving # {}
      THEN /\ value \in Given(p.tables[Max(giving)], c)
           /\ Get(Now, Member(Spot(a, c), "count")) = n - Max(giving)
      ELSE value = IF last.from # NULL THEN Get(Now, Spot(DefaultsOf(last.from, n - 1), c))
                   ELSE IF InPlace(c) THEN Types[c.of].commands[1].default ELSE c.default

ArrayAsWritten(t, a) ==
  LET array == Get(Now, Member(a, ""))
      arr == lua[t].arr
  IN  IF arr = <<>> THEN last.from = NULL => array = 0
      ELSE /\ Get(Now, Member(a, "length")) = Len(arr)
           /\ \A i \in 1 .. Len(arr) : Get(Now, Element(array, i)) = registry[arr[i].v]
           /\ Get(Now, Element(array, Len(arr) + 1)) = 0

\* Tables that options lead to: each has one container, also when they lead around.
OptionsAsWritten(t, a, type) ==
  \A c \in CommandsOf(type) : c.name # "" /\ ~InPlace(c) =>
    LET x == lua[t].opt[c.name]
        v == Get(Now, Member(a, c.name))
    IN  CASE x.is = "table"  -> v = registry[x.v] /\ v # 0
          [] x.is = "number" -> v = x.v
          [] OTHER -> TRUE

\* The roles tables have: each with the type it is read as, to the first that is
\* in the registry already.
NamedBy(type) == {c \in CommandsOf(type) : c.name # ""}
RECURSIVE NamedIn(_)
NamedIn(type) == NamedBy(type) \cup UNION {NamedIn(c.of) : c \in Inheriting(type)}

RolesIn(r) ==
  IF r.table # last.root /\ ~New(r.table) THEN {}
  ELSE {[table |-> t, of |-> c.of] :
          c \in Inheriting(r.of), t \in TablesIn(Range(lua[r.table].arr))}
       \cup UNION {{[table |-> t, of |-> c.of] : t \in TablesIn({lua[r.table].opt[c.name]})} :
                     c \in {d \in NamedIn(r.of) : d.of # "number" /\ ~InPlace(d)}}
RECURSIVE RolesFrom(_)
RolesFrom(R) ==
  LET more == R \cup UNION {RolesIn(r) : r \in R} IN IF more = R THEN R ELSE RolesFrom(more)
Roles == RolesFrom({[table |-> last.root, of |-> RootType]})

\* What parsing r must stumble on.  wanting: a wanted option that is left out counts.
RECURSIVE Refused(_, _)
Refused(c, v) ==
  CASE c.of = "number" -> v.is # "number" \/ v.v > c.upper
    [] InPlace(c) /\ v.is = "table" ->
         Len(lua[v.v].arr) > 1 \/ \E y \in Range(lua[v.v].arr) : Refused(Types[c.of].commands[1], y)
    [] InPlace(c) /\ v.is = "number" -> v.v > Types[c.of].commands[1].upper
    [] OTHER -> v.is # "table"

Wrong(r, wanting) ==
  LET t == lua[r.table] IN
  \/ \E n \in Options : t.opt[n] # Nil /\
       LET named == {c \in NamedIn(r.of) : c.name = n} IN
       named = {} \/ \E c \in named : Refused(c, t.opt[n])
  \/ t.arr # <<>> /\ Inheriting(r.of) = {}
  \/ \E c \in Inheriting(r.of), y \in Range(t.arr) : Refused(c, y)
  \/ wanting /\ Types[r.of].wants # "" /\ t.opt[Types[r.of].wants] = Nil

NewRoles == {r \in Roles : r.table = last.root \/ New(r.table)}

-----------------------------------------------------------------------------
\* A parse that succeeds, and meets no table of a failed one, has read what is
\* written: each value from the innermost table around its container that gives it,
\* at whatever depth and in whatever order the defaults were read; and one container
\* for each Lua table, the earlier one for a table of an earlier parse.
ParsedAsWritten ==
  last.clean /\ last.error = "" =>
    /\ \A p \in Places :
         LET t == Last(p.tables)
             a == ContainerOf(t)
         IN  /\ t = last.root \/ registry[t] # 0
             /\ t = last.root \/ New(t) =>
                  /\ ArrayAsWritten(t, a)
                  /\ \E q \in Places : q.of = p.of /\ Last(q.tables) = t
                                       /\ \A c \in Values(p.of) : ValueAsWritten(q, c, a)
    /\ \A r \in NewRoles : (\A p \in Places : Last(p.tables) # r.table) \/ r.table = last.root =>
         OptionsAsWritten(r.table, ContainerOf(r.table), r.of)
    /\ \A t \in DOMAIN lua : ~New(t) => registry[t] = last.before[t]

\* A parse fails when and only when a table that it reads is wrong, whether the wrong
\* value is used or inherited by nobody; and the stack of tables that
\* wuy_cflua_strerror() goes along leads to one that is.
RefusedAsWritten ==
  last.root # 0 =>
    /\ last.error = "" => \A r \in NewRoles : ~Wrong(r, last.from = NULL)
    /\ last.error # "" =>
         LET named == SelectSeq(last.stack, LAMBDA e : \E r \in NewRoles : r.table = e.table)
         IN  /\ named # <<>> /\ named[1].at = last.at
             /\ \E r \in NewRoles : r.table = Last(named).table /\ Wrong(r, TRUE)
             /\ \A i \in 2 .. Len(named) :
                  \/ named[i].table = named[i - 1].table
                  \/ named[i].table \in Reach({named[i - 1].table})
=============================================================================
