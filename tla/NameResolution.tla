--------------------------- MODULE NameResolution ---------------------------
(***************************************************************************)
(* Name resolution: the names of a session's statements, of which parts    *)
(* may be missing, are turned into objects of the catalog                  *)
(* (pkg/sql/sem/tree/name_resolution.go), by the session's current         *)
(* database and its search path (pkg/sql/sessiondata/search_path.go).  A   *)
(* resolved name is completed in place: later it is printed in full, and   *)
(* columns are looked for under it, when the session may have another      *)
(* database, another path or, since then, a temporary schema.              *)
(*                                                                         *)
(* The catalog, and how the sources of a FROM clause are matched, belong   *)
(* to the callers: LookupObject, LookupSchema and FindSourceMatchingName   *)
(* are external, and any of their lookups may fail.                        *)
(***************************************************************************)
EXTENDS Integers, Sequences, FiniteSets

CONSTANTS
  Databases,     \* "" is the current database of a session that has none
  UserSchemas,   \* the schemas that are created
  Written,       \* names as they are written, their parts in reverse order
  SearchPaths,   \* the paths a session may set
  FunDefs,       \* the names of the functions, as <<prefix, function>>
  MaxObjects,    \* how many objects are created, those of pg_catalog apart
  MaxFrom        \* and how many names are resolved

\* Names have up to three parts; no schema that is created, and none that a path
\* lists, is called like what is reserved for temporary schemas of sessions, but for
\* the alias and this session's own.
NamesAssumption ==
  /\ \A parts \in Written : Len(parts) \in 1 .. 3
  /\ UserSchemas \cap {"", "pg_temp", "pg_temp_1", "pg_temp_2"} = {}
  /\ \A paths \in SearchPaths :
       /\ paths \in Seq({paths[i] : i \in DOMAIN paths})
       /\ \A i \in DOMAIN paths : paths[i] # "pg_temp_2"

VARIABLES
  connected,     \* whether the session has begun
  curDb,
  path,          \* the session's SearchPath
  schemas,       \* the catalog: <<database, schema>>
  objects,       \* and <<database, schema, object>>
  from           \* the names resolved: the sources of a FROM clause

vars == <<connected, curDb, path, schemas, objects, from>>

PgCatalogName    == "pg_catalog"
PgTempSchemaName == "pg_temp"
PublicSchema     == "public"
OurTemp          == "pg_temp_1"
OthersTemp       == "pg_temp_2"
Virtual          == {<<d, PgCatalogName>> : d \in Databases \cup {""}}
-----------------------------------------------------------------------------
\* The search path.
MakeSearchPath(paths) ==
  [paths                |-> paths,
   containsPgCatalog    |-> \E i \in DOMAIN paths : paths[i] = PgCatalogName,
   containsPgTempSchema |-> \E i \in DOMAIN paths : paths[i] = PgTempSchemaName,
   tempSchemaName       |-> ""]

WithTemporarySchemaName(s, name) == [s EXCEPT !.tempSchemaName = name]

UpdatePaths(s, paths) == WithTemporarySchemaName(MakeSearchPath(paths), s.tempSchemaName)

\* The schemas that start with pg_temp.
Temporary == {PgTempSchemaName, OurTemp, OthersTemp}

ForeignTemp(s, name) == name \in Temporary \ {PgTempSchemaName, s.tempSchemaName}

\* The name where it is not refused.
MaybeResolveTemporarySchema(s, name) ==
  IF name = PgTempSchemaName /\ s.tempSchemaName # "" THEN s.tempSchemaName ELSE name

Iterator(s, pgCatalog, pgTempSchema) ==
  [paths |-> s.paths, implicitPgCatalog |-> pgCatalog, implicitPgTempSchema |-> pgTempSchema,
   tempSchemaName |-> s.tempSchemaName, i |-> 0]

\* Mutant: the temporary schema is searched first even if the path names it.
IterTempFirst(s) == Iterator(s, ~s.containsPgCatalog, s.tempSchemaName # "")

Iter(s) == Iterator(s, ~s.containsPgCatalog, ~s.containsPgTempSchema /\ s.tempSchemaName # "")

IterWithoutImplicitPGSchemas(s) == Iterator(s, FALSE, FALSE)

\* A step of the iterator: whether there is a next schema, which, and the iterator
\* after it.  The alias is skipped while there is no temporary schema.
Step(ok, schema, iter) == [ok |-> ok, schema |-> schema, iter |-> iter]
Least(S) == CHOOSE n \in S : \A m \in S : n <= m

NextOf(it) ==
  LET ahead == {j \in it.i + 1 .. Len(it.paths) : it.tempSchemaName # "" \/ it.paths[j] # PgTempSchemaName}
      j     == Least(ahead)
  IN  IF it.implicitPgTempSchema /\ it.tempSchemaName # ""
      THEN Step(TRUE, it.tempSchemaName, [it EXCEPT !.implicitPgTempSchema = FALSE])
      ELSE IF it.implicitPgCatalog
      THEN Step(TRUE, PgCatalogName, [it EXCEPT !.implicitPgCatalog = FALSE])
      ELSE IF ahead = {} THEN Step(FALSE, "", [it EXCEPT !.i = Len(it.paths)])
      ELSE Step(TRUE, IF it.paths[j] = PgTempSchemaName THEN it.tempSchemaName ELSE it.paths[j],
                [it EXCEPT !.i = j])

\* The steps until the iterator is at its end.
Steps(it) ==
  LET S[n \in 0 .. Len(it.paths) + 2] == IF n = 0 THEN NextOf(it) ELSE NextOf(S[n - 1].iter)
  IN  S
-----------------------------------------------------------------------------
\* Names.
newUnresolvedObjectNameFails(parts) ==
  \E i \in 1 .. (IF Len(parts) < 2 THEN Len(parts) ELSE 2) : parts[i] = ""

Part(parts, i) == IF i <= Len(parts) THEN parts[i] ELSE ""

ToTableName(parts) ==
  [table |-> parts[1], schema |-> Part(parts, 2), catalog |-> Part(parts, 3),
   explicitSchema |-> Len(parts) >= 2, explicitCatalog |-> Len(parts) >= 3]

\* The name printed in full.
FQString(t) == <<t.table, t.schema, t.catalog>>

\* Mutant: the name stays without a database.
InNoDatabase(t, db) == t

InDatabase(t, db)     == [t EXCEPT !.catalog = db]
InSchema(t, db, name) == [t EXCEPT !.catalog = db, !.schema = name]
InPublic(t) == [t EXCEPT !.catalog = t.schema, !.schema = PublicSchema, !.explicitCatalog = TRUE]

\* What a resolution came to: what was found, <<>> for nothing, and the name.
Outcome(kind, found, t) == [kind |-> kind, found |-> found, name |-> t]
Failed(t) == Outcome("error", <<>>, t)

\* A lookup in a set of the catalog, which fails in the schema broken.
Lookup(where, known, broken, t, then) ==
  IF <<where[1], where[2]>> = broken THEN Failed(t)
  ELSE IF where \in known THEN Outcome("found", where, then)
  ELSE Outcome("nothing", <<>>, t)

\* The first schema of the iterator that has it.
SearchFor(it, suffix, known, broken, t) ==
  LET steps    == Steps(it)
      Found(n) == Lookup(<<curDb, steps[n].schema>> \o suffix, known, broken, t,
                         InSchema(t, curDb, steps[n].schema))
      last     == Least({n \in DOMAIN steps : ~steps[n].ok \/ Found(n).kind # "nothing"})
  IN  IF steps[last].ok THEN Found(last) ELSE Outcome("nothing", <<>>, t)

\* A name with an explicit schema: in the current database or, as db.public.t, in
\* the one the schema names.
Explicit(t, suffix, known, broken) ==
  LET scName == MaybeResolveTemporarySchema(path, t.schema)
      here   == Lookup(<<curDb, scName>> \o suffix, known, broken, t, InDatabase(t, curDb))
  IN  IF ForeignTemp(path, t.schema) THEN Failed(t)
      ELSE IF t.explicitCatalog THEN Lookup(<<t.catalog, scName>> \o suffix, known, broken, t, t)
      ELSE IF here.kind # "nothing" THEN here
      ELSE Lookup(<<t.schema, PublicSchema>> \o suffix, known, broken, t, InPublic(t))

ResolveExisting(t, known, broken) ==
  IF t.explicitSchema THEN Explicit(t, <<t.table>>, known, broken)
  ELSE SearchFor(Iter(path), <<t.table>>, known, broken, t)

\* Mutant: objects are made where names are looked for.
TargetImplicit(t, broken) ==
  IF t.explicitSchema THEN Explicit(t, <<>>, schemas, broken)
  ELSE SearchFor([Iter(path) EXCEPT !.implicitPgTempSchema = FALSE], <<>>, schemas, broken, t)

ResolveTarget(t, broken) ==
  IF t.explicitSchema THEN Explicit(t, <<>>, schemas, broken)
  ELSE SearchFor(IterWithoutImplicitPGSchemas(path), <<>>, schemas, broken, t)
-----------------------------------------------------------------------------
\* A source of the FROM clause that a prefix names (the callers' matching).
Matches(source, p) ==
  /\ source.name.table = p.table
  /\ p.explicitSchema => source.name.schema = p.schema
  /\ p.explicitCatalog => source.name.catalog = p.catalog

FindSourceMatchingName(p) == {i \in DOMAIN from : Matches(from[i], p)}

\* The sources that the prefix of a column, or of a star, may mean: one, none, or
\* an error for several.
ResolvePrefix(parts) ==
  LET p     == ToTableName(parts)
      first == FindSourceMatchingName(p)
  IN  IF first = {} /\ Len(parts) = 2 THEN FindSourceMatchingName(InPublic(p)) ELSE first

\* The name of a function that is found, <<>> for none.  In the schema "" its name
\* would begin with a dot.
FunctionIn(it, function) ==
  LET steps == Steps(it)
      last  == Least({n \in DOMAIN steps :
                        ~steps[n].ok \/ (steps[n].schema # "" /\ <<steps[n].schema, function>> \in FunDefs)})
  IN  IF steps[last].ok THEN <<steps[last].schema, function>> ELSE <<>>

ResolveFunction(parts) ==
  LET function == parts[1]
      prefix   == IF Part(parts, 2) = PgCatalogName THEN "" ELSE Part(parts, 2)
  IN  IF <<prefix, function>> \in FunDefs THEN <<prefix, function>>
      ELSE IF prefix = "" THEN FunctionIn(Iter(path), function)
      ELSE <<>>
-----------------------------------------------------------------------------
\* No schema is broken, or one is.
Broken == {<<>>} \cup {s \in schemas : s[2] # PgCatalogName}

Created == {o \in objects : o[2] # PgCatalogName}

\* The session begins, with a database or none.
Connect(db, paths) ==
  /\ ~connected
  /\ connected' = TRUE /\ curDb' = db /\ path' = MakeSearchPath(paths)
  /\ UNCHANGED <<schemas, objects, from>>

\* The session resolves a name that is to exist, and puts it in the FROM clause.
Find(parts) ==
  \E broken \in Broken :
    LET r == ResolveExisting(ToTableName(parts), objects, broken)
    IN  /\ connected
        /\ Len(from) < MaxFrom
        /\ ~newUnresolvedObjectNameFails(parts)
        /\ r.kind = "found"
        /\ from' = Append(from, [parts |-> parts, name |-> r.name, object |-> r.found])
        /\ UNCHANGED <<connected, curDb, path, schemas, objects>>

\* The session creates an object under a name.
Make(parts) ==
  \E broken \in Broken :
    LET r == ResolveTarget(ToTableName(parts), broken)
    IN  /\ connected
        /\ Cardinality(Created) < MaxObjects
        /\ ~newUnresolvedObjectNameFails(parts)
        /\ r.kind = "found"
        /\ objects' = objects \cup {r.found \o <<parts[1]>>}
        /\ UNCHANGED <<connected, curDb, path, schemas, from>>

\* The session has its temporary schema made, in its current database.
MakeTemporarySchema ==
  /\ connected
  /\ path.tempSchemaName = "" /\ curDb # ""
  /\ path' = WithTemporarySchemaName(path, OurTemp)
  /\ schemas' = schemas \cup {<<curDb, OurTemp>>}
  /\ UNCHANGED <<connected, curDb, objects, from>>

SetDatabase(db) ==
  /\ connected
  /\ curDb' = db
  /\ UNCHANGED <<connected, path, schemas, objects, from>>

SetSearchPath(paths) ==
  /\ connected
  /\ path' = UpdatePaths(path, paths)
  /\ UNCHANGED <<connected, curDb, schemas, objects, from>>

\* Somebody creates a schema.
MakeSchema(db, name) ==
  /\ schemas' = schemas \cup {<<db, name>>}
  /\ UNCHANGED <<connected, curDb, path, objects, from>>

\* Another session makes an object in its temporary schema.
MakeForeign(db, name) ==
  /\ Cardinality(Created) < MaxObjects
  /\ schemas' = schemas \cup {<<db, OthersTemp>>}
  /\ objects' = objects \cup {<<db, OthersTemp, name>>}
  /\ UNCHANGED <<connected, curDb, path, from>>

Init ==
  /\ connected = FALSE /\ curDb = "" /\ path = MakeSearchPath(<<>>)
  /\ schemas = Virtual \cup {<<db, PublicSchema>> : db \in Databases}
  /\ objects \in {{}, {<<db, PgCatalogName, "t">> : db \in Databases \cup {""}}}
  /\ from = <<>>

Next ==
  \/ \E db \in Databases \cup {""}, paths \in SearchPaths : Connect(db, paths)
  \/ \E parts \in Written : Find(parts)
  \/ \E parts \in Written : Make(parts)
  \/ MakeTemporarySchema
  \/ \E db \in Databases : SetDatabase(db)
  \/ \E paths \in SearchPaths : SetSearchPath(paths)
  \/ \E db \in Databases, name \in UserSchemas : MakeSchema(db, name)
  \/ \E db \in Databases : MakeForeign(db, "t")

Spec == Init /\ [][Next]_vars
-----------------------------------------------------------------------------
\* The schemas that the path lists: "" where the alias means nothing yet.
Listed ==
  [i \in DOMAIN path.paths |->
     IF path.paths[i] = PgTempSchemaName THEN path.tempSchemaName ELSE path.paths[i]]

Lists(x) == \E i \in DOMAIN path.paths : path.paths[i] = x

\* The order PostgreSQL documents: the temporary schema where the path names it,
\* first of all if it does not; pg_catalog where the path names it, else before
\* the path.
DocumentedOrder ==
  (IF Lists(PgTempSchemaName) THEN <<>> ELSE <<path.tempSchemaName>>)
    \o (IF Lists(PgCatalogName) THEN <<>> ELSE <<PgCatalogName>>) \o Listed

\* The first schema of an order for which the test holds, "" for none.
FirstWith(order, Test(_)) ==
  LET at == {i \in DOMAIN order : order[i] # "" /\ Test(order[i])}
  IN  IF at = {} THEN "" ELSE order[Least(at)]

\* A name without a schema, of a table or of a function, is that of the first
\* schema of the documented order that has it; a function in no schema goes first
\* (search_path.go 100-120, name_resolution.go 450-507).
SearchedInOrder ==
  /\ \A parts \in {w \in Written : Len(w) = 1} :
       LET first == FirstWith(DocumentedOrder, LAMBDA x : <<curDb, x, parts[1]>> \in objects)
           r     == ResolveExisting(ToTableName(parts), objects, <<>>)
       IN  IF first = "" THEN r.kind = "nothing" ELSE r.found = <<curDb, first, parts[1]>>
  /\ \A f \in {d[2] : d \in FunDefs} :
       LET first == FirstWith(DocumentedOrder, LAMBDA x : <<x, f>> \in FunDefs)
       IN  /\ ResolveFunction(<<f>>) = (IF <<"", f>> \in FunDefs THEN <<"", f>>
                                        ELSE IF first = "" THEN <<>> ELSE <<first, f>>)
           /\ <<"", f>> \in FunDefs => ResolveFunction(<<f, PgCatalogName>>) = <<"", f>>

\* The schemas that are searched before the path, which does not list them: the
\* temporary schema is listed by its alias (search_path.go 111-114).
SearchedUnlisted ==
  (IF Lists(PgTempSchemaName) THEN {} ELSE {path.tempSchemaName})
    \cup (IF Lists(PgCatalogName) THEN {} ELSE {PgCatalogName})

\* A name without a schema is made in the first schema that the path lists and
\* the database has.  Had an object just been made under any name, it would be what
\* the name finds, unless a schema that is searched without being listed has one of
\* that name too.
MadeIsFound ==
  \A parts \in Written :
    LET target == ResolveTarget(ToTableName(parts), <<>>)
        made   == target.found \o <<parts[1]>>
        r      == ResolveExisting(ToTableName(parts), objects \cup {made}, <<>>)
        listed == FirstWith(Listed, LAMBDA x : <<curDb, x>> \in schemas)
    IN  /\ Len(parts) = 1 =>
             target.found = (IF listed = "" THEN <<>> ELSE <<curDb, listed>>)
        /\ target.kind = "found" =>
             /\ r.kind = "found"
             /\ \/ r.found = made
                \/ /\ Len(parts) = 1
                   /\ r.found[2] \in SearchedUnlisted

\* Another source, of another object, is what the prefix names directly.
HidesSource(k, i) ==
  /\ from[k].object # from[i].object
  /\ Matches(from[k], ToTableName(from[i].parts))

\* A name that was resolved, printed in full, means the same object ever after,
\* whatever the session has set since; its prefix means that source, and no object
\* of another session's temporary schema is reached.  A lookup that failed leaves
\* the name as it was written (name_resolution.go 201-238, 270-330).
ResolvedForGood ==
  /\ \A i \in DOMAIN from :
       /\ LET r == ResolveExisting(ToTableName(FQString(from[i].name)), objects, <<>>)
          IN  r.kind = "found" /\ r.found = from[i].object
       /\ \/ i \in ResolvePrefix(from[i].parts)
          \/ \E k \in DOMAIN from : HidesSource(k, i)
       /\ from[i].object[2] # OthersTemp
  /\ \A parts \in Written, broken \in Broken :
       LET t == ToTableName(parts)
           r == ResolveExisting(t, objects, broken)
       IN  r.kind # "found" => r.name = t

\* A name means the object that the documented order gives it, one that has just
\* been made under it, and that object for good.
NamesResolve == connected => SearchedInOrder /\ MadeIsFound /\ ResolvedForGood
=============================================================================
