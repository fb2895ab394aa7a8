------------------------------- MODULE Scoping -------------------------------
(***************************************************************************)
(* Names: the scopes of the analyzer (ltnc/scoping), the tables of what is *)
(* declared and how a name is resolved in its namespaces (analyze/utils).  *)
(*                                                                         *)
(* A scope refers to its parent, so the scopes that exist at a point of    *)
(* the analysis are a sequence, innermost last.  A major scope begins a    *)
(* window of local variables, in which the minor scopes after it stand.    *)
(***************************************************************************)
EXTENDS Syntax, Integers, FiniteSets, SequencesExt

(***************************************************************************)
(* The state of the analysis (Context) and its first error.                *)
(***************************************************************************)
Context == [scopes |-> <<>>, functions |-> <<>>, definitions |-> <<>>, globals |-> <<>>,
            queue |-> <<>>, already_known |-> {}, members |-> <<>>, unique |-> 0,
            error |-> ""]
Broken(st) == st.error # ""
CompilerError(st, what) == IF Broken(st) THEN st ELSE [st EXCEPT !.error = what]

(***************************************************************************)
(* Scopes.  allowed are the tables that may be asked; the tables for which *)
(* it stands are invalid (InvalidSymbolTable) in the context of the scope. *)
(***************************************************************************)
Tables == {"functions", "definitions", "globals"}

MajorScope(namespaze, qualifiers, allowed) ==
    [major |-> TRUE, vars |-> <<>>, return_point |-> "", namespaze |-> namespaze,
     qualifiers |-> qualifiers, allowed |-> allowed]
MinorScope == [MajorScope(Root, {}, {}) EXCEPT !.major = FALSE]

\* The innermost major scope and those in it: one window.
InWindow(scopes) ==
    LET major == SelectLastInSeq(scopes, LAMBDA s : s.major)
    IN SubSeq(scopes, major, Len(scopes))
Outermost(scopes) == Head(InWindow(scopes))

IsConst(st) == "const" \in Outermost(st.scopes).qualifiers
IsCoroutine(st) == "coroutine" \in Outermost(st.scopes).qualifiers
GetNamespace(st) == Outermost(st.scopes).namespaze

FunctionScope(namespaze, qualifiers) == MajorScope(namespaze, qualifiers, Tables)
BlockScope == MinorScope
IifeScope(return_label) == [MinorScope EXCEPT !.return_point = return_label]
ExceptScope(st) == MajorScope(GetNamespace(st), {}, Outermost(st.scopes).allowed)
CaseScope(st) ==
    MajorScope(GetNamespace(st), {"const"},
               Outermost(st.scopes).allowed \ {"functions", "globals"})

Enter(st, scope) == [st EXCEPT !.scopes = Append(@, scope)]
Leave(st) == [st EXCEPT !.scopes = Front(@)]

\* The innermost return point of the window.
GetReturn(st) ==
    LET window == InWindow(st.scopes)
        last == SelectLastInSeq(window, LAMBDA s : s.return_point # "")
    IN IF last = 0 THEN "" ELSE window[last].return_point

(***************************************************************************)
(* Local variables.  The address of a variable is the number of variables  *)
(* of its window, so blocks that follow each other use the same slots.     *)
(***************************************************************************)
ScopeSize(scopes) ==
    FoldLeft(LAMBDA sum, s : sum + Cardinality(DOMAIN s.vars), 0, InWindow(scopes))

NextAddress(st) == ScopeSize(st.scopes)

DeclareVariable(st, name) ==
    LET last == Len(st.scopes)
    IN IF name \in DOMAIN st.scopes[last].vars
       THEN CompilerError(st, "redefined_variable")
       ELSE [st EXCEPT !.scopes[last].vars = (name :> NextAddress(st)) @@ @]

NoVariable == -1
ResolveLocalVariable(st, name) ==
    LET window == InWindow(st.scopes)
        last == SelectLastInSeq(window, LAMBDA s : name \in DOMAIN s.vars)
    IN IF last = 0 THEN NoVariable ELSE window[last].vars[name]

(***************************************************************************)
(* namespace_resolution.cxx.  Nothing is Absent.                           *)
(***************************************************************************)
NamedIn(decl, full, name) == decl.name = name /\ decl.namespaze.path = full.path

MatchFunction(fx, full, name, parameters, mode) ==
    LET n == Len(fx.simple)
        required == IsVariadic(fx) /\ n <= parameters
        prohibited == ~IsVariadic(fx) /\ n = parameters
    IN NamedIn(fx, full, name) /\
       CASE mode = "EXACT" -> IsVariadic(fx) /\ n = parameters
         [] mode = "REQUIRED" -> required
         [] mode = "ALLOWED" -> required \/ prohibited
         [] mode = "PROHIBITED" -> prohibited

FirstMatch(decls, Matches(_)) ==
    LET i == SelectInSeq(decls, Matches) IN IF i = 0 THEN Absent ELSE decls[i]

\* The namespaces around from are searched, the innermost first.
ResolveRec(decls, from, to, Match(_, _)) ==
    LET full(n) == Joined(Namespace(SubSeq(from.path, 1, n)), to)
        found(n) == FirstMatch(decls, LAMBDA d : Match(d, full(n)))
        outer == {n \in 0..Len(from.path) : IsThere(found(n))}
    IN IF outer = {} THEN Absent ELSE found(Max(outer))
Resolve(decls, from, to, Match(_, _)) ==
    IF to.absolute THEN FirstMatch(decls, LAMBDA d : Match(d, to))
    ELSE ResolveRec(decls, from, to, Match)

\* The tables, as a scope sees them: [found, st], st with an error if the
\* table is invalid in the scope.
Ask(st, table, to, Match(_, _)) ==
    IF table \in Outermost(st.scopes).allowed
    THEN [found |-> Resolve(st[table], GetNamespace(st), to, Match), st |-> st]
    ELSE [found |-> Absent, st |-> CompilerError(st, "cannot_use_" \o table)]
ResolveFunction(st, name, namespaze, arity, mode) ==
    Ask(st, "functions", namespaze,
        LAMBDA fx, full : MatchFunction(fx, full, name, arity, mode))
ResolveDefinition(st, name, namespaze) ==
    Ask(st, "definitions", namespaze, LAMBDA d, full : NamedIn(d, full, name))
ResolveGlobalVariable(st, name, namespaze) ==
    Ask(st, "globals", namespaze, LAMBDA d, full : NamedIn(d, full, name))

Insert(st, table, symbol, Match(_, _)) ==
    IF IsThere(Resolve(st[table], Root, symbol.namespaze, Match))
    THEN CompilerError(st, "redefined_symbol")
    ELSE [st EXCEPT ![table] = Append(@, symbol)]
InsertFunction(st, fx) ==
    Insert(st, "functions", fx,
           LAMBDA f, full : MatchFunction(f, full, fx.name, Len(fx.simple), "ALLOWED"))
InsertStatic(st, table, symbol) ==
    Insert(st, table, symbol, LAMBDA d, full : NamedIn(d, full, symbol.name))

(***************************************************************************)
(* Labels (labels.cxx, Label.cxx, make_jump_id.cxx).                       *)
(***************************************************************************)
FunctionLabel(fx) ==
    NamespaceText[fx.namespaze.path] \o fx.name \o "(" \o ToString(Len(fx.simple)) \o ")"
DeriveExcept(label) == "_" \o label \o "_EXCEPT"
JumpId(name, unique) == "_" \o name \o unique

(***************************************************************************)
(* MemberTable.cxx: reserved members have a code, the others get the next  *)
(* number.  FunctionQueue.cxx: a function is analysed once, when it is     *)
(* first needed; two functions are the same if they are one declaration.   *)
(***************************************************************************)
MemberCode == [size |-> 64, at |-> 66, add |-> 16, cmp |-> 33, bool |-> 34]
MemberId(st, name) ==
    IF name \in DOMAIN MemberCode THEN MemberCode[name]
    ELSE IF Contains(st.members, name) THEN 255 + SelectInSeq(st.members, LAMBDA m : m = name)
    ELSE 256 + Len(st.members)
AddMember(st, name) ==
    IF name \in DOMAIN MemberCode \/ Contains(st.members, name) THEN st
    ELSE [st EXCEPT !.members = Append(@, name)]

Declaration(fx) == <<FunctionLabel(fx), IsVariadic(fx)>>
Staged(fx, captures, namespaze) == [fx |-> fx, captures |-> captures, namespaze |-> namespaze]
StageFunction(st, staged) ==
    IF Declaration(staged.fx) \in st.already_known THEN st
    ELSE [st EXCEPT !.already_known = @ \cup {Declaration(staged.fx)},
                    !.queue = Append(@, staged)]
RequireFunction(st, fx) == StageFunction(st, Staged(fx, <<>>, fx.namespaze))
=============================================================================
