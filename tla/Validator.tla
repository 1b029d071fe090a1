----------------------------- MODULE Validator ------------------------------
(***************************************************************************)
(* The struct validator (hw09).  A struct is a sequence of fields          *)
(*   [name, exported, tag, rules, type, value]                             *)
(* with a tag "none", "nested" or "rules"; the rules are what is between   *)
(* the bars of the tag, and the type is "string", "int", "strings",        *)
(* "ints", "struct" or "other".  A string is a sequence of characters, the *)
(* value of "strings" and "ints" a sequence.  A rule is [op, arg] with an  *)
(* argument [ok, value], where ok is FALSE when it does not parse; the     *)
(* argument of "in" is a sequence of such values, of "regexp" the set of   *)
(* strings that match.  The op of a rule without colon is "".              *)
(***************************************************************************)
EXTENDS Integers, Sequences, FiniteSets, SequencesExt

Valid == "nil"
ErrInvalidTag == "invalid tag"
ErrInvalidRegexp == "invalid regexp"
Broken == "broken"   \* the errors that name a bound or a pattern

If(ok, err) == IF ok THEN Valid ELSE err

validateString(s, rule) ==
  CASE rule.op = "len" ->
         IF ~rule.arg.ok THEN ErrInvalidTag ELSE If(Len(s) = rule.arg.value, Broken)
    [] rule.op = "regexp" ->
         IF ~rule.arg.ok THEN ErrInvalidRegexp ELSE If(s \in rule.arg.value, Broken)
    [] rule.op = "in" ->
         If(\E i \in DOMAIN rule.arg : rule.arg[i].value = s, Broken)
    [] OTHER -> ErrInvalidTag

\* The values of "in" are parsed one by one, and none behind the one found.
validateInt(n, rule) ==
  CASE rule.op = "min" ->
         IF ~rule.arg.ok THEN ErrInvalidTag ELSE If(n >= rule.arg.value, Broken)
    [] rule.op = "max" ->
         IF ~rule.arg.ok THEN ErrInvalidTag ELSE If(n <= rule.arg.value, Broken)
    [] rule.op = "in" ->
         LET found == {i \in DOMAIN rule.arg :
                         rule.arg[i].ok /\ rule.arg[i].value = n}
             bad == {i \in DOMAIN rule.arg : ~rule.arg[i].ok}
         IN IF \E i \in bad : \A j \in found : i < j THEN ErrInvalidTag
            ELSE If(found # {}, Broken)
    [] OTHER -> ErrInvalidTag

\* The errors of a text or a number, one for each rule that fails, in their order.
Errors(path, text, value, rules) ==
  LET Err(rule) == IF text THEN validateString(value, rule)
                   ELSE validateInt(value, rule)
      failing == SelectSeq(rules, LAMBDA rule : Err(rule) # Valid)
  IN [k \in DOMAIN failing |-> [field |-> path, err |-> Err(failing[k])]]

validateSliceField(field) ==
  FlattenSeq([i \in DOMAIN field.value |->
    Errors(<<field.name, ToString(i)>>, field.type = "strings", field.value[i],
           field.rules)])

validateSimpleField(field) ==
  IF field.type \in {"string", "int"}
  THEN Errors(<<field.name>>, field.type = "string", field.value, field.rules)
  ELSE validateSliceField(field)

isSupportedType(field) == field.type \in {"string", "int", "strings", "ints"}

Unsupported(path) == [fatal |-> TRUE, field |-> path]
Found(errs) == [fatal |-> FALSE, errs |-> errs]

\* Mutant: the errors of a nested struct replace those before it.
NestedAfter(field, inner, errs) ==
  IF inner.fatal THEN inner
  ELSE Found([k \in DOMAIN inner.errs |->
                [inner.errs[k] EXCEPT !.field = <<field.name>> \o @]])

\* The errors of the nested struct under the field's name behind those before;
\* a program error inside is passed on as it is.
AfterNested(field, inner, errs) ==
  IF inner.fatal THEN inner
  ELSE Found(errs \o [k \in DOMAIN inner.errs |->
                        [inner.errs[k] EXCEPT !.field = <<field.name>> \o @]])

\* The first unsupported type ends the validation, and the errors before it are
\* lost.
RECURSIVE Validate(_)
Validate(struct) ==
  FoldLeft(LAMBDA acc, field :
      IF acc.fatal \/ ~field.exported \/ field.tag = "none" THEN acc
      ELSE IF field.tag = "nested"
      THEN IF field.type # "struct" THEN Unsupported(<<field.name>>)
           ELSE AfterNested(field, Validate(field.value), acc.errs)
      ELSE IF ~isSupportedType(field) THEN Unsupported(<<field.name>>)
      ELSE Found(acc.errs \o validateSimpleField(field)),
    Found(<<>>), struct)

----------------------------------------------------------------------------
(* Reference: the checks a struct asks for, with nested structs laid flat. *)

Asked(struct) == {i \in DOMAIN struct :
                    struct[i].exported /\ struct[i].tag # "none"}

\* A check is a path, the position of the rule and whether the value passes.
RECURSIVE Checks(_)
Checks(struct) ==
  LET Check(path, r, verdict) == [path |-> path, at |-> r, passed |-> verdict = Valid]
      Judge(f, value, r) ==
        IF f.type \in {"int", "ints"} THEN validateInt(value, f.rules[r])
        ELSE validateString(value, f.rules[r])
      Own(f) ==
        IF f.type \in {"string", "int"}
        THEN {Check(<<f.name>>, r, Judge(f, f.value, r)) : r \in DOMAIN f.rules}
        ELSE {Check(<<f.name, ToString(k)>>, r, Judge(f, f.value[k], r))
                : k \in DOMAIN f.value, r \in DOMAIN f.rules}
      Inner(f) ==
        {[c EXCEPT !.path = <<f.name>> \o @] : c \in Checks(f.value)}
  IN UNION {IF struct[i].tag = "nested" THEN Inner(struct[i]) ELSE Own(struct[i])
              : i \in Asked(struct)}

RECURSIVE WellTyped(_)
WellTyped(struct) ==
  \A i \in Asked(struct) :
    IF struct[i].tag = "nested"
    THEN struct[i].type = "struct" /\ WellTyped(struct[i].value)
    ELSE struct[i].type \notin {"struct", "other"}

\* A struct is valid just when all it asks for holds, in nested structs and in
\* slices too.  An unsupported type, or "nested" on what is no struct, is reported
\* alone.  Otherwise whatever fails, rules that do not parse included, is reported
\* at its path, once for each rule, and nothing else is.
ValidatorAgrees(struct) ==
  LET got == Validate(struct) IN
  IF ~WellTyped(struct) THEN got.fatal
  ELSE LET failed == {c \in Checks(struct) : ~c.passed} IN
    /\ ~got.fatal
    /\ {got.errs[k].field : k \in DOMAIN got.errs} = {c.path : c \in failed}
    /\ \A path \in {c.path : c \in failed} :
         Cardinality({k \in DOMAIN got.errs : got.errs[k].field = path})
           = Cardinality({c \in failed : c.path = path})

\* Program errors, as the code names them, are kept apart from those of validation.
ProgramErrorsApart(struct) ==
  LET got == Validate(struct) IN
  got.fatal \/ \A k \in DOMAIN got.errs :
                 got.errs[k].err \notin {ErrInvalidTag, ErrInvalidRegexp}
=============================================================================
