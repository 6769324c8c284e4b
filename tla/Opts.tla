-------------------------------- MODULE Opts --------------------------------
(***************************************************************************)
(* The options of a request (src/router/service.go): how UnmarshalJSON     *)
(* makes Opts of the JSON object in the body and of the X-Router-Opt       *)
(* headers.  The fields Domain, Route, ... and AdditionalOpts are one map  *)
(* from names to texts; the four Boolean fields are a set.                 *)
(***************************************************************************)
EXTENDS Naturals, Sequences

CONSTANTS
    BoolOpts,           \* http-only, tls-acme, tls-acme-cname, all-prefixes
    TextOpts,           \* every other name
    Texts,              \* JSON strings and header values
    TrueTexts, FalseTexts, \* what strconv.ParseBool takes for true and for false
    NotText,            \* a JSON value that is no string
    Unset               \* a text option nobody gave

OptNames == BoolOpts \cup TextOpts

ASSUME OptsAssumption ==
    /\ BoolOpts \cap TextOpts = {}
    /\ TrueTexts \cup FalseTexts \subseteq Texts /\ TrueTexts \cap FalseTexts = {}
    /\ NotText \notin Texts /\ Unset \notin Texts

\* The JSON objects, and the headers NAME=VALUE (the empty text without "=").
Objects == UNION {[names -> Texts \cup {NotText}] : names \in SUBSET OptNames}
HeaderOpt == [name : OptNames, value : Texts]

\* failed: is the named result err set?
OptsType ==
    [on : SUBSET BoolOpts, text : [TextOpts -> Texts \cup {Unset}], failed : BOOLEAN]
NoOpts == [on |-> {}, text |-> [n \in TextOpts |-> Unset], failed |-> FALSE]

\* mutation: a later header replaces what is there
AddHeaderOver(object, header) ==
    [n \in DOMAIN object \cup {header.name} |->
        IF n = header.name THEN header.value ELSE object[n]]

\* One header: it counts only when neither the body nor an earlier header has
\* the name.
AddHeader(object, header) ==
    [n \in DOMAIN object \cup {header.name} |->
        IF n \in DOMAIN object THEN object[n] ELSE header.value]

Parses(value) == value \in TrueTexts \cup FalseTexts

\* mutation: the error is dropped
FlagErrorDropped(before, value) == before

\* The error a Boolean option leaves in err: its own, good or bad.
FlagError(before, value) == ~Parses(value)

\* mutation: a value that is no text is not skipped
AssignedAny(opts, n, value) == IF n \in BoolOpts THEN opts ELSE [opts EXCEPT !.text[n] = value]

\* One round of the loop over the map, for the option n.
Assigned(opts, n, value) ==
    CASE value = NotText -> opts
      [] value # NotText /\ n \in BoolOpts ->
            [opts EXCEPT !.on = IF value \in TrueTexts THEN @ \cup {n} ELSE @ \ {n},
                         !.failed = FlagError(@, value)]
      [] OTHER -> [opts EXCEPT !.text[n] = value]
=============================================================================
