------------------------------- MODULE MCCalls --------------------------------
EXTENDS Calls

Lists(n) == UNION {[1..k -> Classes] : k \in 0..n}

\* An argument for a parameter: of its own class, or converted.
ArgFor(class) == IF class = "double" THEN {"double", "int"} ELSE {class}

ArgsFor(params) ==
  {args \in [DOMAIN params -> Classes] : \A i \in DOMAIN params : args[i] \in ArgFor(params[i])}

Signature(params, args, variadic, ret, odd) ==
  [params |-> params, args |-> args, variadic |-> variadic, ret |-> ret, odd |-> odd]

Ordinary ==
  UNION {{Signature(params, args, FALSE, ret, odd) :
            args \in ArgsFor(params), ret \in {"int", "struct"}, odd \in BOOLEAN} :
         params \in Lists(5)}

Variadic ==
  {Signature(params, params \o extra, TRUE, ret, odd) :
     params \in (Lists(2) \ {<< >>}) \union UNION {[1..k -> {"int"}] : k \in 3..4},
     extra \in UNION {[1..k -> Classes \ {"struct"}] : k \in 0..3},
     ret \in {"int", "struct"}, odd \in BOOLEAN}

MCSignatures == Ordinary \union Variadic

=============================================================================
