------------------------- MODULE Preprocessor_proofs -------------------------
(***************************************************************************)
(* Proofs about Preprocessor: the walk over the growing vectors carries    *)
(* out every directive, for every set of files, unless a definition sends  *)
(* it past one (skipped).                                                  *)
(***************************************************************************)
EXTENDS Preprocessor, Induction, SequenceTheorems

-----------------------------------------------------------------------------
(* The inductive invariant *)

AllFiles == MainFiles \union UNION {{hs[n] : n \in FileNames} : hs \in HeaderSets}

\* The tokens of the files.
Written == UNION {ToSet(file) : file \in AllFiles}

\* The tokens of the values of macros; an expanded value holds blanked ones.
Words == {None} \union UNION {ToSet(t[3]) : t \in {u \in Written : Kind(u) = "define"}}

TokenSet == Written \union Words \union {EndOfFile}

Items ==
  [type : {"define", "file"}, name : Names \union FileNames \union {"CCIC"},
   once : BOOLEAN, value : Seq(Words), ignore : BOOLEAN]

Calls == [tokens : Seq(TokenSet), index : Nat, item : Nat]

\* The types of the variables.
ITypes ==
  /\ main \in MainFiles /\ headers \in HeaderSets
  /\ table \in Seq(Items)
  /\ files \in Seq(Calls) /\ files # << >>
  /\ phase \in {"run", "done", "error"}
  /\ output \in Seq(TokenSet)
  /\ skipped \in BOOLEAN

\* An item of a file is never removed: #undef only names macros.
ITable == \A i \in 1..Len(table) : table[i].name \in FileNames => ~table[i].ignore

\* A position may lie behind its vector; that of a file which waits for an
\* included one is that of the directive.
PlaceRight(f, items) == f.index >= 1 /\ f.item \in 1..items

IPlaces ==
  /\ \A i \in 1..Len(files) : PlaceRight(files[i], Len(table))
  /\ \A i \in 1..(Len(files) - 1) : files[i].index <= Len(files[i].tokens)

\* A directive that is still to be carried out.
Directive(t) ==
  \/ Kind(t) \in {"define", "undef", "ifdef", "ifndef", "endif"}
  \/ Kind(t) = "include" /\ ~Once(t[2])

\* Nothing is asked any more when the walk has been sent past something.
Pending(t) == ~skipped /\ Directive(t)

\* In front of the position nothing is left to be done.
PassedRight(f) == \A j \in 1..Len(f.tokens) : j < f.index => ~Pending(f.tokens[j])

IPassed == \A i \in 1..Len(files) : PassedRight(files[i])

IOutput == phase = "done" => \A i \in 1..Len(output) : output[i] # None /\ ~Pending(output[i])

(***************************************************************************)
(* What has been passed stays done: no token inserted later is a           *)
(* directive, and a file that is included only once stays so.              *)
(***************************************************************************)
IInv == ITypes /\ ITable /\ IPlaces /\ IPassed /\ IOutput

-----------------------------------------------------------------------------
(* Tokens *)

\* Every file is a sequence of the tokens of files.
LEMMA FileTokens ==
  ASSUME NEW file \in AllFiles
  PROVE  file \in Seq(Written) /\ \A i \in 1..Len(file) : IsToken(file[i])
<1>1. IsFile(file)
  BY FilesAssumption DEF AllFiles
<1>2. file \in Seq(ToSet(file))
  BY <1>1 DEF IsFile
<1>3. ToSet(file) \subseteq Written
  BY DEF Written
<1> QED
  BY <1>1, <1>2, <1>3, SeqMonotonic DEF IsFile

\* A token of a file is one the tokenizer makes.
LEMMA WrittenTokens ==
  ASSUME NEW t \in Written
  PROVE  IsToken(t)
<1>1. PICK file \in AllFiles : t \in ToSet(file)
  BY DEF Written
<1>2. PICK i \in DOMAIN file : t = file[i]
  BY <1>1 DEF ToSet
<1>3. i \in 1..Len(file)
  BY FileTokens, LenProperties
<1> QED
  BY <1>2, <1>3, FileTokens

\* The value of a definition is a sequence of words.
LEMMA ValueOfDefine ==
  ASSUME NEW t \in Written, Kind(t) = "define"
  PROVE  /\ t[2] \in Names
         /\ t[3] \in Seq(Words)
         /\ \A i \in 1..Len(t[3]) : Kind(t[3][i]) \in {"ident", "lit"}
<1>1. t[2] \in Names /\ IsValue(t[3])
  BY WrittenTokens DEF IsToken
<1>2. t[3] \in Seq(ToSet(t[3]))
  BY <1>1 DEF IsValue
<1>3. ToSet(t[3]) \subseteq Words
  BY DEF Words
<1> DEFINE v == t[3]
<1>4. v \in Seq(Words)
  <2>1. v \in Seq(ToSet(v)) /\ ToSet(v) \subseteq Words
    BY <1>2, <1>3
  <2> HIDE DEF v
  <2> QED
    BY <2>1, SeqMonotonic
<1> QED
  BY <1>1, <1>4 DEF IsValue

\* A word is a blanked token, an identifier or a literal.
LEMMA WordKinds ==
  ASSUME NEW t \in Words
  PROVE  t = None \/ Kind(t) \in {"ident", "lit"}
<1>1. CASE t = None
  BY <1>1
<1>2. CASE t # None
  <2>1. PICK u \in Written : Kind(u) = "define" /\ t \in ToSet(u[3])
    BY <1>2 DEF Words
  <2> DEFINE v == u[3]
  <2>2. v \in Seq(Words) /\ \A i \in 1..Len(v) : Kind(v[i]) \in {"ident", "lit"}
    BY <2>1, ValueOfDefine
  <2>3. PICK i \in DOMAIN v : t = v[i]
    BY <2>1 DEF ToSet
  <2>4. i \in 1..Len(v)
    <3> HIDE DEF v
    <3> QED
      BY <2>2, LenProperties
  <2> QED
    BY <2>2, <2>3, <2>4
<1> QED
  BY <1>1, <1>2

\* The kinds of the tokens in the vectors.
LEMMA TokenKinds ==
  ASSUME NEW t \in TokenSet
  PROVE  /\ t = None \/ Kind(t) \in {"ident", "lit", "eof"} \/ IsToken(t)
         /\ Kind(t) \in {"define", "undef", "ifdef", "ifndef"} => t[2] \in Names
         /\ Kind(t) = "include" => t[2] \in FileNames
         /\ Kind(t) = "define" => t \in Written
<1>1. CASE t \in Written
  BY <1>1, WrittenTokens DEF IsToken
<1>2. CASE t \in Words
  <2>1. t = None \/ Kind(t) \in {"ident", "lit"}
    BY <1>2, WordKinds
  <2>2. Kind(None) = "none"
    BY DEF None, Kind
  <2> QED
    BY <2>1, <2>2
<1>3. CASE t = EndOfFile
  BY <1>3 DEF EndOfFile, Kind
<1> QED
  BY <1>1, <1>2, <1>3 DEF TokenSet

\* Neither None nor a word is a directive.
LEMMA NotPending ==
  ASSUME NEW t, Kind(t) \in {"none", "ident", "lit", "eof", "once"}
  PROVE  ~Pending(t)
BY DEF Pending, Directive

-----------------------------------------------------------------------------
(* Vectors and the table *)

\* tokens_trim keeps tokens of the vector and none that is blanked.
LEMMA Trimmed ==
  ASSUME NEW T, NEW q \in Seq(T)
  PROVE  Trim(q) \in Seq({q[i] : i \in 1..Len(q)} \ {None})
<1> DEFINE S == Seq({q[i] : i \in 1..Len(q)} \ {None})
           grown(n, k) == IF q[n] = None THEN k ELSE Append(k, q[n])
           step == [p \in (1..Len(q)) \X S |-> grown(p[1], p[2])]
           Eq(f) == f = [n \in 0..Len(q) |->
                           IF n = 0 THEN << >>
                           ELSE IF q[n] = None THEN f[n - 1] ELSE Append(f[n - 1], q[n])]
<1>1. Len(q) \in Nat
  OBVIOUS
<1>2. << >> \in S
  OBVIOUS
<1>3. \A n \in 1..Len(q), k \in S : grown(n, k) \in S
  <2>1. ASSUME NEW n \in 1..Len(q), NEW k \in S
        PROVE  grown(n, k) \in S
    <3>1. CASE q[n] = None
      BY <3>1
    <3>2. CASE q[n] # None
      <4>1. q[n] \in {q[i] : i \in 1..Len(q)} \ {None}
        BY <3>2
      <4> QED
        BY <3>2, <4>1, AppendProperties
    <3> QED
      BY <3>1, <3>2
  <2> QED
    BY <2>1
<1>4. step \in [(1..Len(q)) \X S -> S]
  <2> HIDE DEF grown, S
  <2> QED
    BY <1>3
<1>5. PICK f \in [0..Len(q) -> S] : Iterates(f, Len(q), << >>, step)
  <2> HIDE DEF step, S
  <2> QED
    BY <1>1, <1>2, <1>4, Iteration
<1>6. \A n \in 1..Len(q) : f[n] = grown(n, f[n - 1])
  <2> SUFFICES ASSUME NEW n \in 1..Len(q)
               PROVE  f[n] = grown(n, f[n - 1])
    OBVIOUS
  <2> HIDE DEF grown, S
  <2>1. f[n - 1] \in S
    BY <1>1, <1>5
  <2>2. step[<<n, f[n - 1]>>] = grown(n, f[n - 1])
    BY <2>1
  <2> HIDE DEF step
  <2> QED
    BY <1>5, <2>2 DEF Iterates
<1>7. Eq(f)
  <2>1. f = [n \in 0..Len(q) |-> f[n]]
    BY <1>5
  <2>2. \A n \in 0..Len(q) : n = 0 \/ n \in 1..Len(q)
    BY <1>1
  <2>3. f[0] = << >>
    BY <1>5 DEF Iterates
  <2>4. \A n \in 0..Len(q) :
           f[n] = IF n = 0 THEN << >>
                  ELSE IF q[n] = None THEN f[n - 1] ELSE Append(f[n - 1], q[n])
    BY <1>6, <2>2, <2>3
  <2> HIDE DEF S, step
  <2> QED
    BY <2>1, <2>4
<1> DEFINE g == CHOOSE h : Eq(h)
<1>8. Eq(g)
  <2> HIDE DEF Eq
  <2> QED
    BY <1>7
<1>9. Trim(q) = g[Len(q)]
  BY DEF Trim
<1>10. g[0] = << >> /\ \A n \in 1..Len(q) : g[n] = grown(n, g[n - 1])
  <2> HIDE DEF g
  <2>1. \A n \in 0..Len(q) :
           g[n] = IF n = 0 THEN << >>
                  ELSE IF q[n] = None THEN g[n - 1] ELSE Append(g[n - 1], q[n])
    BY <1>8
  <2>2. 0 \in 0..Len(q) /\ \A n \in 1..Len(q) : n \in 0..Len(q) /\ n # 0
    BY <1>1
  <2> QED
    BY <2>1, <2>2
<1>11. \A n \in 0..Len(q) : g[n] \in S
  <2> HIDE DEF g, grown, S
  <2>1. \A n \in 1..Len(q) : g[n - 1] \in S => g[n] \in S
    BY <1>3, <1>10
  <2> QED
    BY <1>1, <1>2, <1>10, <2>1, StaysIn
<1>12. g[Len(q)] \in S
  <2> HIDE DEF g, S
  <2> QED
    BY <1>1, <1>11
<1> QED
  BY <1>9, <1>12

\* What a lookup finds.
LEMMA LookupFacts ==
  ASSUME ITypes, NEW name
  PROVE  /\ Lookup(name) \in 0..Len(table)
         /\ Lookup(name) # 0 => /\ table[Lookup(name)] \in Items
                               /\ table[Lookup(name)].name = name
                               /\ ~table[Lookup(name)].ignore
                               /\ \A i \in 1..(Lookup(name) - 1) :
                                    table[i].name # name \/ table[i].ignore
         /\ Lookup(name) = 0 => \A i \in 1..Len(table) : table[i].name # name \/ table[i].ignore
<1> DEFINE found == {i \in 1..Len(table) : table[i].name = name /\ ~table[i].ignore}
<1>1. Len(table) \in Nat /\ \A i \in 1..Len(table) : table[i] \in Items
  BY DEF ITypes
<1>2. Lookup(name) = IF found = {} THEN 0 ELSE Min(found)
  BY DEF Lookup
<1>3. CASE found = {}
  BY <1>1, <1>2, <1>3
<1>4. CASE found # {}
  <2>1. PICK m \in found : \A k \in found : m <= k
    <3>1. found \subseteq Nat
      OBVIOUS
    <3> HIDE DEF found
    <3> QED
      BY <1>4, <3>1, LeastNumber
  <2>2. Min(found) \in found /\ \A k \in found : Min(found) <= k
    <3> HIDE DEF found
    <3> QED
      BY <2>1 DEF Min
  <2>3. Lookup(name) = Min(found)
    BY <1>2, <1>4
  <2> DEFINE least == Min(found)
  <2>4. least \in found /\ \A k \in found : least <= k
    BY <2>2
  <2> HIDE DEF least
  <2>5. least \in 1..Len(table) /\ table[least].name = name /\ ~table[least].ignore
    BY <2>4
  <2>6. \A i \in 1..(least - 1) : table[i].name # name \/ table[i].ignore
    BY <1>1, <2>4, <2>5
  <2>7. Lookup(name) = least
    BY <2>3 DEF least
  <2> HIDE DEF found
  <2> QED
    BY <1>1, <2>5, <2>6, <2>7
<1> QED
  BY <1>3, <1>4

\* What a token of a value becomes: words.
LEMMA ReplacedWords ==
  ASSUME ITypes, NEW t \in Words
  PROVE  Replaced(t) \in Seq(Words)
<1>1. None \in Words
  BY DEF Words
<1>2. CASE Kind(t) = "ident" /\ Lookup(t[2]) # 0
  <2>1. table[Lookup(t[2])] \in Items
    BY <1>2, LookupFacts
  <2>2. table[Lookup(t[2])].value \in Seq(Words)
    BY <2>1 DEF Items
  <2>3. Append(table[Lookup(t[2])].value, None) \in Seq(Words)
    BY <1>1, <2>2, AppendProperties
  <2> QED
    BY <1>2, <2>3 DEF Replaced
<1>3. CASE ~(Kind(t) = "ident" /\ Lookup(t[2]) # 0)
  BY <1>3 DEF Replaced
<1> QED
  BY <1>2, <1>3

\* The loop of preprocess_tokens: its result, and its result's length if
\* nothing is replaced.
LEMMA ExpandedWords ==
  ASSUME ITypes, NEW v \in Seq(Words)
  PROVE  /\ Expanded(v) \in Seq(Words)
         /\ (\A i \in 1..Len(v) : Replaced(v[i]) = <<v[i]>>) => Len(Expanded(v)) = Len(v)
<1> DEFINE S == Seq(Words)
           grown(n, k) == k \o Replaced(v[n])
           step == [p \in (1..Len(v)) \X S |-> grown(p[1], p[2])]
           Eq(f) == f = [n \in 0..Len(v) |->
                           IF n = 0 THEN << >> ELSE f[n - 1] \o Replaced(v[n])]
<1>1. Len(v) \in Nat
  OBVIOUS
<1>2. << >> \in S
  OBVIOUS
<1>3. \A n \in 1..Len(v), k \in S :
         grown(n, k) \in S /\ Len(grown(n, k)) = Len(k) + Len(Replaced(v[n]))
  <2>1. ASSUME NEW n \in 1..Len(v), NEW k \in S
        PROVE  grown(n, k) \in S /\ Len(grown(n, k)) = Len(k) + Len(Replaced(v[n]))
    <3>1. v[n] \in Words
      BY ElementOfSeq
    <3>2. Replaced(v[n]) \in Seq(Words)
      BY <3>1, ReplacedWords
    <3> QED
      BY <3>2, ConcatProperties
  <2> QED
    BY <2>1
<1>4. step \in [(1..Len(v)) \X S -> S]
  <2> HIDE DEF grown, S
  <2> QED
    BY <1>3
<1>5. PICK f \in [0..Len(v) -> S] : Iterates(f, Len(v), << >>, step)
  <2> HIDE DEF step, S
  <2> QED
    BY <1>1, <1>2, <1>4, Iteration
<1>6. \A n \in 1..Len(v) : f[n] = grown(n, f[n - 1])
  <2> SUFFICES ASSUME NEW n \in 1..Len(v)
               PROVE  f[n] = grown(n, f[n - 1])
    OBVIOUS
  <2> HIDE DEF grown, S
  <2>1. f[n - 1] \in S
    BY <1>1, <1>5
  <2>2. step[<<n, f[n - 1]>>] = grown(n, f[n - 1])
    BY <2>1
  <2> HIDE DEF step
  <2> QED
    BY <1>5, <2>2 DEF Iterates
<1>7. Eq(f)
  <2>1. f = [n \in 0..Len(v) |-> f[n]]
    BY <1>5
  <2>2. \A n \in 0..Len(v) : n = 0 \/ n \in 1..Len(v)
    BY <1>1
  <2>3. f[0] = << >>
    BY <1>5 DEF Iterates
  <2>4. \A n \in 0..Len(v) : f[n] = IF n = 0 THEN << >> ELSE f[n - 1] \o Replaced(v[n])
    BY <1>6, <2>2, <2>3
  <2> HIDE DEF S, step
  <2> QED
    BY <2>1, <2>4
<1> DEFINE g == CHOOSE h : Eq(h)
<1>8. Eq(g)
  <2> HIDE DEF Eq
  <2> QED
    BY <1>7
<1>9. Expanded(v) = g[Len(v)]
  BY DEF Expanded
<1>10. g[0] = << >> /\ \A n \in 1..Len(v) : g[n] = grown(n, g[n - 1])
  <2> HIDE DEF g
  <2>1. \A n \in 0..Len(v) : g[n] = IF n = 0 THEN << >> ELSE g[n - 1] \o Replaced(v[n])
    BY <1>8
  <2>2. 0 \in 0..Len(v) /\ \A n \in 1..Len(v) : n \in 0..Len(v) /\ n # 0
    BY <1>1
  <2> QED
    BY <2>1, <2>2
<1>11. \A n \in 0..Len(v) : g[n] \in S
  <2> HIDE DEF g, grown, S
  <2>1. \A n \in 1..Len(v) : g[n - 1] \in S => g[n] \in S
    BY <1>3, <1>10
  <2> QED
    BY <1>1, <1>2, <1>10, <2>1, StaysIn
<1>12. ASSUME \A i \in 1..Len(v) : Replaced(v[i]) = <<v[i]>>
       PROVE  Len(g[Len(v)]) = Len(v)
  <2> DEFINE d == [n \in 0..Len(v) |-> Len(g[n]) - n]
             Zero == {0}
  <2>1. d[0] \in Zero
    <3> HIDE DEF g
    <3> QED
      BY <1>1, <1>10
  <2>2. \A n \in 1..Len(v) : d[n - 1] \in Zero => d[n] \in Zero
    <3> SUFFICES ASSUME NEW n \in 1..Len(v), d[n - 1] = 0
                 PROVE  d[n] = 0
      OBVIOUS
    <3> HIDE DEF g
    <3>1. n - 1 \in 0..Len(v) /\ n \in 0..Len(v)
      BY <1>1
    <3>2. g[n - 1] \in S /\ Len(g[n - 1]) = n - 1
      <4>1. Len(g[n - 1]) \in Nat
        BY <1>11, <3>1
      <4> HIDE DEF S
      <4> QED
        BY <1>11, <3>1, <4>1
    <3>3. Len(Replaced(v[n])) = 1
      <4>1. Len(<<v[n]>>) = 1
        OBVIOUS
      <4> QED
        BY <1>12, <4>1
    <3>4. Len(g[n]) = Len(grown(n, g[n - 1]))
      <4> HIDE DEF grown
      <4> QED
        BY <1>10
    <3>5. Len(grown(n, g[n - 1])) = (n - 1) + 1
      <4> HIDE DEF grown, S
      <4> QED
        BY <1>3, <3>2, <3>3
    <3> QED
      BY <3>1, <3>4, <3>5
  <2>3. \A n \in 0..Len(v) : d[n] \in Zero
    <3> HIDE DEF d, Zero
    <3> QED
      BY <1>1, <2>1, <2>2, StaysIn
  <2>4. Len(g[Len(v)]) \in Nat
    <3> HIDE DEF g
    <3> QED
      BY <1>1, <1>11
  <2> HIDE DEF g
  <2> QED
    BY <1>1, <2>3, <2>4
<1>13. g[Len(v)] \in S
  <2> HIDE DEF g, S
  <2> QED
    BY <1>1, <1>11
<1> HIDE DEF g
<1> QED
  BY <1>9, <1>12, <1>13

\* tokens_insert
LEMMA Inserted ==
  ASSUME NEW T, None \in T, NEW q \in Seq(T), NEW i \in 1..Len(q), NEW new \in Seq(T)
  PROVE  LET r == InsertTokens(q, i, new)
         IN /\ r \in Seq(T)
            /\ Len(r) = Len(q) + Len(new)
            /\ \A j \in 1..Len(r) :
                 r[j] = IF j < i THEN q[j]
                        ELSE IF j < i + Len(new) THEN new[j - i + 1]
                        ELSE IF j = i + Len(new) THEN None ELSE q[j - Len(new)]
<1> DEFINE a == SubSeq(q, 1, i - 1)
           b == a \o new
           c == b \o <<None>>
           d == SubSeq(q, i + 1, Len(q))
           r == c \o d
<1>1. Len(q) \in Nat /\ Len(new) \in Nat /\ \A j \in 1..Len(q) : q[j] \in T
  BY ElementOfSeq, LenProperties
<1>2. a \in Seq(T) /\ Len(a) = i - 1 /\ \A j \in 1..(i - 1) : a[j] = q[j]
  BY <1>1, SubSeqProperties
<1>3. d \in Seq(T) /\ Len(d) = Len(q) - i /\ \A j \in 1..(Len(q) - i) : d[j] = q[i + j]
  BY <1>1, SubSeqProperties
<1> HIDE DEF a, d
<1>4. /\ b \in Seq(T) /\ Len(b) = i - 1 + Len(new)
      /\ \A j \in 1..Len(b) : b[j] = IF j < i THEN q[j] ELSE new[j - i + 1]
  <2>1. /\ b \in Seq(T) /\ Len(b) = Len(a) + Len(new)
        /\ \A j \in 1..(Len(a) + Len(new)) : b[j] = IF j <= Len(a) THEN a[j] ELSE new[j - Len(a)]
    BY <1>2, ConcatProperties
  <2> HIDE DEF b
  <2>2. Len(b) = i - 1 + Len(new)
    BY <1>2, <2>1
  <2>3. ASSUME NEW j \in 1..Len(b)
        PROVE  b[j] = IF j < i THEN q[j] ELSE new[j - i + 1]
    <3>1. CASE j < i
      <4>1. j \in 1..(i - 1) /\ j <= Len(a)
        BY <1>2, <2>2, <3>1
      <4> QED
        BY <1>2, <2>1, <3>1, <4>1
    <3>2. CASE ~(j < i)
      <4>1. ~(j <= Len(a)) /\ j - Len(a) = j - i + 1
        BY <1>1, <1>2, <2>2, <3>2
      <4> QED
        BY <2>1, <3>2, <4>1
    <3> QED
      BY <3>1, <3>2
  <2> QED
    BY <2>1, <2>2, <2>3
<1>5. /\ c \in Seq(T) /\ Len(c) = Len(b) + 1
      /\ \A j \in 1..(Len(b) + 1) : c[j] = IF j <= Len(b) THEN b[j] ELSE None
  <2>1. <<None>> \in Seq(T) /\ Len(<<None>>) = 1 /\ <<None>>[1] = None
    OBVIOUS
  <2>2. Len(b) \in Nat
    BY <1>4
  <2> HIDE DEF b
  <2>3. /\ c \in Seq(T) /\ Len(c) = Len(b) + Len(<<None>>)
        /\ \A j \in 1..(Len(b) + Len(<<None>>)) :
             c[j] = IF j <= Len(b) THEN b[j] ELSE <<None>>[j - Len(b)]
    BY <1>4, <2>1, ConcatProperties
  <2> HIDE DEF c
  <2>4. \A j \in 1..(Len(b) + 1) : j <= Len(b) \/ j - Len(b) = 1
    BY <2>2
  <2> QED
    BY <2>1, <2>3, <2>4
<1> HIDE DEF b, c
<1>6. /\ r \in Seq(T) /\ Len(r) = Len(c) + Len(d)
      /\ \A j \in 1..(Len(c) + Len(d)) : r[j] = IF j <= Len(c) THEN c[j] ELSE d[j - Len(c)]
  BY <1>3, <1>5, ConcatProperties
<1> HIDE DEF r
<1>7. Len(c) = i + Len(new) /\ Len(r) = Len(q) + Len(new)
  BY <1>1, <1>3, <1>4, <1>5, <1>6
<1>8. ASSUME NEW j \in 1..Len(r)
      PROVE  r[j] = IF j < i THEN q[j]
                    ELSE IF j < i + Len(new) THEN new[j - i + 1]
                    ELSE IF j = i + Len(new) THEN None ELSE q[j - Len(new)]
  <2>1. CASE j < i + Len(new)
    <3>1. j \in 1..Len(b) /\ j <= Len(c) /\ j \in 1..(Len(b) + 1) /\ j \in 1..(Len(c) + Len(d))
      BY <1>1, <1>3, <1>4, <1>7, <2>1
    <3>2. r[j] = b[j]
      BY <1>5, <1>6, <3>1
    <3> QED
      BY <1>4, <2>1, <3>1, <3>2
  <2>2. CASE j = i + Len(new)
    <3>1. j <= Len(c) /\ ~(j <= Len(b)) /\ j \in 1..(Len(b) + 1) /\ j \in 1..(Len(c) + Len(d))
      BY <1>1, <1>3, <1>4, <1>7, <2>2
    <3>2. r[j] = None /\ ~(j < i)
      BY <1>1, <1>5, <1>6, <2>2, <3>1
    <3> QED
      BY <1>1, <2>2, <3>2
  <2>3. CASE j > i + Len(new)
    <3>1. /\ ~(j <= Len(c)) /\ j \in 1..(Len(c) + Len(d))
          /\ j - Len(c) \in 1..(Len(q) - i) /\ i + (j - Len(c)) = j - Len(new)
      BY <1>1, <1>3, <1>6, <1>7, <2>3
    <3>2. r[j] = q[j - Len(new)]
      BY <1>3, <1>6, <3>1
    <3> QED
      BY <1>1, <2>3, <3>2
  <2> QED
    BY <1>1, <2>1, <2>2, <2>3
<1>9. r = InsertTokens(q, i, new)
  BY DEF InsertTokens, a, b, c, d, r
<1> QED
  BY <1>6, <1>7, <1>8, <1>9

-----------------------------------------------------------------------------
(* The table grows *)

\* Items stay, and only a macro's item is ever ignored.
TableGrows ==
  /\ Len(table') >= Len(table)
  /\ \A i \in 1..Len(table) :
       /\ table'[i].name = table[i].name
       /\ table[i].once => table'[i].once
       /\ table[i].name \in FileNames => table'[i].ignore = table[i].ignore

\* What a lookup finds, of every name.
Finds ==
  \A name :
    /\ Lookup(name) \in 0..Len(table)
    /\ Lookup(name) # 0 => /\ table[Lookup(name)].name = name
                          /\ ~table[Lookup(name)].ignore
                          /\ \A i \in 1..(Lookup(name) - 1) :
                               table[i].name # name \/ table[i].ignore
    /\ Lookup(name) = 0 => \A i \in 1..Len(table) : table[i].name # name \/ table[i].ignore

\* Before a step.
LEMMA FindsNow == ITypes => Finds
BY LookupFacts DEF Finds

\* After a step.
LEMMA FindsAfter == ITypes' => Finds'
BY FindsNow, PTL

\* What is done stays done: a file included only once is so for good.
LEMMA StaysDone ==
  ASSUME ITypes, ITypes', ITable, TableGrows, skipped => skipped',
         NEW t \in TokenSet, ~Pending(t)
  PROVE  ~Pending(t)'
<1>1. CASE skipped \/ Kind(t) # "include"
  BY <1>1 DEF Pending, Directive
<1>2. CASE ~skipped /\ Kind(t) = "include"
  <2> DEFINE name == t[2]
             l == Lookup(name)
             k == Lookup(name)'
  <2>1. name \in FileNames /\ Once(name)
    BY <1>2, TokenKinds DEF Pending, Directive
  <2> HIDE DEF name
  <2>2. Len(table) \in Nat /\ Len(table') \in Nat
    BY DEF ITypes
  <2>3. /\ l \in 1..Len(table) /\ table[l].once
        /\ table[l].name = name /\ ~table[l].ignore
        /\ \A i \in 1..(l - 1) : table[i].name # name \/ table[i].ignore
    BY <2>1, <2>2, FindsNow DEF Finds, Once
  <2>4. /\ k \in 0..Len(table')
        /\ k # 0 => /\ table'[k].name = name /\ ~table'[k].ignore
                   /\ \A i \in 1..(k - 1) : table'[i].name # name \/ table'[i].ignore
        /\ k = 0 => \A i \in 1..Len(table') : table'[i].name # name \/ table'[i].ignore
    BY FindsAfter DEF Finds
  <2> HIDE DEF l, k
  <2>5. /\ l \in 1..Len(table') /\ table'[l].once
        /\ table'[l].name = name /\ ~table'[l].ignore
        /\ \A i \in 1..(l - 1) : table'[i].name # name
    <3>1. l \in 1..Len(table') /\ table'[l].once /\ table'[l].name = name /\ ~table'[l].ignore
      BY <2>1, <2>2, <2>3 DEF TableGrows
    <3>2. \A i \in 1..(l - 1) : table'[i].name # name
      <4>1. \A i \in 1..(l - 1) : i \in 1..Len(table)
        BY <2>2, <2>3
      <4> QED
        BY <2>1, <2>3, <4>1 DEF TableGrows, ITable
    <3> QED
      BY <3>1, <3>2
  <2>6. k = l
    <3>1. k # 0
      BY <2>4, <2>5
    <3>2. ~(k < l)
      <4>1. k < l => k \in 1..(l - 1)
        BY <2>2, <2>3, <2>4, <3>1
      <4> QED
        BY <2>4, <2>5, <3>1, <4>1
    <3>3. ~(l < k)
      <4>1. l < k => l \in 1..(k - 1)
        BY <2>2, <2>3, <2>4, <3>1
      <4> QED
        BY <2>4, <2>5, <3>1, <4>1
    <3> QED
      BY <2>2, <2>3, <2>4, <3>2, <3>3
  <2>7. Once(name)'
    BY <2>3, <2>5, <2>6 DEF Once, k
  <2> QED
    BY <1>2, <2>7 DEF Pending, Directive, name
<1> QED
  BY <1>1, <1>2

\* A new item keeps what is in the table.
LEMMA ItemAdded ==
  ASSUME ITypes, ITable, NEW item \in Items, ~item.ignore,
         table' = Append(table, item)
  PROVE  table' \in Seq(Items) /\ ITable' /\ TableGrows
<1>1. /\ table' \in Seq(Items) /\ Len(table') = Len(table) + 1
      /\ \A i \in 1..Len(table) : table'[i] = table[i]
      /\ table'[Len(table) + 1] = item
  BY AppendProperties DEF ITypes
<1>2. Len(table) \in Nat
  BY DEF ITypes
<1>3. TableGrows
  BY <1>1, <1>2 DEF TableGrows
<1>4. ITable'
  <2>1. \A i \in 1..Len(table') : i \in 1..Len(table) \/ i = Len(table) + 1
    BY <1>1, <1>2
  <2> QED
    BY <1>1, <2>1 DEF ITable
<1> QED
  BY <1>1, <1>3, <1>4

\* So does an item that is changed, if its name stays and only a macro is
\* ignored.
LEMMA ItemChanged ==
  ASSUME ITypes, ITable, NEW i \in 1..Len(table), NEW item \in Items,
         item.name = table[i].name, table[i].once => item.once,
         item.ignore = table[i].ignore \/ item.name \notin FileNames,
         table' = [table EXCEPT ![i] = item]
  PROVE  table' \in Seq(Items) /\ ITable' /\ TableGrows
<1>1. /\ table' \in Seq(Items) /\ Len(table') = Len(table)
      /\ \A j \in 1..Len(table) : table'[j] = IF j = i THEN item ELSE table[j]
  BY ExceptSeq DEF ITypes
<1>2. Len(table) \in Nat
  BY DEF ITypes
<1>3. TableGrows
  BY <1>1, <1>2 DEF TableGrows
<1>4. ITable'
  BY <1>1 DEF ITable
<1> QED
  BY <1>1, <1>3, <1>4

\* An unchanged table.
LEMMA TableSame ==
  ASSUME ITypes, ITable, table' = table
  PROVE  table' \in Seq(Items) /\ ITable' /\ TableGrows
<1>1. table' \in Seq(Items) /\ Len(table) \in Nat
  BY DEF ITypes
<1>2. TableGrows
  BY <1>1 DEF TableGrows
<1> QED
  BY <1>1, <1>2 DEF ITable

-----------------------------------------------------------------------------
(* The walk goes on *)

\* The file that is being read.
LEMMA TopFile ==
  ASSUME ITypes
  PROVE  /\ Len(files) \in Nat \ {0} /\ Len(files) \in 1..Len(files)
         /\ File = files[Len(files)] /\ File \in Calls
         /\ Tokens \in Seq(TokenSet) /\ Index \in Nat
         /\ \A i \in 1..Len(files) : files[i] \in Calls
<1>1. files \in Seq(Calls) /\ files # << >>
  BY DEF ITypes
<1>2. Len(files) \in Nat \ {0}
  <2> HIDE DEF Calls
  <2> QED
    BY <1>1, EmptySeq
<1>3. \A i \in 1..Len(files) : files[i] \in Calls
  <2> HIDE DEF Calls
  <2> QED
    BY <1>1, ElementOfSeq
<1>4. File = files[Len(files)] /\ Len(files) \in 1..Len(files)
  BY <1>2 DEF File, Last
<1>5. File \in Calls
  BY <1>3, <1>4
<1>6. Tokens \in Seq(TokenSet) /\ Index \in Nat
  BY <1>5 DEF Calls, Tokens, Index
<1> QED
  BY <1>2, <1>3, <1>4, <1>5, <1>6

\* Continue replaces the file on top.
LEMMA Continued ==
  ASSUME ITypes, NEW tokens \in Seq(TokenSet), NEW index \in Nat, Continue(tokens, index)
  PROVE  /\ files' \in Seq(Calls) /\ files' # << >> /\ Len(files') = Len(files)
         /\ \A i \in 1..(Len(files) - 1) : files'[i] = files[i]
         /\ files'[Len(files)] = [tokens |-> tokens, index |-> index + 1, item |-> File.item]
<1> DEFINE new == [tokens |-> tokens, index |-> index + 1, item |-> File.item]
           front == SubSeq(files, 1, Len(files) - 1)
<1>1. files' = Append(front, new)
  BY DEF Continue, Front
<1>2. new \in Calls
  BY TopFile DEF Calls
<1>3. /\ front \in Seq(Calls) /\ Len(front) = Len(files) - 1
      /\ \A i \in 1..(Len(files) - 1) : front[i] = files[i]
  <2>1. Len(files) \in Nat \ {0} /\ \A i \in 1..(Len(files) - 1) : files[i] \in Calls
    BY TopFile
  <2>2. PICK n \in Nat : n = Len(files) - 1
    <3>1. Len(files) - 1 \in Nat
      BY <2>1
    <3> QED
      BY <3>1
  <2>3. /\ front \in Seq(Calls) /\ Len(front) = IF 1 <= n THEN n - 1 + 1 ELSE 0
        /\ \A i \in 1..(n - 1 + 1) : front[i] = files[1 + i - 1]
    <3>1. front = SubSeq(files, 1, n) /\ \A i \in 1..n : files[i] \in Calls
      BY <2>1, <2>2
    <3> HIDE DEF Calls, front
    <3> QED
      BY <3>1, SubSeqProperties
  <2>4. n - 1 + 1 = n /\ \A i \in 1..n : 1 + i - 1 = i
    OBVIOUS
  <2> HIDE DEF Calls, front
  <2> QED
    BY <2>2, <2>3, <2>4
<1> HIDE DEF front, new
<1>4. /\ files' \in Seq(Calls) /\ files' # << >> /\ Len(files') = Len(front) + 1
      /\ \A i \in 1..Len(front) : files'[i] = front[i]
      /\ files'[Len(front) + 1] = new
  <2> HIDE DEF Calls
  <2> QED
    BY <1>1, <1>2, <1>3, AppendProperties
<1>5. (Len(files) - 1) + 1 = Len(files)
  BY TopFile
<1> QED
  BY <1>3, <1>4, <1>5 DEF new

\* Tokens that were passed in their files before are passed after the step.
LEMMA PassedBefore ==
  ASSUME IInv, NEW i \in 1..Len(files), NEW j \in 1..Len(files[i].tokens), j < files[i].index
  PROVE  files[i].tokens[j] \in TokenSet /\ ~Pending(files[i].tokens[j])
<1>1. files[i] \in Calls
  BY TopFile DEF IInv
<1>2. files[i].tokens \in Seq(TokenSet)
  BY <1>1 DEF Calls
<1>3. files[i].tokens[j] \in TokenSet
  BY <1>2, ElementOfSeq
<1> QED
  BY <1>3 DEF IInv, IPassed, PassedRight

\* Nothing is pending in front of the positions after a step that leaves
\* nothing pending there, as the table only grows.
LEMMA PassedAfter ==
  ASSUME IInv, ITypes', TableGrows, skipped => skipped',
         \A i \in 1..Len(files') : \A j \in 1..Len(files'[i].tokens) :
           j < files'[i].index => files'[i].tokens[j] \in TokenSet /\ ~Pending(files'[i].tokens[j])
  PROVE  IPassed'
<1> SUFFICES ASSUME NEW i \in 1..Len(files'),
                    NEW j \in 1..Len(files'[i].tokens), j < files'[i].index
             PROVE  ~Pending(files[i].tokens[j])'
  BY DEF IPassed, PassedRight
<1>1. PICK t \in TokenSet : t = files'[i].tokens[j] /\ ~Pending(t)
  OBVIOUS
<1>2. ~Pending(t)'
  BY <1>1, StaysDone DEF IInv
<1> QED
  BY <1>1, <1>2 DEF Pending, Directive, Once, Lookup

(***************************************************************************)
(* A step that goes on in the same file keeps the invariant if nothing in  *)
(* front of the new position is pending, or the walk is sent past it.      *)
(***************************************************************************)
LEMMA GoesOn ==
  ASSUME IInv, phase = "run",
         NEW tokens \in Seq(TokenSet), NEW index \in Nat, Continue(tokens, index),
         skipped => skipped', skipped' \in BOOLEAN,
         skipped' \/ \A j \in 1..Len(tokens) : j <= index => ~Pending(tokens[j]),
         table' \in Seq(Items), ITable', TableGrows,
         UNCHANGED <<main, headers, phase, output>>
  PROVE  IInv'
<1>1. ITypes
  BY DEF IInv
<1> DEFINE top == [tokens |-> tokens, index |-> index + 1, item |-> File.item]
<1>2. /\ files' \in Seq(Calls) /\ files' # << >> /\ Len(files') = Len(files)
      /\ \A i \in 1..(Len(files) - 1) : files'[i] = files[i]
      /\ files'[Len(files)] = top
  BY <1>1, Continued
<1>3. ITypes'
  BY <1>1, <1>2 DEF ITypes
<1>4. /\ Len(files) \in Nat \ {0} /\ File = files[Len(files)]
      /\ \A i \in 1..Len(files) : files[i] \in Calls
      /\ Len(tokens) \in Nat
      /\ \A i \in 1..Len(files) : i \in 1..(Len(files) - 1) \/ i = Len(files)
      /\ \A i \in 1..(Len(files) - 1) : i \in 1..Len(files)
  BY <1>1, TopFile
<1>5. Len(table) \in Nat /\ Len(table') \in Nat /\ Len(table') >= Len(table)
  BY <1>1, <1>3 DEF TableGrows, ITypes
<1>6. IPlaces'
  <2>1. \A i \in 1..Len(files) : PlaceRight(files[i], Len(table))
    BY DEF IInv, IPlaces
  <2>2. PlaceRight(top, Len(table'))
    <3>1. File.item \in 1..Len(table)
      BY <1>4, <2>1 DEF PlaceRight
    <3> QED
      BY <1>4, <1>5, <3>1 DEF PlaceRight
  <2>3. ASSUME NEW i \in 1..(Len(files) - 1)
        PROVE  PlaceRight(files'[i], Len(table')) /\ files'[i].index <= Len(files'[i].tokens)
    <3>1. PlaceRight(files[i], Len(table)) /\ files[i].index <= Len(files[i].tokens)
      BY <1>4, <2>1 DEF IInv, IPlaces
    <3>2. files'[i] = files[i]
      BY <1>2
    <3> QED
      BY <1>5, <3>1, <3>2 DEF PlaceRight
  <2>4. \A i \in 1..Len(files) : PlaceRight(files'[i], Len(table'))
    <3> HIDE DEF top
    <3> QED
      BY <1>2, <1>4, <2>2, <2>3
  <2> QED
    BY <1>2, <2>3, <2>4 DEF IPlaces
<1>7. IOutput'
  BY DEF IOutput
<1>8. CASE ~skipped'
  <2>1. ASSUME NEW i \in 1..Len(files'), NEW j \in 1..Len(files'[i].tokens),
               j < files'[i].index
        PROVE  files'[i].tokens[j] \in TokenSet /\ ~Pending(files'[i].tokens[j])
    <3>1. CASE i \in 1..(Len(files) - 1)
      <4>1. files'[i] = files[i] /\ i \in 1..Len(files)
        BY <1>2, <1>4, <3>1
      <4> QED
        BY <2>1, <4>1, PassedBefore
    <3>2. CASE i = Len(files)
      <4>1. files'[i].tokens = tokens /\ files'[i].index = index + 1
        BY <1>2, <3>2
      <4>2. j \in 1..Len(tokens) /\ j <= index
        BY <1>4, <2>1, <4>1
      <4> QED
        BY <1>8, <4>1, <4>2, ElementOfSeq
    <3> QED
      BY <1>2, <1>4, <3>1, <3>2
  <2>2. IPassed'
    BY <1>3, <2>1, PassedAfter
  <2> QED
    BY <1>3, <1>6, <1>7, <2>2 DEF IInv
<1>9. CASE skipped'
  <2>1. IPassed'
    BY <1>9 DEF IPassed, PassedRight, Pending
  <2> QED
    BY <1>3, <1>6, <1>7, <2>1 DEF IInv
<1> QED
  BY <1>8, <1>9

-----------------------------------------------------------------------------
(* The invariant is inductive *)

\* At the start nothing has been passed.
LEMMA InitIInv == Init => IInv
<1> SUFFICES ASSUME Init
             PROVE  IInv
  OBVIOUS
<1> DEFINE item == [type |-> "define", name |-> "CCIC", once |-> FALSE, value |-> << >>,
                    ignore |-> FALSE]
           top == [tokens |-> Append(main, EndOfFile), index |-> 1, item |-> 1]
<1>1. main \in MainFiles /\ headers \in HeaderSets /\ table = <<item>> /\ files = <<top>>
      /\ phase = "run" /\ output = << >> /\ skipped = FALSE
  BY DEF Init, Item
<1>2. main \in Seq(TokenSet) /\ EndOfFile \in TokenSet
  <2>1. main \in Seq(Written)
    BY <1>1, FileTokens DEF AllFiles
  <2> QED
    BY <2>1, SeqMonotonic DEF TokenSet
<1>3. top.tokens \in Seq(TokenSet) /\ Len(top.tokens) \in Nat
  BY <1>2, AppendProperties, LenProperties
<1>4. top \in Calls
  BY <1>3 DEF Calls
<1>5. item \in Items
  BY EmptySeq DEF Items
<1> HIDE DEF top
<1>6. top.index = 1 /\ top.item = 1
  BY DEF top
<1>7. ITypes
  <2> HIDE DEF item
  <2> QED
    <3>1. skipped \in BOOLEAN
      BY <1>1
    <3> QED
      BY <1>1, <1>4, <1>5, <3>1 DEF ITypes
<1>8. \A i \in 1..Len(files) : files[i] = top
  BY <1>1
<1>9. Len(table) = 1 /\ table[1] = item /\ Len(files) = 1
  BY <1>1
<1>10. ITable
  BY <1>9 DEF ITable
<1>11. IPlaces
  BY <1>3, <1>6, <1>8, <1>9 DEF IPlaces, PlaceRight
<1>12. IPassed
  BY <1>6, <1>8 DEF IPassed, PassedRight
<1>13. IOutput
  BY <1>1 DEF IOutput
<1> QED
  BY <1>7, <1>10, <1>11, <1>12, <1>13 DEF IInv

\* What is known when the walk is at a token.
LEMMA AtToken ==
  ASSUME IInv, Busy
  PROVE  /\ phase = "run" /\ ITypes /\ ITable
         /\ Tokens \in Seq(TokenSet) /\ Len(Tokens) \in Nat
         /\ Index \in Nat /\ Index \in 1..Len(Tokens)
         /\ Token = Tokens[Index] /\ Token \in TokenSet
         /\ \A j \in 1..Len(Tokens) : Tokens[j] \in TokenSet
         /\ \A j \in 1..Len(Tokens) : j < Index => ~Pending(Tokens[j])
         /\ File.item \in 1..Len(table)
<1>1. ITypes /\ ITable
  BY DEF IInv
<1>2. /\ Len(files) \in 1..Len(files) /\ File = files[Len(files)]
      /\ Tokens \in Seq(TokenSet) /\ Index \in Nat
  BY <1>1, TopFile
<1>3. PlaceRight(File, Len(table)) /\ PassedRight(File)
  BY <1>2 DEF IInv, IPlaces, IPassed
<1>4. Len(Tokens) \in Nat /\ \A j \in 1..Len(Tokens) : Tokens[j] \in TokenSet
  BY <1>2, ElementOfSeq, LenProperties
<1>5. Index \in 1..Len(Tokens) /\ File.item \in 1..Len(table)
  BY <1>2, <1>3, <1>4 DEF PlaceRight, Busy, Index, Tokens
<1>6. \A j \in 1..Len(Tokens) : j < Index => ~Pending(Tokens[j])
  BY <1>3 DEF PassedRight, Index, Tokens
<1> QED
  BY <1>1, <1>2, <1>4, <1>5, <1>6 DEF Busy, Token

\* The vector with the token at the position blanked.
LEMMA Blanked ==
  ASSUME IInv, Busy
  PROVE  LET q == [Tokens EXCEPT ![Index] = None]
         IN /\ q \in Seq(TokenSet) /\ Len(q) = Len(Tokens)
            /\ \A j \in 1..Len(q) : j <= Index => ~Pending(q[j])
            /\ \A j \in 1..Len(q) : q[j] = None \/ q[j] = Tokens[j]
<1>1. None \in TokenSet /\ ~Pending(None)
  BY DEF TokenSet, Words, Pending, Directive, None, Kind
<1> DEFINE q == [Tokens EXCEPT ![Index] = None]
<1>2. /\ q \in Seq(TokenSet) /\ Len(q) = Len(Tokens)
      /\ \A j \in 1..Len(Tokens) : q[j] = IF j = Index THEN None ELSE Tokens[j]
  BY <1>1, AtToken, ExceptSeq
<1> HIDE DEF q
<1>3. \A j \in 1..Len(q) : j <= Index => ~Pending(q[j])
  <2>1. ASSUME NEW j \in 1..Len(q), j <= Index
        PROVE  ~Pending(q[j])
    <3>1. CASE j = Index
      BY <1>1, <1>2, <3>1
    <3>2. CASE j # Index
      <4>1. j < Index /\ j \in 1..Len(Tokens)
        BY <1>2, <2>1, <3>2, AtToken
      <4>2. ~Pending(Tokens[j])
        BY <4>1, AtToken
      <4> QED
        BY <1>2, <3>2, <4>1, <4>2
    <3> QED
      BY <3>1, <3>2
  <2> QED
    BY <2>1
<1>4. \A j \in 1..Len(q) : q[j] = None \/ q[j] = Tokens[j]
  BY <1>2
<1> QED
  BY <1>2, <1>3, <1>4 DEF q

\* A token that is no directive, or a file not to be included again, is passed.
LEMMA PassToken ==
  ASSUME IInv, Busy, ~Pending(Token), Continue(Tokens, Index),
         table' \in Seq(Items), ITable', TableGrows,
         UNCHANGED <<main, headers, phase, output, skipped>>
  PROVE  IInv'
<1>1. \A j \in 1..Len(Tokens) : j <= Index => ~Pending(Tokens[j])
  <2>1. ASSUME NEW j \in 1..Len(Tokens), j <= Index
        PROVE  ~Pending(Tokens[j])
    <3>1. j = Index \/ j < Index
      BY <2>1, AtToken
    <3> QED
      BY <3>1, AtToken
  <2> QED
    BY <2>1
<1>2. skipped \in BOOLEAN
  BY DEF IInv, ITypes
<1> QED
  BY <1>1, <1>2, AtToken, GoesOn

\* What the walk may pass is no directive.
LEMMA NothingPending ==
  ASSUME NEW t, NothingToDo(t)
  PROVE  ~Pending(t)
BY DEF NothingToDo, Pending, Directive

\* Skip
LEMMA SkipIInv ==
  ASSUME IInv, Skip
  PROVE  IInv'
<1>1. Busy /\ Continue(Tokens, Index) /\ UNCHANGED <<main, headers, table, phase, output, skipped>>
  BY DEF Skip
<1>2. ~Pending(Token)
  BY NothingPending DEF Skip
<1>3. table' \in Seq(Items) /\ ITable' /\ TableGrows
  BY <1>1, AtToken, TableSame
<1> QED
  BY <1>1, <1>2, <1>3, PassToken

\* A file that is not to be included again.
LEMMA SkipIncludeIInv ==
  ASSUME IInv, SkipInclude
  PROVE  IInv'
<1>1. Busy /\ Continue(Tokens, Index) /\ UNCHANGED <<main, headers, table, phase, output, skipped>>
  BY DEF SkipInclude
<1>2. ~Pending(Token)
  BY DEF SkipInclude, Pending, Directive
<1>3. table' \in Seq(Items) /\ ITable' /\ TableGrows
  BY <1>1, AtToken, TableSame
<1> QED
  BY <1>1, <1>2, <1>3, PassToken

\* A macro's name is replaced by its value, which holds no directive.
LEMMA PreprocessIdentIInv ==
  ASSUME IInv, PreprocessIdent
  PROVE  IInv'
<1> DEFINE l == Lookup(Token[2])
           value == table[l].value
           q == InsertTokens(Tokens, Index, value)
<1>1. /\ Busy /\ l # 0 /\ Continue(q, Index + Len(value))
      /\ UNCHANGED <<main, headers, table, phase, output, skipped>>
  BY DEF PreprocessIdent
<1>2. value \in Seq(Words) /\ Len(value) \in Nat
  <2>1. table[l] \in Items
    BY <1>1, LookupFacts DEF IInv
  <2>2. value \in Seq(Words)
    BY <2>1 DEF Items
  <2> HIDE DEF value
  <2> QED
    BY <2>2, LenProperties
<1> HIDE DEF value
<1>3. \A k \in 1..Len(value) : ~Pending(value[k])
  <2>1. ASSUME NEW k \in 1..Len(value)
        PROVE  ~Pending(value[k])
    <3>1. value[k] \in Words
      BY <1>2, ElementOfSeq
    <3>2. value[k] = None \/ Kind(value[k]) \in {"ident", "lit"}
      BY <3>1, WordKinds
    <3> QED
      BY <3>2 DEF Pending, Directive, None, Kind
  <2> QED
    BY <2>1
<1>4. None \in TokenSet /\ value \in Seq(TokenSet) /\ ~Pending(None)
  <2>1. None \in TokenSet /\ Words \subseteq TokenSet
    BY DEF TokenSet, Words
  <2>2. value \in Seq(TokenSet)
    BY <1>2, <2>1, SeqMonotonic
  <2> QED
    BY <2>1, <2>2 DEF Pending, Directive, None, Kind
<1>5. /\ q \in Seq(TokenSet) /\ Len(q) = Len(Tokens) + Len(value)
      /\ \A j \in 1..Len(q) :
           q[j] = IF j < Index THEN Tokens[j]
                  ELSE IF j < Index + Len(value) THEN value[j - Index + 1]
                  ELSE IF j = Index + Len(value) THEN None ELSE Tokens[j - Len(value)]
  BY <1>1, <1>4, AtToken, Inserted
<1> HIDE DEF q
<1>6. \A j \in 1..Len(q) : j <= Index + Len(value) => ~Pending(q[j])
  <2>1. ASSUME NEW j \in 1..Len(q), j <= Index + Len(value)
        PROVE  ~Pending(q[j])
    <3>1. CASE j < Index
      <4>1. j \in 1..Len(Tokens)
        BY <1>1, <3>1, AtToken
      <4>2. ~Pending(Tokens[j])
        BY <1>1, <3>1, <4>1, AtToken
      <4> QED
        BY <1>5, <3>1, <4>2
    <3>2. CASE ~(j < Index) /\ j < Index + Len(value)
      <4>1. j - Index + 1 \in 1..Len(value)
        BY <1>1, <1>2, <3>2, AtToken
      <4> QED
        BY <1>3, <1>5, <3>2, <4>1
    <3>3. CASE j = Index + Len(value)
      <4>1. ~(j < Index) /\ ~(j < Index + Len(value))
        BY <1>1, <1>2, <3>3, AtToken
      <4>2. q[j] = None
        BY <1>5, <3>3, <4>1
      <4> QED
        BY <1>4, <4>2
    <3>4. (j < Index + Len(value)) \/ j = Index + Len(value)
      BY <1>1, <1>2, <2>1, AtToken
    <3> QED
      BY <3>1, <3>2, <3>3, <3>4
  <2> QED
    BY <2>1
<1>7. Index + Len(value) \in Nat /\ skipped \in BOOLEAN
  BY <1>1, <1>2, AtToken DEF ITypes
<1>8. table' \in Seq(Items) /\ ITable' /\ TableGrows
  BY <1>1, AtToken, TableSame
<1> QED
  BY <1>1, <1>5, <1>6, <1>7, <1>8, AtToken, GoesOn

\* The definition is blanked; the walk goes back, or on behind it.
LEMMA PreprocessDefineIInv ==
  ASSUME IInv, PreprocessDefine
  PROVE  IInv'
<1> DEFINE value == Expanded(Token[3])
           new == Item("define", Token[2], FALSE, value)
           q == [Tokens EXCEPT ![Index] = None]
           index == IF value = << >> THEN Index ELSE Len(value)
<1>1. /\ Busy /\ Kind(Token) = "define" /\ Continue(q, index)
      /\ table' = Append(table, new) /\ skipped' = (skipped \/ JumpsOver(value))
      /\ UNCHANGED <<main, headers, phase, output>>
  BY DEF PreprocessDefine
<1>2. ITypes /\ ITable /\ phase = "run" /\ Index \in Nat /\ skipped \in BOOLEAN
  BY <1>1, AtToken DEF ITypes
<1>3. Token[2] \in Names /\ Token[3] \in Seq(Words)
  <2>1. Token \in Written
    BY <1>1, AtToken, TokenKinds
  <2> QED
    BY <1>1, <2>1, ValueOfDefine
<1>4. value \in Seq(Words) /\ Len(value) \in Nat
  <2>1. value \in Seq(Words)
    BY <1>2, <1>3, ExpandedWords
  <2> HIDE DEF value
  <2> QED
    BY <2>1, LenProperties
<1> HIDE DEF value
<1>5. index \in Nat /\ (index <= Index \/ index = Len(value))
  BY <1>2, <1>4
<1>6. /\ q \in Seq(TokenSet) /\ Len(q) = Len(Tokens)
      /\ \A j \in 1..Len(q) : j <= Index => ~Pending(q[j])
      /\ \A j \in 1..Len(q) : q[j] = None \/ q[j] = Tokens[j]
  BY <1>1, Blanked
<1>7. table' \in Seq(Items) /\ ITable' /\ TableGrows
  <2>1. new \in Items /\ ~new.ignore
    BY <1>3, <1>4 DEF Item, Items
  <2> HIDE DEF new
  <2> QED
    BY <1>1, <1>2, <2>1, ItemAdded
<1> HIDE DEF q, index, new
<1>8. skipped' \/ \A j \in 1..Len(q) : j <= index => ~Pending(q[j])
  <2> SUFFICES ASSUME ~JumpsOver(value), NEW j \in 1..Len(q), j <= index
               PROVE  ~Pending(q[j])
    BY <1>1, <1>2
  <2>1. CASE j <= Index
    BY <1>6, <2>1
  <2>2. CASE ~(j <= Index)
    <3>1. Index < j /\ j <= Len(value) /\ j \in 1..Len(Tokens)
      BY <1>2, <1>4, <1>5, <1>6, <2>2
    <3>2. NothingToDo(Tokens[j])
      BY <3>1 DEF JumpsOver
    <3>3. ~Pending(Tokens[j]) /\ ~Pending(None)
      BY <3>2, NothingPending DEF NothingToDo, None, Kind
    <3> QED
      BY <1>6, <3>3
  <2> QED
    BY <2>1, <2>2
<1>9. skipped' \in BOOLEAN /\ (skipped => skipped')
  BY <1>1, <1>2 DEF JumpsOver
<1> QED
  BY <1>1, <1>2, <1>5, <1>6, <1>7, <1>8, <1>9, GoesOn

\* An #undef ignores the item of a macro.
LEMMA PreprocessUndefIInv ==
  ASSUME IInv, PreprocessUndef
  PROVE  IInv'
<1> DEFINE l == Lookup(Token[2])
           q == [Tokens EXCEPT ![Index] = None]
<1>1. /\ Busy /\ Kind(Token) = "undef" /\ Continue(q, Index)
      /\ table' = IF l = 0 THEN table ELSE [table EXCEPT ![l].ignore = TRUE]
      /\ UNCHANGED <<main, headers, phase, output, skipped>>
  BY DEF PreprocessUndef, Consume
<1>2. ITypes /\ ITable /\ phase = "run" /\ Index \in Nat /\ skipped \in BOOLEAN
  BY <1>1, AtToken DEF ITypes
<1>3. Token[2] \in Names /\ Token[2] \notin FileNames
  <2>1. Token[2] \in Names
    BY <1>1, AtToken, TokenKinds
  <2> QED
    BY <2>1, FilesAssumption
<1>4. table' \in Seq(Items) /\ ITable' /\ TableGrows
  <2>1. CASE l = 0
    BY <1>1, <1>2, <2>1, TableSame
  <2>2. CASE l # 0
    <3> DEFINE new == [table[l] EXCEPT !.ignore = TRUE]
    <3>1. l \in 1..Len(table) /\ table[l] \in Items /\ table[l].name = Token[2]
      <4>1. Len(table) \in Nat
        BY <1>2 DEF ITypes
      <4> QED
        BY <1>2, <2>2, <4>1, LookupFacts
    <3> HIDE DEF l
    <3>2. new \in Items /\ new.name = table[l].name /\ new.once = table[l].once
      BY <3>1 DEF Items
    <3>3. table' = [table EXCEPT ![l] = new]
      BY <1>1, <2>2
    <3> HIDE DEF new
    <3> QED
      BY <1>2, <1>3, <3>1, <3>2, <3>3, ItemChanged
  <2> QED
    BY <2>1, <2>2
<1>5. /\ q \in Seq(TokenSet) /\ Len(q) = Len(Tokens)
      /\ \A j \in 1..Len(q) : j <= Index => ~Pending(q[j])
  BY <1>1, Blanked
<1> HIDE DEF q
<1> QED
  BY <1>1, <1>2, <1>4, <1>5, GoesOn

\* The directives of a conditional are blanked, or all that is between them.
LEMMA PreprocessIfIInv ==
  ASSUME IInv, PreprocessIf
  PROVE  IInv'
<1> DEFINE end == ScanForEndif
           ends == {i \in Index..Len(Tokens) : Depth(i) = 0}
           taken == (Lookup(Token[2]) # 0) = (Kind(Token) = "ifdef")
           blanked == IF taken THEN {Index, end} ELSE Index..end
           q == [i \in 1..Len(Tokens) |-> IF i \in blanked THEN None ELSE Tokens[i]]
<1>1. /\ Busy /\ end # 0 /\ Continue(q, Index)
      /\ UNCHANGED <<main, headers, table, phase, output, skipped>>
  BY DEF PreprocessIf
<1>2. /\ ITypes /\ ITable /\ phase = "run" /\ Index \in Nat /\ Index <= Len(Tokens)
      /\ skipped \in BOOLEAN
  BY <1>1, AtToken DEF ITypes
<1>3. Index \in blanked
  <2>1. end = IF ends = {} THEN 0 ELSE Min(ends)
    BY DEF ScanForEndif
  <2>2. ends # {} /\ end = Min(ends)
    BY <1>1, <2>1
  <2>3. PICK m \in ends : \A k \in ends : m <= k
    <3>1. ends \subseteq Nat
      BY <1>2
    <3> HIDE DEF ends
    <3> QED
      BY <2>2, <3>1, LeastNumber
  <2>4. Min(ends) \in ends
    <3> HIDE DEF ends
    <3> QED
      BY <2>3 DEF Min
  <2>5. end \in Index..Len(Tokens)
    BY <2>2, <2>4
  <2> HIDE DEF end, taken
  <2> QED
    BY <1>2, <2>5
<1> HIDE DEF blanked
<1>4. None \in TokenSet /\ ~Pending(None)
  BY DEF TokenSet, Words, Pending, Directive, None, Kind
<1>5. /\ Len(Tokens) \in Nat /\ \A j \in 1..Len(Tokens) : Tokens[j] \in TokenSet
      /\ \A j \in 1..Len(Tokens) : j < Index => ~Pending(Tokens[j])
  BY <1>1, AtToken
<1>6. q \in Seq(TokenSet) /\ Len(q) = Len(Tokens)
  BY <1>4, <1>5
<1>7. \A j \in 1..Len(q) : j <= Index => ~Pending(q[j])
  <2>1. ASSUME NEW j \in 1..Len(q), j <= Index
        PROVE  ~Pending(q[j])
    <3>1. j \in 1..Len(Tokens) /\ q[j] = IF j \in blanked THEN None ELSE Tokens[j]
      BY <1>6
    <3>2. j = Index \/ j < Index
      BY <1>2, <1>6, <2>1
    <3> HIDE DEF q
    <3> QED
      BY <1>3, <1>4, <1>5, <3>1, <3>2
  <2> QED
    BY <2>1
<1>8. table' \in Seq(Items) /\ ITable' /\ TableGrows
  BY <1>1, <1>2, TableSame
<1> HIDE DEF q
<1> QED
  BY <1>1, <1>2, <1>6, <1>7, <1>8, GoesOn

\* A #pragma once marks the file's item and adds one that is marked.
LEMMA PragmaOnceIInv ==
  ASSUME IInv, PragmaOnce
  PROVE  IInv'
<1> DEFINE l == File.item
           marked == [table[l] EXCEPT !.once = TRUE]
           t == [table EXCEPT ![l] = marked]
           new == Item("file", table[l].name, TRUE, << >>)
<1>1. /\ Busy /\ Kind(Token) = "once" /\ Continue(Tokens, Index)
      /\ table' = Append(t, new)
      /\ UNCHANGED <<main, headers, phase, output, skipped>>
  BY DEF PragmaOnce
<1>2. ITypes /\ ITable /\ l \in 1..Len(table) /\ Len(table) \in Nat
  BY <1>1, AtToken DEF ITypes
<1> HIDE DEF l
<1>3. table[l] \in Items
  BY <1>2, ElementOfSeq DEF ITypes
<1>4. /\ marked \in Items /\ marked.name = table[l].name /\ marked.ignore = table[l].ignore
      /\ marked.once
  BY <1>3 DEF Items
<1>5. new \in Items /\ ~new.ignore
  BY <1>3, EmptySeq DEF Items, Item
<1> HIDE DEF marked, new
<1>6. /\ t \in Seq(Items) /\ Len(t) = Len(table)
      /\ \A i \in 1..Len(table) : t[i] = IF i = l THEN marked ELSE table[i]
  BY <1>2, <1>4, ExceptSeq DEF ITypes
<1> HIDE DEF t
<1>7. /\ table' \in Seq(Items) /\ Len(table') = Len(table) + 1
      /\ \A i \in 1..Len(table) : table'[i] = IF i = l THEN marked ELSE table[i]
      /\ table'[Len(table) + 1] = new
  <2>1. /\ table' \in Seq(Items) /\ Len(table') = Len(t) + 1
        /\ \A i \in 1..Len(t) : table'[i] = t[i]
        /\ table'[Len(t) + 1] = new
    BY <1>1, <1>5, <1>6, AppendProperties
  <2> QED
    BY <1>6, <2>1
<1>8. TableGrows
  BY <1>2, <1>4, <1>7 DEF TableGrows
<1>9. ITable'
  <2>1. \A i \in 1..Len(table') : i \in 1..Len(table) \/ i = Len(table) + 1
    BY <1>2, <1>7
  <2> QED
    BY <1>2, <1>4, <1>5, <1>7, <2>1 DEF ITable
<1>10. ~Pending(Token)
  BY <1>1 DEF Pending, Directive
<1> QED
  BY <1>1, <1>7, <1>8, <1>9, <1>10, PassToken

\* The included file is read from its beginning; the other waits.
LEMMA PreprocessIncludeIInv ==
  ASSUME IInv, PreprocessInclude
  PROVE  IInv'
<1> DEFINE new == Item("file", Token[2], FALSE, << >>)
           tokens == Append(headers[Token[2]], EndOfFile)
           top == [tokens |-> tokens, index |-> 1, item |-> Len(table) + 1]
<1>1. /\ Busy /\ Kind(Token) = "include"
      /\ table' = Append(table, new) /\ files' = Append(files, top)
      /\ UNCHANGED <<main, headers, phase, output, skipped>>
  BY DEF PreprocessInclude
<1>2. ITypes /\ ITable /\ phase = "run" /\ Token \in TokenSet
  BY <1>1, AtToken
<1>3. Token[2] \in FileNames
  BY <1>1, <1>2, TokenKinds
<1>4. new \in Items /\ ~new.ignore
  BY <1>3, EmptySeq DEF Item, Items
<1>5. table' \in Seq(Items) /\ ITable' /\ TableGrows
  <2> HIDE DEF new
  <2> QED
    BY <1>1, <1>2, <1>4, ItemAdded
<1>6. tokens \in Seq(TokenSet) /\ Len(tokens) \in Nat
  <2>1. headers[Token[2]] \in AllFiles
    BY <1>2, <1>3 DEF AllFiles, ITypes
  <2>2. headers[Token[2]] \in Seq(Written)
    BY <2>1, FileTokens
  <2>3. headers[Token[2]] \in Seq(TokenSet) /\ EndOfFile \in TokenSet
    BY <2>2, SeqMonotonic DEF TokenSet
  <2>4. tokens \in Seq(TokenSet)
    BY <2>3, AppendProperties
  <2> HIDE DEF tokens
  <2> QED
    BY <2>4, LenProperties
<1> HIDE DEF tokens
<1>7. Len(table) \in Nat /\ Len(table') = Len(table) + 1
  <2>1. table \in Seq(Items)
    BY <1>2 DEF ITypes
  <2> HIDE DEF new
  <2> QED
    BY <1>1, <1>4, <2>1, AppendProperties, LenProperties
<1>8. /\ top \in Calls /\ top.tokens = tokens /\ top.index = 1
      /\ top.item = Len(table) + 1
  BY <1>6, <1>7 DEF Calls
<1> HIDE DEF top
<1>9. /\ Len(files) \in Nat \ {0} /\ File = files[Len(files)]
      /\ \A i \in 1..Len(files) : files[i] \in Calls
  BY <1>2, TopFile
<1>10. /\ files' \in Seq(Calls) /\ files' # << >> /\ Len(files') = Len(files) + 1
       /\ \A i \in 1..Len(files) : files'[i] = files[i]
       /\ files'[Len(files) + 1] = top
  <2>1. files \in Seq(Calls)
    BY <1>2 DEF ITypes
  <2> HIDE DEF Calls
  <2> QED
    BY <1>1, <1>8, <2>1, AppendProperties
<1>11. ITypes'
  BY <1>1, <1>2, <1>5, <1>10 DEF ITypes
<1>12. \A i \in 1..Len(files') : i \in 1..Len(files) \/ i = Len(files) + 1
  BY <1>9, <1>10
<1>13. IPlaces'
  <2>1. \A i \in 1..Len(files) : PlaceRight(files[i], Len(table'))
    BY <1>7 DEF IInv, IPlaces, PlaceRight
  <2>2. PlaceRight(top, Len(table'))
    BY <1>6, <1>7, <1>8 DEF PlaceRight
  <2>3. \A i \in 1..Len(files) : files[i].index <= Len(files[i].tokens)
    <3>1. File.index <= Len(File.tokens)
      BY <1>1 DEF Busy, Index, Tokens
    <3>2. \A i \in 1..Len(files) : i \in 1..(Len(files) - 1) \/ i = Len(files)
      BY <1>9
    <3> QED
      BY <1>9, <3>1, <3>2 DEF IInv, IPlaces
  <2>4. \A i \in 1..Len(files') : PlaceRight(files'[i], Len(table'))
    BY <1>10, <1>12, <2>1, <2>2
  <2>5. \A i \in 1..(Len(files') - 1) : files'[i].index <= Len(files'[i].tokens)
    <3>1. Len(files') - 1 = Len(files)
      BY <1>9, <1>10
    <3> QED
      BY <1>10, <2>3, <3>1
  <2> QED
    BY <2>4, <2>5 DEF IPlaces
<1>14. IPassed'
  <2>1. ASSUME NEW i \in 1..Len(files'), NEW j \in 1..Len(files'[i].tokens),
               j < files'[i].index
        PROVE  files'[i].tokens[j] \in TokenSet /\ ~Pending(files'[i].tokens[j])
    <3>1. CASE i \in 1..Len(files)
      <4>1. files'[i] = files[i]
        BY <1>10, <3>1
      <4> QED
        BY <2>1, <3>1, <4>1, PassedBefore
    <3>2. CASE i = Len(files) + 1
      <4>1. files'[i].index = 1
        BY <1>8, <1>10, <3>2
      <4> QED
        BY <2>1, <4>1
    <3> QED
      BY <1>12, <3>1, <3>2
  <2> QED
    BY <1>1, <1>5, <1>11, <2>1, PassedAfter
<1>15. IOutput'
  BY <1>1, <1>2 DEF IOutput
<1> QED
  BY <1>5, <1>11, <1>13, <1>14, <1>15 DEF IInv

\* tokens_trim leaves nothing blanked, and nothing pending where all was passed.
LEMMA TrimmedTokens ==
  ASSUME NEW q \in Seq(TokenSet), \A j \in 1..Len(q) : ~Pending(q[j])
  PROVE  /\ Trim(q) \in Seq(TokenSet)
         /\ \A i \in 1..Len(Trim(q)) : Trim(q)[i] # None /\ ~Pending(Trim(q)[i])
<1> DEFINE S == {q[i] : i \in 1..Len(q)} \ {None}
           r == Trim(q)
<1>1. r \in Seq(S)
  BY Trimmed
<1>2. \A t \in S : t \in TokenSet /\ t # None /\ ~Pending(t)
  <2>1. \A i \in 1..Len(q) : q[i] \in TokenSet
    BY ElementOfSeq
  <2> QED
    BY <2>1
<1> HIDE DEF r, S
<1>3. \A i \in 1..Len(r) : r[i] \in S
  BY <1>1, ElementOfSeq
<1>4. r \in Seq(TokenSet)
  BY <1>1, <1>2, SeqMonotonic
<1> QED
  BY <1>2, <1>3, <1>4 DEF r

\* All of a file is passed when the walk is at its end.
LEMMA AtEnd ==
  ASSUME IInv, Index > Len(Tokens)
  PROVE  /\ Tokens \in Seq(TokenSet) /\ Len(Tokens) \in Nat
         /\ \A j \in 1..Len(Tokens) : ~Pending(Tokens[j])
<1>1. /\ Len(files) \in 1..Len(files) /\ File = files[Len(files)]
      /\ Tokens \in Seq(TokenSet) /\ Index \in Nat
  BY TopFile DEF IInv
<1>2. PassedRight(File)
  BY <1>1 DEF IInv, IPassed
<1>3. Len(Tokens) \in Nat
  BY <1>1, LenProperties
<1>4. \A j \in 1..Len(Tokens) : j < Index
  BY <1>1, <1>3
<1> QED
  BY <1>1, <1>2, <1>3, <1>4 DEF PassedRight, Tokens, Index

\* The end: the output is the main file, trimmed.
LEMMA FinishIInv ==
  ASSUME IInv, Finish
  PROVE  IInv'
<1>1. /\ Index > Len(Tokens) /\ output' = Trim(Tokens) /\ phase' = "done"
      /\ UNCHANGED <<main, headers, table, files, skipped>>
  BY DEF Finish
<1>2. /\ output' \in Seq(TokenSet)
      /\ \A i \in 1..Len(output') : output'[i] # None /\ ~Pending(output'[i])
  BY <1>1, AtEnd, TrimmedTokens
<1>3. ITypes' /\ ITable' /\ IPlaces'
  BY <1>1, <1>2 DEF IInv, ITypes, ITable, IPlaces
<1>4. IPassed'
  <2>1. TableGrows
    BY <1>1, TableSame DEF IInv
  <2>2. \A i \in 1..Len(files') : \A j \in 1..Len(files'[i].tokens) :
           j < files'[i].index => files'[i].tokens[j] \in TokenSet /\ ~Pending(files'[i].tokens[j])
    BY <1>1, PassedBefore
  <2> QED
    BY <1>1, <1>3, <2>1, <2>2, PassedAfter
<1>5. IOutput'
  <2>1. \A i \in 1..Len(output') : output'[i] # None /\ ~Pending(output[i])'
    BY <1>1, <1>2 DEF Pending, Directive, Once, Lookup
  <2> QED
    BY <2>1 DEF IOutput
<1> QED
  BY <1>3, <1>4, <1>5 DEF IInv

\* An error ends the walk.
LEMMA PreprocessErrorIInv ==
  ASSUME IInv, PreprocessError
  PROVE  IInv'
<1>1. phase' = "error" /\ UNCHANGED <<main, headers, table, files, output, skipped>>
  BY DEF PreprocessError
<1>2. ITypes' /\ ITable' /\ IPlaces'
  BY <1>1 DEF IInv, ITypes, ITable, IPlaces
<1>3. IPassed'
  <2>1. TableGrows
    BY <1>1, TableSame DEF IInv
  <2>2. \A i \in 1..Len(files') : \A j \in 1..Len(files'[i].tokens) :
           j < files'[i].index => files'[i].tokens[j] \in TokenSet /\ ~Pending(files'[i].tokens[j])
    BY <1>1, PassedBefore
  <2> QED
    BY <1>1, <1>2, <2>1, <2>2, PassedAfter
<1>4. IOutput'
  BY <1>1 DEF IOutput
<1> QED
  BY <1>2, <1>3, <1>4 DEF IInv

\* What replaces an #include: the file without its blanked tokens and its end.
LEMMA Replacement ==
  ASSUME IInv, Index > Len(Tokens)
  PROVE  LET inserted == Append(Front(Trim(Tokens)), None)
         IN /\ inserted \in Seq(TokenSet) /\ Len(inserted) \in Nat
            /\ \A i \in 1..Len(inserted) : ~Pending(inserted[i])
<1> DEFINE trimmed == Trim(Tokens)
           front == SubSeq(trimmed, 1, Len(trimmed) - 1)
           inserted == Append(front, None)
<1>1. /\ None \in TokenSet /\ ~Pending(None)
  BY DEF TokenSet, Words, Pending, Directive, None, Kind
<1>2. /\ trimmed \in Seq(TokenSet)
      /\ \A i \in 1..Len(trimmed) : ~Pending(trimmed[i])
  BY AtEnd, TrimmedTokens
<1> HIDE DEF trimmed
<1>3. /\ front \in Seq(TokenSet) /\ Len(front) \in Nat
      /\ \A i \in 1..Len(front) : ~Pending(front[i])
  <2>1. Len(trimmed) \in Nat /\ \A i \in 1..Len(trimmed) : trimmed[i] \in TokenSet
    BY <1>2, ElementOfSeq, LenProperties
  <2>2. PICK m \in Int : m = Len(trimmed) - 1
    BY <2>1
  <2>3. front = SubSeq(trimmed, 1, m) /\ \A i \in 1..m : trimmed[i] \in TokenSet
    BY <2>1, <2>2
  <2> HIDE DEF front
  <2>4. /\ front \in Seq(TokenSet) /\ Len(front) = IF 1 <= m THEN m - 1 + 1 ELSE 0
        /\ \A i \in 1..(m - 1 + 1) : front[i] = trimmed[1 + i - 1]
    BY <2>3, SubSeqProperties
  <2>5. \A i \in 1..Len(front) : i \in 1..(m - 1 + 1) /\ 1 + i - 1 = i /\ i \in 1..Len(trimmed)
    BY <2>1, <2>2, <2>4
  <2> QED
    BY <1>2, <2>2, <2>4, <2>5
<1> HIDE DEF front
<1>4. /\ inserted \in Seq(TokenSet) /\ Len(inserted) \in Nat
      /\ \A i \in 1..Len(inserted) : ~Pending(inserted[i])
  <2>1. /\ inserted \in Seq(TokenSet) /\ Len(inserted) = Len(front) + 1
        /\ \A i \in 1..Len(front) : inserted[i] = front[i]
        /\ inserted[Len(front) + 1] = None
    BY <1>1, <1>3, AppendProperties
  <2> HIDE DEF inserted
  <2>2. \A i \in 1..Len(inserted) : i \in 1..Len(front) \/ i = Len(front) + 1
    BY <1>3, <2>1
  <2> QED
    BY <1>1, <1>3, <2>1, <2>2
<1> QED
  BY <1>4 DEF Front, front, trimmed

\* Nothing of the included file is pending when it replaces the directive.
LEMMA IncludedIInv ==
  ASSUME IInv, Included
  PROVE  IInv'
<1> DEFINE n == Len(files)
           inserted == Append(Front(Trim(Tokens)), None)
           outer == files[n - 1]
           q == InsertTokens(outer.tokens, outer.index, inserted)
           top == [tokens |-> q, index |-> outer.index + Len(inserted) + 1, item |-> outer.item]
           below == SubSeq(files, 1, n - 2)
<1>1. /\ phase = "run" /\ n > 1 /\ Index > Len(Tokens) /\ files' = Append(below, top)
      /\ UNCHANGED <<main, headers, table, phase, output, skipped>>
  BY DEF Included
<1>2. ITypes /\ ITable /\ n \in Nat /\ n - 1 \in 1..n /\ n - 2 \in Nat
  <2>1. ITypes /\ ITable /\ Len(files) \in Nat
    BY TopFile DEF IInv
  <2> QED
    BY <1>1, <2>1
<1>3. /\ None \in TokenSet /\ ~Pending(None)
  BY DEF TokenSet, Words, Pending, Directive, None, Kind
<1>4. /\ inserted \in Seq(TokenSet) /\ Len(inserted) \in Nat
      /\ \A i \in 1..Len(inserted) : ~Pending(inserted[i])
  BY <1>1, Replacement
<1> HIDE DEF inserted
<1>5. /\ outer \in Calls /\ outer.tokens \in Seq(TokenSet) /\ Len(outer.tokens) \in Nat
      /\ outer.index \in Nat /\ outer.index \in 1..Len(outer.tokens)
      /\ outer.item \in 1..Len(table)
      /\ \A j \in 1..Len(outer.tokens) :
           j < outer.index => ~Pending(outer.tokens[j])
  <2>1. outer \in Calls
    BY <1>2, TopFile
  <2>2. PlaceRight(outer, Len(table)) /\ outer.index <= Len(outer.tokens) /\ PassedRight(outer)
    <3>1. n - 1 \in 1..n /\ n - 1 \in 1..(n - 1)
      BY <1>2
    <3> QED
      BY <3>1 DEF IInv, IPlaces, IPassed
  <2> HIDE DEF outer
  <2>3. outer.tokens \in Seq(TokenSet) /\ outer.index \in Nat
    BY <2>1 DEF Calls
  <2>4. Len(outer.tokens) \in Nat
    BY <2>3, LenProperties
  <2> QED
    BY <2>1, <2>2, <2>3, <2>4 DEF PlaceRight, PassedRight
<1> HIDE DEF outer
<1>6. /\ q \in Seq(TokenSet) /\ Len(q) = Len(outer.tokens) + Len(inserted)
      /\ \A j \in 1..Len(q) :
           q[j] = IF j < outer.index THEN outer.tokens[j]
                  ELSE IF j < outer.index + Len(inserted) THEN inserted[j - outer.index + 1]
                  ELSE IF j = outer.index + Len(inserted) THEN None
                  ELSE outer.tokens[j - Len(inserted)]
  <2>1. /\ None \in TokenSet /\ inserted \in Seq(TokenSet)
        /\ outer.tokens \in Seq(TokenSet) /\ outer.index \in 1..Len(outer.tokens)
    BY <1>3, <1>4, <1>5
  <2>2. ASSUME NEW u \in Seq(TokenSet), NEW v \in Seq(TokenSet), NEW i \in 1..Len(u)
        PROVE  /\ InsertTokens(u, i, v) \in Seq(TokenSet)
               /\ Len(InsertTokens(u, i, v)) = Len(u) + Len(v)
               /\ \A j \in 1..Len(InsertTokens(u, i, v)) :
                    InsertTokens(u, i, v)[j] = IF j < i THEN u[j]
                                               ELSE IF j < i + Len(v) THEN v[j - i + 1]
                                               ELSE IF j = i + Len(v) THEN None ELSE u[j - Len(v)]
    BY <2>1, Inserted
  <2> QED
    BY <2>1, <2>2
<1> HIDE DEF q
<1>7. \A j \in 1..Len(q) : j <= outer.index + Len(inserted) => ~Pending(q[j])
  <2>1. ASSUME NEW j \in 1..Len(q), j <= outer.index + Len(inserted)
        PROVE  ~Pending(q[j])
    <3>1. CASE j < outer.index
      <4>1. j \in 1..Len(outer.tokens)
        BY <1>5, <3>1
      <4>2. ~Pending(outer.tokens[j])
        BY <1>5, <3>1, <4>1
      <4> QED
        BY <1>6, <3>1, <4>2
    <3>2. CASE ~(j < outer.index) /\ j < outer.index + Len(inserted)
      <4>1. j - outer.index + 1 \in 1..Len(inserted)
        BY <1>4, <1>5, <3>2
      <4> QED
        BY <1>4, <1>6, <3>2, <4>1
    <3>3. CASE j = outer.index + Len(inserted)
      <4>1. ~(j < outer.index) /\ ~(j < outer.index + Len(inserted))
        BY <1>4, <1>5, <3>3
      <4>2. q[j] = None
        BY <1>6, <3>3, <4>1
      <4> QED
        BY <1>3, <4>2
    <3>4. j < outer.index + Len(inserted) \/ j = outer.index + Len(inserted)
      BY <1>4, <1>5, <2>1
    <3> QED
      BY <3>1, <3>2, <3>3, <3>4
  <2> QED
    BY <2>1
<1>8. /\ top \in Calls /\ top.tokens = q /\ top.index = outer.index + Len(inserted) + 1
       /\ top.item = outer.item
  <2>1. outer.index + Len(inserted) + 1 \in Nat /\ outer.item \in Nat
    <3>1. outer.item \in Nat
      BY <1>5 DEF Calls
    <3> QED
      BY <1>4, <1>5, <3>1
  <2> QED
    BY <1>6, <2>1 DEF Calls
<1> HIDE DEF top
<1>9. /\ below \in Seq(Calls) /\ Len(below) = n - 2
       /\ \A i \in 1..(n - 2) : below[i] = files[i]
  <2>1. PICK m \in Nat : m = n - 2
    BY <1>2
  <2>2. below = SubSeq(files, 1, m) /\ \A i \in 1..m : files[i] \in Calls
    <3>1. \A i \in 1..m : i \in 1..n
      BY <1>2, <2>1
    <3> QED
      BY <1>2, <2>1, <3>1, TopFile
  <2> HIDE DEF below, Calls
  <2>3. /\ below \in Seq(Calls) /\ Len(below) = IF 1 <= m THEN m - 1 + 1 ELSE 0
        /\ \A i \in 1..(m - 1 + 1) : below[i] = files[1 + i - 1]
    BY <2>2, SubSeqProperties
  <2>4. m - 1 + 1 = m /\ \A i \in 1..m : 1 + i - 1 = i
    OBVIOUS
  <2> QED
    BY <2>1, <2>3, <2>4
<1> HIDE DEF below
<1>10. /\ files' \in Seq(Calls) /\ files' # << >> /\ Len(files') = n - 1
       /\ \A i \in 1..(n - 2) : files'[i] = files[i] /\ i \in 1..n /\ i \in 1..(n - 1)
       /\ files'[n - 1] = top
       /\ \A i \in 1..(n - 1) : i \in 1..(n - 2) \/ i = n - 1
  <2>1. /\ files' \in Seq(Calls) /\ files' # << >> /\ Len(files') = Len(below) + 1
        /\ \A i \in 1..Len(below) : files'[i] = below[i]
        /\ files'[Len(below) + 1] = top
    <3> HIDE DEF Calls
    <3> QED
      BY <1>1, <1>8, <1>9, AppendProperties
  <2>2. Len(below) + 1 = n - 1
    BY <1>2, <1>9
  <2>3. /\ \A i \in 1..(n - 2) : i \in 1..n /\ i \in 1..(n - 1)
        /\ \A i \in 1..(n - 1) : i \in 1..(n - 2) \/ i = n - 1
    BY <1>2
  <2> QED
    BY <1>9, <2>1, <2>2, <2>3
<1>11. ITypes'
  BY <1>1, <1>2, <1>10 DEF ITypes
<1>12. table' \in Seq(Items) /\ ITable' /\ TableGrows
  BY <1>1, <1>2, TableSame
<1>13. IPlaces'
  <2>1. \A i \in 1..(n - 2) :
           PlaceRight(files'[i], Len(table')) /\ files'[i].index <= Len(files'[i].tokens)
    BY <1>1, <1>10 DEF IInv, IPlaces
  <2>2. PlaceRight(top, Len(table'))
    BY <1>1, <1>4, <1>5, <1>6, <1>8 DEF PlaceRight
  <2>3. \A i \in 1..Len(files') : PlaceRight(files'[i], Len(table'))
    BY <1>10, <2>1, <2>2
  <2>4. Len(files') - 1 = n - 2
    BY <1>2, <1>10
  <2> QED
    BY <2>1, <2>3, <2>4 DEF IPlaces
<1>14. IPassed'
  <2>1. ASSUME NEW i \in 1..Len(files'), NEW j \in 1..Len(files'[i].tokens),
               j < files'[i].index
        PROVE  files'[i].tokens[j] \in TokenSet /\ ~Pending(files'[i].tokens[j])
    <3>1. CASE i \in 1..(n - 2)
      <4>1. files'[i] = files[i] /\ i \in 1..Len(files)
        BY <1>10, <3>1
      <4> QED
        BY <2>1, <4>1, PassedBefore
    <3>2. CASE i = n - 1
      <4>1. files'[i].tokens = q /\ files'[i].index = outer.index + Len(inserted) + 1
        BY <1>8, <1>10, <3>2
      <4>2. j \in 1..Len(q) /\ j <= outer.index + Len(inserted)
        BY <1>4, <1>5, <1>6, <2>1, <4>1
      <4>3. q[j] \in TokenSet
        BY <1>6, <4>2, ElementOfSeq
      <4> QED
        BY <1>7, <4>1, <4>2, <4>3
    <3> QED
      BY <1>10, <3>1, <3>2
  <2> QED
    BY <1>1, <1>11, <1>12, <2>1, PassedAfter
<1>15. IOutput'
  BY <1>1 DEF IOutput
<1> QED
  BY <1>11, <1>12, <1>13, <1>14, <1>15 DEF IInv

\* A step that changes nothing.
LEMMA StutterIInv ==
  ASSUME IInv, UNCHANGED vars
  PROVE  IInv'
<1>1. UNCHANGED <<main, headers, table, files, phase, output, skipped>>
  BY DEF vars
<1>2. ITypes' /\ ITable' /\ IPlaces'
  BY <1>1 DEF IInv, ITypes, ITable, IPlaces
<1>3. TableGrows
  BY <1>1, TableSame DEF IInv
<1>4. IPassed'
  <2>1. \A i \in 1..Len(files') : \A j \in 1..Len(files'[i].tokens) :
           j < files'[i].index => files'[i].tokens[j] \in TokenSet /\ ~Pending(files'[i].tokens[j])
    BY <1>1, PassedBefore
  <2> QED
    BY <1>1, <1>2, <1>3, <2>1, PassedAfter
<1>5. IOutput'
  <2>1. phase = "done" => \A i \in 1..Len(output) : output[i] # None /\ ~Pending(output[i])
    BY DEF IInv, IOutput
  <2>2. phase' = "done" =>
          \A i \in 1..Len(output') : output'[i] # None /\ ~Pending(output[i])'
    BY <1>1, <2>1 DEF Pending, Directive, Once, Lookup
  <2> QED
    BY <2>2 DEF IOutput
<1> QED
  BY <1>2, <1>4, <1>5 DEF IInv

\* Every step keeps the invariant.
LEMMA NextIInv == IInv /\ [Next]_vars => IInv'
<1> SUFFICES ASSUME IInv, [Next]_vars
             PROVE  IInv'
  OBVIOUS
<1>1. CASE Skip
  BY <1>1, SkipIInv
<1>2. CASE PreprocessIdent
  BY <1>2, PreprocessIdentIInv
<1>3. CASE PreprocessDefine
  BY <1>3, PreprocessDefineIInv
<1>4. CASE PreprocessUndef
  BY <1>4, PreprocessUndefIInv
<1>5. CASE PreprocessIf
  BY <1>5, PreprocessIfIInv
<1>6. CASE PreprocessError
  BY <1>6, PreprocessErrorIInv
<1>7. CASE PragmaOnce
  BY <1>7, PragmaOnceIInv
<1>8. CASE SkipInclude
  BY <1>8, SkipIncludeIInv
<1>9. CASE PreprocessInclude
  BY <1>9, PreprocessIncludeIInv
<1>10. CASE Included
  BY <1>10, IncludedIInv
<1>11. CASE Finish
  BY <1>11, FinishIInv
<1>12. CASE UNCHANGED vars
  BY <1>12, StutterIInv
<1> QED
  BY <1>1, <1>2, <1>3, <1>4, <1>5, <1>6, <1>7, <1>8, <1>9, <1>10, <1>11, <1>12 DEF Next

(***************************************************************************)
(* Unless a definition sends the walk past something, nothing in front of  *)
(* a position is left to be done, in the file that is read and in those    *)
(* that wait for it, whatever was replaced and inserted.                   *)
(***************************************************************************)
THEOREM Invariance == Spec => []IInv
BY InitIInv, NextIInv, PTL DEF Spec

(***************************************************************************)
(* Each file knows an item of the table, and a file that waits for another *)
(* is at the #include that the other replaces.                             *)
(***************************************************************************)
THEOREM Typing == Spec => []TypeOK
<1>1. IInv => TypeOK
  <2> SUFFICES ASSUME IInv
               PROVE  TypeOK
    OBVIOUS
  <2>1. ASSUME NEW i \in 1..Len(table)
        PROVE  table[i].name \in Names \union FileNames \union {"CCIC"}
    <3>1. table[i] \in Items
      BY ElementOfSeq DEF IInv, ITypes
    <3> QED
      BY <3>1 DEF Items
  <2>2. ASSUME NEW i \in 1..Len(files)
        PROVE  /\ files[i].index \in Nat \ {0} /\ files[i].item \in 1..Len(table)
               /\ i < Len(files) => files[i].index <= Len(files[i].tokens)
    <3>1. files[i] \in Calls /\ PlaceRight(files[i], Len(table)) /\ Len(files) \in Nat
      BY TopFile DEF IInv, IPlaces
    <3>2. files[i].index \in Nat
      BY <3>1 DEF Calls
    <3>3. i < Len(files) => i \in 1..(Len(files) - 1)
      BY <3>1
    <3> QED
      BY <3>1, <3>2, <3>3 DEF PlaceRight, IInv, IPlaces
  <2> QED
    BY <2>1, <2>2 DEF TypeOK, IInv, ITypes
<1> QED
  BY <1>1, Invariance, PTL

(***************************************************************************)
(* Every directive of the main file and its headers is carried out,        *)
(* however they are nested and whatever macros insert, unless a definition *)
(* sends the walk past one.                                                *)
(***************************************************************************)
THEOREM Directives == Spec => []DirectivesCarriedOut
<1>1. IInv => DirectivesCarriedOut
  <2> SUFFICES ASSUME IInv, phase = "done", ~skipped, NEW i \in 1..Len(output)
               PROVE  \/ Kind(output[i]) \in {"ident", "lit", "eof", "once"}
                      \/ Kind(output[i]) = "include" /\ Once(output[i][2])
    BY DEF DirectivesCarriedOut
  <2>1. output[i] # None /\ ~Pending(output[i])
    BY DEF IInv, IOutput
  <2>2. output[i] \in TokenSet
    BY ElementOfSeq DEF IInv, ITypes
  <2>3. Kind(output[i]) \in {"ident", "lit", "eof"} \/ IsToken(output[i])
    BY <2>1, <2>2, TokenKinds
  <2> QED
    BY <2>1, <2>3 DEF IsToken, Pending, Directive
<1> QED
  BY <1>1, Invariance, PTL

-----------------------------------------------------------------------------
(* Files whose definitions send the walk back, and never past anything *)

\* If token t at position j is a definition, its value has no macro in it
\* and is no longer than its position.
Short(t, j) ==
  Kind(t) = "define" =>
    /\ Len(t[3]) <= j
    /\ \A i \in 1..Len(t[3]) :
         Kind(t[3][i]) = "ident" => t[3][i][2] \notin Names \union FileNames \union {"CCIC"}

\* The definitions of the main file and its headers are short.
ShortValues ==
  \A file \in {main} \union {headers[n] : n \in FileNames} :
    \A j \in 1..Len(file) : Short(file[j], j)

\* So are those in the vectors, where they only move to greater positions, and
\* nothing has been skipped.
IShort ==
  /\ ShortValues /\ ~skipped
  /\ \A i \in 1..Len(files) : \A j \in 1..Len(files[i].tokens) : Short(files[i].tokens[j], j)

\* The end of a file is no definition.
LEMMA ShortWithEnd ==
  ASSUME NEW file \in AllFiles, \A j \in 1..Len(file) : Short(file[j], j)
  PROVE  LET q == Append(file, EndOfFile) IN \A j \in 1..Len(q) : Short(q[j], j)
<1> DEFINE q == Append(file, EndOfFile)
<1>1. file \in Seq(TokenSet) /\ EndOfFile \in TokenSet
  <2>1. file \in Seq(Written)
    BY FileTokens
  <2> QED
    BY <2>1, SeqMonotonic DEF TokenSet
<1>2. /\ Len(q) = Len(file) + 1 /\ Len(file) \in Nat
      /\ \A j \in 1..Len(file) : q[j] = file[j]
      /\ q[Len(file) + 1] = EndOfFile
  BY <1>1, AppendProperties, LenProperties
<1> HIDE DEF q
<1>3. \A j \in 1..Len(q) : j \in 1..Len(file) \/ j = Len(file) + 1
  BY <1>2
<1>4. \A j : Short(EndOfFile, j)
  BY DEF Short, Kind, EndOfFile
<1> QED
  BY <1>2, <1>3, <1>4 DEF q

\* At the start.
LEMMA InitIShort == Init /\ ShortValues => IShort
<1> SUFFICES ASSUME Init, ShortValues
             PROVE  IShort
  OBVIOUS
<1>5. ~skipped
  BY DEF Init
<1> DEFINE q == Append(main, EndOfFile)
           top == [tokens |-> q, index |-> 1, item |-> 1]
<1>1. files = <<top>> /\ main \in AllFiles
  BY DEF Init, AllFiles
<1>2. \A j \in 1..Len(q) : Short(q[j], j)
  BY <1>1, ShortWithEnd DEF ShortValues
<1>3. top.tokens = q
  OBVIOUS
<1> HIDE DEF top
<1>4. Len(files) = 1 /\ files[1] = top
  BY <1>1
<1> QED
  BY <1>2, <1>3, <1>4, <1>5 DEF IShort

\* A short definition sends the walk back.
LEMMA ShortGoesBack ==
  ASSUME IInv, IShort, Busy, Kind(Token) = "define"
  PROVE  ~JumpsOver(Expanded(Token[3]))
<1> DEFINE v == Token[3]
<1>1. v \in Seq(Words) /\ ITypes /\ Len(v) \in Nat
  <2>1. Token \in Written /\ ITypes
    BY AtToken, TokenKinds
  <2>2. v \in Seq(Words)
    BY <2>1, ValueOfDefine
  <2> HIDE DEF v
  <2> QED
    BY <2>1, <2>2, LenProperties
<1>2. Short(Token, Index)
  <2>1. /\ Len(files) \in 1..Len(files) /\ File = files[Len(files)]
        /\ Index \in 1..Len(Tokens) /\ Token = Tokens[Index]
    BY <1>1, AtToken, TopFile
  <2> QED
    BY <2>1 DEF IShort, Tokens
<1>3. \A i \in 1..Len(v) : Replaced(v[i]) = <<v[i]>>
  <2>1. ASSUME NEW i \in 1..Len(v), Kind(v[i]) = "ident"
        PROVE  Lookup(v[i][2]) = 0
    <3>1. v[i][2] \notin Names \union FileNames \union {"CCIC"}
      BY <1>2, <2>1 DEF Short
    <3> HIDE DEF v
    <3>2. Lookup(v[i][2]) # 0 => table[Lookup(v[i][2])] \in Items
                                 /\ table[Lookup(v[i][2])].name = v[i][2]
      BY <1>1, LookupFacts
    <3> QED
      BY <3>1, <3>2 DEF Items
  <2> HIDE DEF v
  <2> QED
    BY <2>1 DEF Replaced
<1>4. Len(v) <= Index /\ Index \in Nat
  BY <1>2, AtToken DEF Short
<1> HIDE DEF v
<1>5. Len(Expanded(v)) = Len(v)
  BY <1>1, <1>3, ExpandedWords
<1>6. \A i \in 1..Len(Tokens) : ~(Index < i /\ i <= Len(v))
  BY <1>1, <1>4
<1> QED
  BY <1>5, <1>6 DEF JumpsOver, v

\* The walk goes on in a vector whose definitions are short.
LEMMA ShortGoesOn ==
  ASSUME IInv, IShort, NEW tokens \in Seq(TokenSet), NEW index \in Nat,
         Continue(tokens, index), \A j \in 1..Len(tokens) : Short(tokens[j], j),
         UNCHANGED <<main, headers, skipped>>
  PROVE  IShort'
<1>1. /\ Len(files') = Len(files) /\ Len(files) \in Nat
      /\ \A i \in 1..(Len(files) - 1) : files'[i] = files[i]
      /\ files'[Len(files)].tokens = tokens
  <2>1. ITypes /\ Len(files) \in Nat
    BY TopFile DEF IInv
  <2>2. /\ Len(files') = Len(files)
        /\ \A i \in 1..(Len(files) - 1) : files'[i] = files[i]
        /\ files'[Len(files)] = [tokens |-> tokens, index |-> index + 1, item |-> File.item]
    BY <2>1, Continued
  <2> QED
    BY <2>1, <2>2
<1>2. \A i \in 1..Len(files) : i \in 1..(Len(files) - 1) \/ i = Len(files)
  BY <1>1
<1>3. \A i \in 1..Len(files') : \A j \in 1..Len(files'[i].tokens) : Short(files'[i].tokens[j], j)
  BY <1>1, <1>2 DEF IShort
<1>4. ShortValues'
  BY DEF IShort, ShortValues
<1> QED
  BY <1>3, <1>4 DEF IShort

\* What is inserted is no definition and moves others further down.
LEMMA ShortInserted ==
  ASSUME NEW q \in Seq(TokenSet), NEW i \in 1..Len(q), NEW new \in Seq(TokenSet),
         \A j \in 1..Len(q) : Short(q[j], j),
         \A k \in 1..Len(new) : Kind(new[k]) # "define",
         \A j \in 1..Len(q) : Kind(q[j]) = "define" => Len(q[j][3]) \in Nat
  PROVE  LET r == InsertTokens(q, i, new) IN \A j \in 1..Len(r) : Short(r[j], j)
<1> DEFINE r == InsertTokens(q, i, new)
<1>1. None \in TokenSet /\ Kind(None) # "define" /\ Len(q) \in Nat /\ Len(new) \in Nat
  BY LenProperties DEF TokenSet, Words, None, Kind
<1>2. /\ Len(r) = Len(q) + Len(new)
      /\ \A j \in 1..Len(r) :
           r[j] = IF j < i THEN q[j]
                  ELSE IF j < i + Len(new) THEN new[j - i + 1]
                  ELSE IF j = i + Len(new) THEN None ELSE q[j - Len(new)]
  BY <1>1, Inserted
<1> HIDE DEF r
<1>3. ASSUME NEW j \in 1..Len(r)
      PROVE  Short(r[j], j)
  <2>1. CASE j < i
    <3>1. r[j] = q[j] /\ j \in 1..Len(q)
      BY <1>1, <1>2, <2>1
    <3> QED
      BY <3>1
  <2>2. CASE ~(j < i) /\ j < i + Len(new)
    <3>1. r[j] = new[j - i + 1] /\ j - i + 1 \in 1..Len(new)
      BY <1>1, <1>2, <2>2
    <3> QED
      BY <3>1 DEF Short
  <2>3. CASE j = i + Len(new)
    <3>1. r[j] = None
      BY <1>1, <1>2, <2>3
    <3> QED
      BY <1>1, <3>1 DEF Short
  <2>4. CASE j > i + Len(new)
    <3> DEFINE k == j - Len(new)
    <3>1. r[j] = q[k] /\ k \in 1..Len(q) /\ k <= j
      BY <1>1, <1>2, <2>4
    <3> HIDE DEF k
    <3>2. Short(q[k], k)
      BY <3>1
    <3>3. Kind(q[k]) = "define" => Len(q[k][3]) <= j
      <4> SUFFICES ASSUME Kind(q[k]) = "define"
                   PROVE  Len(q[k][3]) <= j
        OBVIOUS
      <4>1. Len(q[k][3]) \in Nat /\ Len(q[k][3]) <= k
        BY <3>1, <3>2 DEF Short
      <4> QED
        BY <3>1, <4>1
    <3> QED
      BY <3>1, <3>2, <3>3 DEF Short
  <2> QED
    BY <1>1, <2>1, <2>2, <2>3, <2>4
<1> QED
  BY <1>3 DEF r

\* Values have a length.
LEMMA ValueLengths ==
  ASSUME NEW q \in Seq(TokenSet)
  PROVE  \A j \in 1..Len(q) : Kind(q[j]) = "define" => Len(q[j][3]) \in Nat
<1> SUFFICES ASSUME NEW j \in 1..Len(q), Kind(q[j]) = "define"
             PROVE  Len(q[j][3]) \in Nat
  OBVIOUS
<1>1. q[j] \in Written
  BY ElementOfSeq, TokenKinds
<1>2. q[j][3] \in Seq(Words)
  BY <1>1, ValueOfDefine
<1> QED
  BY <1>2, LenProperties

\* The vector of the current file.
LEMMA ShortTokens ==
  ASSUME IInv, IShort
  PROVE  \A j \in 1..Len(Tokens) : Short(Tokens[j], j)
<1>1. Len(files) \in 1..Len(files) /\ File = files[Len(files)]
  BY TopFile DEF IInv
<1> QED
  BY <1>1 DEF IShort, Tokens

\* A step to the next token that blanks some tokens.
LEMMA ShortBlanked ==
  ASSUME IInv, IShort, Busy, NEW q \in Seq(TokenSet), Len(q) = Len(Tokens),
         \A j \in 1..Len(q) : q[j] = None \/ q[j] = Tokens[j],
         NEW index \in Nat, Continue(q, index), UNCHANGED <<main, headers, skipped>>
  PROVE  IShort'
<1>1. \A j \in 1..Len(q) : Short(q[j], j)
  BY ShortTokens DEF Short, None, Kind
<1> QED
  BY <1>1, ShortGoesOn

\* Replacing a name.
LEMMA PreprocessIdentIShort ==
  ASSUME IInv, IShort, PreprocessIdent
  PROVE  IShort'
<1> DEFINE l == Lookup(Token[2])
           value == table[l].value
           q == InsertTokens(Tokens, Index, value)
<1>1. /\ Busy /\ l # 0 /\ Continue(q, Index + Len(value)) /\ UNCHANGED <<main, headers, skipped>>
  BY DEF PreprocessIdent
<1>2. /\ value \in Seq(Words) /\ Len(value) \in Nat /\ value \in Seq(TokenSet)
      /\ None \in TokenSet
  <2>1. table[l] \in Items
    BY <1>1, LookupFacts DEF IInv
  <2>2. value \in Seq(Words)
    BY <2>1 DEF Items
  <2>3. Words \subseteq TokenSet /\ None \in TokenSet
    BY DEF TokenSet, Words
  <2> HIDE DEF value
  <2> QED
    BY <2>2, <2>3, LenProperties, SeqMonotonic
<1> HIDE DEF value
<1>3. \A k \in 1..Len(value) : Kind(value[k]) # "define"
  <2>1. ASSUME NEW k \in 1..Len(value)
        PROVE  Kind(value[k]) # "define"
    <3>1. value[k] \in Words
      BY <1>2, ElementOfSeq
    <3>2. value[k] = None \/ Kind(value[k]) \in {"ident", "lit"}
      BY <3>1, WordKinds
    <3> QED
      BY <3>2 DEF None, Kind
  <2> QED
    BY <2>1
<1>4. Tokens \in Seq(TokenSet) /\ Index \in 1..Len(Tokens) /\ Index \in Nat
  BY <1>1, AtToken
<1>5. q \in Seq(TokenSet)
  BY <1>2, <1>4, Inserted
<1>6. \A j \in 1..Len(q) : Short(q[j], j)
  BY <1>2, <1>3, <1>4, ShortInserted, ShortTokens, ValueLengths
<1> HIDE DEF q
<1>7. Index + Len(value) \in Nat
  BY <1>2, <1>4
<1> QED
  BY <1>1, <1>5, <1>6, <1>7, ShortGoesOn

\* Reading an included file from its beginning.
LEMMA PreprocessIncludeIShort ==
  ASSUME IInv, IShort, PreprocessInclude
  PROVE  IShort'
<1> DEFINE tokens == Append(headers[Token[2]], EndOfFile)
           top == [tokens |-> tokens, index |-> 1, item |-> Len(table) + 1]
<1>1. /\ Busy /\ Kind(Token) = "include" /\ files' = Append(files, top)
      /\ UNCHANGED <<main, headers, skipped>>
  BY DEF PreprocessInclude
<1>2. ITypes /\ Token[2] \in FileNames
  BY <1>1, AtToken, TokenKinds
<1>3. headers[Token[2]] \in AllFiles
  BY <1>2 DEF AllFiles, ITypes
<1>4. \A j \in 1..Len(tokens) : Short(tokens[j], j)
  BY <1>2, <1>3, ShortWithEnd DEF IShort, ShortValues
<1>5. top.tokens = tokens
  OBVIOUS
<1>6. /\ Len(files) \in Nat /\ Len(files') = Len(files) + 1
      /\ \A i \in 1..Len(files) : files'[i] = files[i]
      /\ files'[Len(files) + 1] = top
  <2>1. files \in Seq(Calls) /\ files' \in Seq(Calls \union {top})
        /\ files \in Seq(Calls \union {top}) /\ top \in Calls \union {top}
    <3>1. files \in Seq(Calls)
      BY <1>2 DEF ITypes
    <3> HIDE DEF Calls, top
    <3>2. files \in Seq(Calls \union {top})
      BY <3>1, SeqMonotonic
    <3> QED
      BY <1>1, <3>1, <3>2, AppendProperties
  <2> HIDE DEF Calls, top
  <2> QED
    BY <1>1, <2>1, AppendProperties, LenProperties
<1> HIDE DEF top, tokens
<1>7. \A i \in 1..Len(files') : i \in 1..Len(files) \/ i = Len(files) + 1
  BY <1>6
<1>8. \A i \in 1..Len(files') : \A j \in 1..Len(files'[i].tokens) : Short(files'[i].tokens[j], j)
  BY <1>4, <1>5, <1>6, <1>7 DEF IShort
<1>9. ShortValues'
  BY <1>1 DEF IShort, ShortValues
<1> QED
  BY <1>1, <1>8, <1>9 DEF IShort

\* Putting an included file in place of its directive.
LEMMA IncludedIShort ==
  ASSUME IInv, IShort, Included
  PROVE  IShort'
<1> DEFINE n == Len(files)
           inserted == Append(Front(Trim(Tokens)), None)
           outer == files[n - 1]
           q == InsertTokens(outer.tokens, outer.index, inserted)
           top == [tokens |-> q, index |-> outer.index + Len(inserted) + 1, item |-> outer.item]
           below == SubSeq(files, 1, n - 2)
<1>1. /\ n > 1 /\ Index > Len(Tokens) /\ files' = Append(below, top)
      /\ UNCHANGED <<main, headers, skipped>>
  BY DEF Included
<1>2. ITypes /\ n \in Nat /\ n - 1 \in 1..n /\ n - 2 \in Nat
  <2>1. ITypes /\ Len(files) \in Nat
    BY TopFile DEF IInv
  <2> QED
    BY <1>1, <2>1
<1>3. inserted \in Seq(TokenSet) /\ \A k \in 1..Len(inserted) : Kind(inserted[k]) # "define"
  <2>1. /\ inserted \in Seq(TokenSet)
        /\ \A i \in 1..Len(inserted) : ~Pending(inserted[i])
    BY <1>1, Replacement
  <2> HIDE DEF inserted
  <2> QED
    BY <2>1 DEF Pending, Directive, IShort
<1> HIDE DEF inserted
<1>4. /\ outer.tokens \in Seq(TokenSet) /\ outer.index \in 1..Len(outer.tokens)
      /\ \A j \in 1..Len(outer.tokens) : Short(outer.tokens[j], j)
  <2>1. outer \in Calls
    BY <1>2, TopFile
  <2>2. PlaceRight(outer, Len(table)) /\ outer.index <= Len(outer.tokens)
    <3>1. n - 1 \in 1..n /\ n - 1 \in 1..(n - 1)
      BY <1>2
    <3> QED
      BY <3>1 DEF IInv, IPlaces
  <2>3. \A j \in 1..Len(outer.tokens) : Short(outer.tokens[j], j)
    BY <1>2 DEF IShort
  <2> HIDE DEF outer
  <2>4. outer.tokens \in Seq(TokenSet) /\ outer.index \in Nat
    BY <2>1 DEF Calls
  <2>5. Len(outer.tokens) \in Nat
    BY <2>4, LenProperties
  <2> QED
    BY <2>2, <2>3, <2>4, <2>5 DEF PlaceRight
<1> HIDE DEF outer
<1>5. \A j \in 1..Len(q) : Short(q[j], j)
  BY <1>3, <1>4, ShortInserted, ValueLengths
<1>6. top.tokens = q
  OBVIOUS
<1> HIDE DEF q, top
<1>7. /\ below \in Seq(Calls) /\ Len(below) = n - 2
      /\ \A i \in 1..(n - 2) : below[i] = files[i]
  <2>1. PICK m \in Nat : m = n - 2
    BY <1>2
  <2>2. below = SubSeq(files, 1, m) /\ \A i \in 1..m : files[i] \in Calls
    <3>1. \A i \in 1..m : i \in 1..n
      BY <1>2, <2>1
    <3> QED
      BY <1>2, <2>1, <3>1, TopFile
  <2> HIDE DEF below, Calls
  <2>3. /\ below \in Seq(Calls) /\ Len(below) = IF 1 <= m THEN m - 1 + 1 ELSE 0
        /\ \A i \in 1..(m - 1 + 1) : below[i] = files[1 + i - 1]
    BY <2>2, SubSeqProperties
  <2>4. m - 1 + 1 = m /\ \A i \in 1..m : 1 + i - 1 = i
    OBVIOUS
  <2>5. Len(below) = m
    BY <2>3, <2>4
  <2>6. \A i \in 1..m : below[i] = files[i]
    BY <2>3, <2>4
  <2> HIDE DEF n
  <2> QED
    BY <2>1, <2>3, <2>5, <2>6
<1> HIDE DEF below
<1>8. /\ Len(files') = n - 1
      /\ \A i \in 1..(n - 2) : files'[i] = files[i]
      /\ files'[n - 1] = top
  <2>1. below \in Seq(Calls \union {top}) /\ top \in Calls \union {top}
    <3> HIDE DEF Calls
    <3> QED
      BY <1>7, SeqMonotonic
  <2>2. /\ Len(files') = Len(below) + 1 /\ files'[Len(below) + 1] = top
        /\ \A i \in 1..Len(below) : files'[i] = below[i]
    <3> HIDE DEF Calls
    <3> QED
      BY <1>1, <2>1, AppendProperties
  <2>3. Len(below) + 1 = n - 1
    BY <1>2, <1>7
  <2> QED
    BY <1>7, <2>2, <2>3
<1>9. \A i \in 1..(n - 1) : i \in 1..(n - 2) \/ i = n - 1
  BY <1>2
<1>10. \A i \in 1..(n - 2) : \A j \in 1..Len(files[i].tokens) : Short(files[i].tokens[j], j)
  <2>1. \A i \in 1..(n - 2) : i \in 1..n
    BY <1>2
  <2> QED
    BY <2>1 DEF IShort
<1>11. \A i \in 1..Len(files') : \A j \in 1..Len(files'[i].tokens) : Short(files'[i].tokens[j], j)
  BY <1>5, <1>6, <1>8, <1>9, <1>10
<1>12. ShortValues'
  BY <1>1 DEF IShort, ShortValues
<1> QED
  BY <1>1, <1>11, <1>12 DEF IShort

\* Every step keeps definitions short.
LEMMA NextIShort == IInv /\ IShort /\ [Next]_vars => IShort'
<1> SUFFICES ASSUME IInv, IShort, [Next]_vars
             PROVE  IShort'
  OBVIOUS
<1>1. ASSUME Busy, Continue(Tokens, Index), UNCHANGED <<main, headers, skipped>>
      PROVE  IShort'
  BY <1>1, AtToken, ShortBlanked
<1>2. ASSUME Busy, NEW index \in Nat, Continue([Tokens EXCEPT ![Index] = None], index),
             UNCHANGED <<main, headers, skipped>>
      PROVE  IShort'
  BY <1>2, Blanked, ShortBlanked
<1>3. CASE Skip
  BY <1>1, <1>3 DEF Skip
<1>4. CASE PreprocessIdent
  BY <1>4, PreprocessIdentIShort
<1>5. CASE PreprocessDefine
  <2> DEFINE value == Expanded(Token[3])
             index == IF value = << >> THEN Index ELSE Len(value)
  <2>1. /\ Busy /\ Kind(Token) = "define" /\ UNCHANGED <<main, headers>>
        /\ Continue([Tokens EXCEPT ![Index] = None], index)
        /\ skipped' = (skipped \/ JumpsOver(value))
    BY <1>5 DEF PreprocessDefine
  <2>4. UNCHANGED <<main, headers, skipped>>
    <3>1. skipped \in BOOLEAN /\ ~skipped /\ ~JumpsOver(value)
      BY <2>1, ShortGoesBack DEF IInv, ITypes, IShort
    <3> HIDE DEF value
    <3> QED
      BY <2>1, <3>1
  <2>2. value \in Seq(Words)
    <3>1. ITypes /\ Token \in Written
      BY <2>1, AtToken, TokenKinds
    <3>2. Token[3] \in Seq(Words)
      BY <2>1, <3>1, ValueOfDefine
    <3> QED
      BY <3>1, <3>2, ExpandedWords
  <2> HIDE DEF value
  <2>3. index \in Nat
    BY <2>1, <2>2, AtToken, LenProperties
  <2> HIDE DEF index
  <2> QED
    BY <1>2, <2>1, <2>3, <2>4
<1>6. CASE PreprocessUndef
  <2>1. Busy /\ Continue([Tokens EXCEPT ![Index] = None], Index) /\ UNCHANGED <<main, headers, skipped>>
    BY <1>6 DEF PreprocessUndef, Consume
  <2>2. Index \in Nat
    BY <2>1, AtToken
  <2> QED
    BY <1>2, <2>1, <2>2
<1>7. CASE PreprocessIf
  <2> DEFINE taken == (Lookup(Token[2]) # 0) = (Kind(Token) = "ifdef")
             blanked == IF taken THEN {Index, ScanForEndif} ELSE Index..ScanForEndif
             q == [i \in 1..Len(Tokens) |-> IF i \in blanked THEN None ELSE Tokens[i]]
  <2>1. Busy /\ Continue(q, Index) /\ UNCHANGED <<main, headers, skipped>>
    BY <1>7 DEF PreprocessIf
  <2> HIDE DEF blanked
  <2>2. /\ Len(Tokens) \in Nat /\ Index \in Nat /\ None \in TokenSet
        /\ \A j \in 1..Len(Tokens) : Tokens[j] \in TokenSet
    BY <2>1, AtToken DEF TokenSet, Words
  <2>3. q \in Seq(TokenSet) /\ Len(q) = Len(Tokens)
    BY <2>2
  <2>4. \A j \in 1..Len(q) : q[j] = None \/ q[j] = Tokens[j]
    BY <2>2
  <2> HIDE DEF q
  <2> QED
    BY <2>1, <2>2, <2>3, <2>4, ShortBlanked
<1>8. CASE PragmaOnce
  BY <1>1, <1>8 DEF PragmaOnce
<1>9. CASE SkipInclude
  BY <1>1, <1>9 DEF SkipInclude
<1>10. CASE PreprocessInclude
  BY <1>10, PreprocessIncludeIShort
<1>11. CASE Included
  BY <1>11, IncludedIShort
<1>12. ASSUME UNCHANGED <<main, headers, files, skipped>>
       PROVE  IShort'
  BY <1>12 DEF IShort, ShortValues
<1>13. CASE PreprocessError \/ Finish \/ UNCHANGED vars
  BY <1>12, <1>13 DEF PreprocessError, Finish, vars
<1> QED
  BY <1>3, <1>4, <1>5, <1>6, <1>7, <1>8, <1>9, <1>10, <1>11, <1>13 DEF Next

(***************************************************************************)
(* Definitions of the files themselves that are short send the walk back   *)
(* and never past anything, wherever they are moved by what is inserted in *)
(* front of them.                                                          *)
(***************************************************************************)
THEOREM NothingSkipped == Spec /\ ShortValues => []~skipped
<1>1. Init /\ ShortValues => IInv /\ IShort
  BY InitIInv, InitIShort
<1>2. IInv /\ IShort /\ [Next]_vars => IInv' /\ IShort'
  BY NextIInv, NextIShort
<1>3. IShort => ~skipped
  BY DEF IShort
<1> QED
  BY <1>1, <1>2, <1>3, PTL DEF Spec

=============================================================================
