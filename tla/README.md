# ccic in TLA+

ccic is a C compiler of about 7400 lines of C that compiles itself.  This
directory models the parts of it that keep state and can get it wrong over a
sequence of steps, checks them with TLC on small instances, and proves the
properties of seven of them with TLAPS for every instance: frames and scopes, switch
labels, node memory, control flow, calls, structures and types, and the walk of
the preprocessor.

`PROJECT.json` maps every definition to the lines it stands for.

## The program

A compilation is one thread that runs four phases in a fixed order
(`compiler.c`): the file is preprocessed and tokenized into a vector of tokens,
parsed into a tree and a tree of symbol tables, turned into assembly text, and
given to nasm and gcc.  There is no concurrency, and nothing outlives the
process but its output.  What is hard is elsewhere: state that is shared by
recursive calls, copied by value when it should be shared or shared when it
should be copied, and rewritten in place while something else points to it.

| Component | State | Operations | What makes it correct |
|---|---|---|---|
| Preprocessor (`preprocess.c`) | the tokens of each file being read, the position in it, one table of macros and files | one per directive, replacement of identifiers, entering and leaving an include | the parser gets the text C defines; it ends |
| Tokenizer (`tokens.c`) | the source text, blanked pass by pass, and the tokens at their positions | comments, strings, keywords, operators, names, numbers | each character belongs to one token, whatever the order of passes |
| Parser (`parser.c`) | the current token, the tree | recursive descent | the tree is that of the program, precedence and associativity included |
| Types (`parser.c`) | the last type and structure read, in two globals; the table of structures and typedefs | read a type, define a structure or a typedef | a declaration gets its type whatever was read before it, members do not overlap |
| Tree memory (`parser.c`) | the list of all nodes, with its first and last | new, copy, free | each node is freed once |
| Symbol tables (`symbol_table.c`) | a tree of scopes with variables, offsets, labels | create a child, insert and look up, maximum offset | no two variables in scope overlap, all lie in the frame, names are found in C's order |
| Switch labels (`symbol_table.c`, `parser.c`, `codegen.c`) | labels in scopes and the links between them | insert, thread, compare | the label C names is reached |
| Control flow (`codegen.c`) | a context passed by value: the labels of break, continue and return | one per statement | jumps go where C says |
| Expressions (`codegen_expr.c`) | the context's short-circuit labels; in the generated program rax, rbx, r12 and the stack | one per operator | value, effects and stack are what C says |
| Calls and functions (`codegen.c`) | registers and stack at a call | arguments, alignment, prologue, epilogue | the callee finds its arguments, the caller its registers |
| Global data (`codegen_declr.c`) | none | print | |
| Vectors and strings (`util/`) | size and capacity | push, insert, resize | no access past the capacity |
| Driver (`compiler.c`, `util/file_helpers.c`) | options | run the phases and external commands | failure is reported |

How they interact: the preprocessor calls the tokenizer for each file and for
the value of each macro, and inserts one vector in another.  The parser pulls
tokens through one global pointer and calls the symbol table for every
declaration, scope and name; nodes hold copies of `Variable` and `Function`,
and pointers to labels.  The generator reads the tree and the labels' list.
The hard behaviours are listed as "hazards" in `PROJECT.json`, each at its line.

## Modules

| Module | Models | Uses |
|---|---|---|
| `BlockStorage` | what C promises about automatic variables | |
| `SymbolTable` | scopes and offsets of one function after another | refines `BlockStorage` |
| `SymbolTable_proofs` | its theorems: types, offsets, slots, the order names are found in, the refinement of `BlockStorage` | extends it and `Induction` |
| `SwitchLabels`, `SwitchLabels_proofs` | labels of switches, from the parser to the comparisons; theorems | |
| `CodegenControl`, `CodegenControl_proofs` | break, continue, return and the labels of statements; theorems | |
| `AstMemory`, `AstMemory_proofs` | the list of nodes and its theorems | |
| `ExprCode` | the generator for expressions, as operators | extends `Parser` |
| `ExprMeaning` | what C says of expressions, and where the code agrees | extends `ExprCode` |
| `CodegenExpr` | tokens, parser, generator and a machine that runs the code | extends `ExprMeaning`, composes `Parser` and `ExprCode` |
| `Preprocessor`, `Preprocessor_proofs` | the walk over files with directives; theorems | |
| `PreprocessorMeaning` | what C makes of the files, and where the code agrees | extends `Preprocessor` |
| `Tokenizer` | the passes over the text | |
| `Parser` | the parser of expressions, from tokens to the tree with its types | |
| `ParseExpr` | that tree against C's grammar and types | extends `Parser` |
| `Types`, `Types_proofs` | types, structures and typedefs, declaration after declaration; theorems | |
| `Calls`, `Calls_proofs` | a call and the function called, run on registers and a stack; theorems | |
| `Induction` | induction, least and greatest elements, counting, functions defined by recursion: lemmas | |
| `MC...` | instances for TLC: types, expressions, files, symmetry | extend the module named |

An operator named `...Mutant` is a wrong version of the definition it is named
after; no specification uses it.  It shows that a property depends on that
definition: with the mutant in its place TLC reports the property violated.

### SymbolTable

Scopes are kept in the order of their creation (`scopes`), each with the kind of
construct and `cur_stack_offset`; `open` is the chain of scopes the recursive
descent is in, `slots` the variables with the bytes they occupy.  A variable at
`[rbp - stack_offset]` has the bytes `stack_offset - size + 1 .. stack_offset`
below rbp.  Actions are named after the constructs: `BeginFunc`, `Param`,
`EndPrototype`, `BeginBody`, `DeclareVar`, `DeclareArray`,
`CallReturningStruct` (the hidden `temp_struct_return`), `Conditional` (if,
while and do add 8 to the offset of the scope they stand in), `OpenBlock`, `OpenFor` with `ForCondition` and
`ForIncrement` (8 each), `OpenSwitch`, `CloseScope`, `EndFunc`, which takes the
maximum over the scope tree.  A call that returns a struct can stand in any expression,
also in the condition of a `for`.  Two declarations of a name in a scope are
left out, as C forbids them and the parser relies on it.

`unit` of a type is what `insert_var` aligns by: the type's size, or for a struct
the size of its first member.  For a pointer to a struct the code takes the
first member's size too (`var.type.type == TY_STRUCT`), so `unit` may exceed
the size; the type `Outer` of the run is such a pointer.  `VariablesAligned`
judges every slot that this can align at all: the unit divides the size of the type,
and for an array the 8 bytes of an element.

### SwitchLabels

`scopes` is the tree, `labels` the labels with their scopes, `next` the field
`ValueLabel.next`.  `Find` is `symbol_table_find_labels_recursively` and threads
memory exactly as the code does: own labels in order (`Hang`), then each child
that is no switch (`Entered`), always from the last label of its own (`CurLabel`).
Labels and scopes are numbered in the order the parser makes them, so a vector of
the code is a set of numbers here, and `Find`, whose argument `c` is the number of
the next child, a recursive function.  `CloseSwitch` stores the head, as
`parse_switch` stores it in the node; `Walk`, `ListFrom` and `Dispatch` are
`gen_asm_switch` reading the list later.

### CodegenControl

A frame is a list of statements that is being generated with its own copy of
the context.  `Enter` and `Leave` make and place labels; `Leave` takes the
context that the rest of the outer list goes on with: the context received for
blocks, switches and conditionals, the changed one, with freed labels, for while
and do-while loops.  A `for` statement sits in a block of its own, so its list
goes on with the intact context.  `jumps` records each jump with the label C
asks for, `None` when the generator has not made one.

### AstMemory

`list` is the pair of static pointers and the field `next_mem`.  `NewNode` is any
`ast_node_new`, `PushDown` any place that copies a node over a new one.
`EndItem` is the allocation of `node->next` in `parse_program`, after each
function and global.  `ast_node_free` is modelled call by call.

### ExprCode, ExprMeaning and CodegenExpr

These compose the parser with the generator and run the result.  `CodegenExpr`
shares `expr`, `tokens` and `node` with `Parser`; `ParseTokens` is the
parser's action, `Generate` gives its tree to `Gen`, `Run` starts the code on one
of the memories, and every other action is an instruction, or a few that always
come together.  `Gen` and the operators below it are the functions of
`codegen_expr.c`, which has one family for each class of type: `UnaryInt`,
`UnaryFloat`, `UnaryPtr`, `UnaryStruct`, and `BinaryInt` and so on, chosen by the
`cast_type` that the parser gave the node.  So a type the parser gets wrong shows
here as a wrong instruction, and a wrong tree as a wrong value.

`Eval` is C: it gives the value, memory and calls of the expression as it was
written.  It says `unsure` where C leaves the behaviour undefined (a zero
divisor, an address outside every object), and for negative dividends, which the
generator is known to get wrong (`codegen_expr.c:319`).  Where C leaves the order
of evaluation open it takes the generator's.  `Alu` and `Fpu`, what an
instruction computes, are used on both sides: the properties are about which
instructions run, in what order, on which operands and with what conversions.

Memory has a cell for each scalar object with its size, at the addresses a
layout gives them; an access of the wrong size or place traps.  A called
function changes rbx and r12, as ccic's own functions do, and a global.
`Generate` has no step when the generator ends with `codegen_error`; the run
checks deadlock, so no expression that is `Safe` is refused.

### Preprocessor and PreprocessorMeaning

`files` is the chain of calls of `preprocess`, each with its tokens and
position; `table` is shared.  `InsertTokens`, `Trim` and `Expanded` are what the
code does to vectors.  `PreprocessDefine` sets the position to the end of the
value's tokens, as the code does by using one table for both, and always adds an
item: the search for one to override compares names with a value that ends in a
blank (`preprocess.c:146`, `string_helpers.c:103`).  `Continue` is the
`i++` of the loop.  `ScanForEndif` counts with `Depth`, which is `endifs_left`.
`FilesAssumption` says what the tokenizer makes of a file: a directive carries a
name, a `#define` a sequence of identifiers and literals; macros with
parameters are not known to ccic.  `skipped` is a history variable: a value
longer than the place of its definition has sent the walk past something it had
still to do (the limit at `preprocess.c:160`).

`InC` of `PreprocessorMeaning` computes C's text and macros.  A macro has its
value, which C expands where it is used, and what the value meant where it was
defined, which is what the code stores.  `unsure` are the files in which the code is
known to differ: a macro defined again with another value, or undefined after it was
defined twice; a name used before it becomes a macro, which the walk replaces
when it comes back; a value that means something else where it is used than where it
was defined; a file included again that may have been marked by the `#pragma once`
of another (`marked`).

### Tokenizer

`text` is the source with what has been recognised blanked out, `tokens` the
vector with one place for each character; both are what the passes share.  There
is one action for each pass of `tokenize`, in its order.  `StrContains` and
`StrContainsWord` are the searches of `string_helpers.c` with their resets, not
C's idea of finding a word: that after a mismatch the search does not look at
the same character again, and that the boundary flag stays set inside a word,
is what could go wrong.  `Lex` is C: the longest token from the left.
`TokensRight` compares the two on texts that are C (`IsC`) and `Plain`.

### Parser and ParseExpr

`ParseExpression`, `ParseAtom` and the operators around them are the functions
of the parser, each with the place of the next token; a node carries
`cast_type` and the structure that `.` and `->` look their member up in.  The
behaviour writes an expression down by C's grammar, parses it and compares:
`GroupedRight` the trees, `AccessesRight` the types of everything that is
loaded, stored or stepped over.

### Types

`latest` and `latestStruct` are the globals, `objects` the symbol table's
objects, `open` the structures whose members are being read.  `AcceptType`
overwrites the fields that the code overwrites and leaves the others as the
declaration before left them.  Beside this, `structsC` and `typedefsC` say what
C makes of the same declarations: a structure that is being read carries, beside
the compiler's members, what C says of the members so far (`said`, grown by
`Said`), which is the layout of the ABI, with the 8 bytes that the compiler
gives an enum; C leaves that to the compiler, and gcc has 4.  A structure of the program cannot be
used by value before it is complete (`Complete`), as C asks, and a typedef takes
its completeness from what it names, another typedef included (`TypedefOfC`).
`Brackets` is the end of `accept_type`: for a name with `[]` behind it the type
becomes a pointer, to 8 bytes whatever it pointed to before when there is a star
(`parser.c:226`).  The tokens are then read again by the caller, and none takes them:
a variable's array needs an expression for its size, and parameters, members and
typedefs have no brackets.  So `RefuseBrackets` ends the behaviour, and `char *argv[]`
declares nothing (TODO in `compiler.c:17`).  Arrays of a size, which get their
pointer level from `parse_array_declaration`, are left to `SymbolTable`.

### Calls

`m` is the machine: the stack above the caller's, argument registers, rax, al,
rbp, the slots of the parameters and the caller's temporary for a structure.
The actions are the stretches of generated code in their order: alignment,
three passes over the arguments, pops into registers, the call and prologue, one
round per parameter, the registers kept for a variadic function, body, epilogue
and what the caller takes down.  Words carry their meaning (an argument and its
class, a saved rsp, an address), so a word in a wrong place is seen wherever it
ends up.  `AbiWord` is the convention in the comment of `gen_asm_func_call`.

## Runs

| Run | Checks | Bounds | Result |
|---|---|---|---|
| `SymbolTable` | disjoint, framed, aligned slots; lookup; refinement of `BlockStorage` | 4 scopes (a function, its body, a `for` or switch with a block), 3 variables of 4 types, arrays of 3 | holds |
| `SwitchLabels` | dispatch, lists and their stability | 7 scopes, 4 labels: two switches nested or in a row with blocks between | holds |
| `SwitchLabelsLost` | the comment "Find all lower scope value labels" | the same with 6 scopes | violated |
| `CodegenControl` | jumps, labels, contexts | 7 labels, that of return included, nesting of 4 | holds |
| `CodegenControlBreak` | "Latest end label for loops and switch" | the same, any break | violated |
| `AstMemory` | list, frees, leaks, termination | 9 nodes, 2 trees | holds |
| `CodegenExpr` | value, effects, stack and its alignment, from the tokens to the machine | 2162 expressions: all integer expressions of one operator, those of two and three operators where contexts and registers meet, every operator on each class of type with the conversions between them; 18 memories; one register for each class of arguments, so that calls of two arguments use the stack | holds |
| `Preprocessor` | text, directives, errors, termination | files of up to 4 lines of 10 kinds, with values of up to 2 tokens, 5 header directories | holds |
| `Tokenizer` | the tokens are C's | an operand, any operator, up to two prefix and one postfix operator; words, quotes and comments, numbers of up to 5 characters; directives of 4 pieces; the keywords `do` and `...` | holds |
| `ParseExpr` | trees and types | up to three operators over six variables, a call and a literal, with all types they allow; every pair of binary operators grouped both ways | holds |
| `Types` | layout of structures, types of variables | 4 declarations, nested as they may be, of 2 structures of 1 or 2 members and 2 typedefs, which may name each other; 14 types, among them an enum, `static`, `extern const` and empty brackets | holds |
| `Calls` | arguments at the call, parameters, caller's stack | 5 parameters of 4 classes and any conversion; variadic with up to 3 additional arguments; 3 integer and 2 floating point registers, so that both kinds spill and meet on the stack | holds |

Why the bounds suffice: each interaction the properties are about needs few
actors.  An overlap needs two variables and the scopes between them, and three
kinds of constructs that reserve bytes; a lost label needs two blocks in
one switch; a stale context a loop, a statement after it and a loop around both;
a cycle in the list one copy and one more node; a label inherited wrongly three
operators; a moved position a definition, something before and something after;
a token cut wrongly two operators and their neighbours; a wrong tree two
operators of different levels, a stale structure a third; a stale field of a type
one declaration that sets it and one that does not, with a typedef between; a
lost argument one more than the registers of its class, and one of the other class.
Two bounds of `CodegenExpr` are simplifications: 2^64 is 2^8 (`Bits`), and only
division, shifts and bit operations depend on it, for operands far below it; and
doubles are multiples of 1/2, in expressions whose results are.

`Careful` is the condition of four runs.  In `CodegenControl` the passing run
generates a break or continue only where `JumpSafe` holds: not out of a do-while
loop, and not behind a while or do-while loop in the same body.  In
`CodegenExpr` it takes the expressions that are `Safe`: an operator shares the
label of the one above it only as its left operand, the left operand of
an `||` is 0 or 1 or its right operand has no effect (`SafeLogical`), doubles,
addresses and `sizeof` stay within what the next section lists (`SafeDouble`,
`SafeAddress`), and the expression is `Plain` for the parser.  In `ParseExpr` and `Calls`
it takes the expressions and calls that are `Plain`.  `TokensRight`, `LayoutRight`
and `DeclaredRight` name their conditions themselves (`Plain`, `PlainMember`,
`PlainType`, `PlainFlags`).  Each condition was added for a
counterexample of TLC; the passing runs show that they are enough.

Fairness is assumed where something has to happen: `FreeReturns` needs weak
fairness of `AstFree`, `Terminates` of `Next`; `ParseExpr` and `Calls` state it
too, so that a behaviour gets to its end.  One thread runs and waits for
nothing, so a step that can be taken is taken.  Deadlock is not checked where a
behaviour ends: when the process, the text, the expression or the call is done,
or a bound is reached (`SwitchLabels`, `CodegenControl`, `Types`).
`CodegenExpr` has an action `Done` instead, so that a machine that cannot go on
is found, such as one that pops from an empty stack or takes a stack pointer
that is none.  `Calls` has the phase "crash" for a return to a word that is no
return address.

## What the violated runs show

1. Labels in two blocks of one switch: the second block unlinks those of the
   first (`symbol_table.c:265`).
2. `break` in a do-while loop leaves another statement (`codegen.c:880`);
   `continue` there jumps to the body without evaluating the condition.

## Where the code is known to differ from C

The passing runs leave these aside, each by a condition of the module named.
Most are limits of a small compiler and not promised to work.

- `Tokenizer`: a quote in single quotes and a string that ends in a backslash
  (`tokens.c:156`); `do_do`, and `sizeof` inside a word
  (`string_helpers.c:287`, `:332`); letters in numbers; a dot at the end of a line.
- `ParseExpr`: a postfix operator behind parentheses or a call is applied after a
  prefix operator in front of them; `++` behind an atom is read before `[`, `.`
  and `->` (`parser.c:734`, `:906`); the structure of `(*pp)->m` or of a cast is
  unknown; `1 + &c` and pointers as the second operand of a
  pointer (`parser.c:1496`).
- `Types`: a structure in a structure is aligned by its first member
  (`parser.c:353`); its widest member through a typedef that is older than the
  structure, where the size is rounded by too little or divided by 0
  (`parser.c:356`, `:376`); a typedef of a pointer to a structure
  (`parser.c:255`); `static` and `extern` in front of a structure, `extern` in
  front of a typedef, `const` in front of both (`parser.c:396`, `:244`); an enum
  has 8 bytes, where gcc's has 4 (`parser.c:310`); `x[]` is refused.
- `Calls`: a variadic call whose fixed parameters are of several types
  (`codegen.c:489`), a floating point parameter behind a structure
  (`codegen.c:697`), a variadic function with more than six parameters
  (`codegen.c:737`) or with a structure for its result and arguments on the
  stack (`codegen.c:727`).
- `SymbolTable`: arrays of structures of more than 8 bytes get 8 bytes for each
  element (`parser.c:1101`); `SmallElements` excludes them from the proofs, and
  the run has none.
- `CodegenControl`: behind an inner while or do-while loop, break and continue
  print a string that was freed (`codegen.c:872-874`, `890-891`).
- `CodegenExpr`: in `!(a && f(b)) && !a` the inner operator jumps past the
  negation (`codegen_expr.c:894`); with `a && (b && c)` the jump also leaves a
  pushed value behind.  A negative dividend loses its sign (`:319`).  The address
  of a global is that of the frame's base (`:170`); `p - q` scales q (`:811`).  A
  double member that is not a variable's is looked for at an old xmm0 (`:532`),
  and a pointer to a double is loaded like a double when it is a member (`:61`)
  and converted like one by `&&`, comparisons and casts to integers (`:935`).
  `i += d` computes and assigns as integers (`parser.c:1484`), as does `l + 1.5`,
  a literal having no bytes (`parser.c:970`).  `!`, `&&`, `||`, `++` and `--` of
  doubles are refused (`:509`, `:615`).  `sizeof` of an operator or a literal has
  the parser's size of it, such as 0.
- `Preprocessor`: a value longer than its definition's place in the file makes
  the preprocessor skip lines (`preprocess.c:160`).  A macro defined again keeps its
  first value, and `#undef` removes one of the two (`:166`).  A value is expanded
  where it is defined; a name that was used before its definition is replaced when
  the walk comes back; and then a `#pragma once` that came with an included file
  marks the file around it (`:50`).

## Proofs

The theorems hold for every value of the constants that satisfies the assumption
of the module (`TypesAssumption` and `BoundsAssumption` in `SymbolTable`,
`SwitchAssumption`, `MemoryAssumption`, `ControlAssumption`, `CallsAssumption`,
`TypesAssumption` in `Types`, and `FilesAssumption` in `Preprocessor`): that bounds are
numbers, sizes positive, names distinct, files made of tokens.  Four
theorems assume that `SmallElements` holds, and all of `Calls_proofs` and two
of `CodegenControl_proofs` that `Careful` does, as the runs do, and `NothingSkipped`
that `ShortValues` does; these are the conditions under which the code is right.

**Frames** (`SymbolTable_proofs`).  `Structure`, the part that needs no
condition, is the types, `PhaseInv`, which ties the chain of open scopes to what
is being parsed, and `OffsetsNested`: offsets grow along the chain and cover what
was declared in it.  It gives `Typing`, `Nesting` and, together with the rounding
of `insert_var`, `Alignment`.  `LiveSlotsDisjoint` is not inductive by itself: a
new variable ends above its scope's offset, so one needs to know that the offset
covers every live variable, those of scopes further out included.  `FrameInv`
keeps `off - size` nonnegative and, once a function is complete, every slot
within the frame.  Both need that an array element has at most 8 bytes
(`SmallElements`), since the code reserves 8 for each.  The lemmas `AlignRoom`,
`SlotEndRoom` and `ArrayRoom` say that rounding up leaves room for the variable.

**Lookup** (`SymbolTable_proofs`).  The search goes by scopes, C's rule by the
order of declarations.  They agree because, of two live variables, the one further
in was declared later: a scope is closed before its parent declares anything
more (`LookupInv`).

**Refinement** (`SymbolTable_proofs`).  The blocks of `BlockStorage` are the
variables of the open scopes.  Each step of the parser enters a block, creates an
object, leaves one or all blocks, or maps to a stutter; that an object is created
on fresh bytes is `LiveSlotsDisjoint` after the step.

**Switch labels** (`SwitchLabels_proofs`).  A lookup writes to labels, so nothing
can be said of a list before one knows who wrote a link.  The invariant says
that a label was linked by the lookup of its own switch and by no other
(`ILinks`): until that switch ends its link is unset, then it is `NULL` or leads
to a label of the same switch, itself linked, that comes later by scope and
number (`Precedes`).  It needs the shape of the tree (`ITree`: a parent has a
smaller number, the body of a switch comes right behind it) and that a switch
that is looked up is not open any more (`IOpen`).  `IHeads` ties the stored head to
the labels of the body.  What `Find` writes is shown by induction on the number
of the child: only the label it was given and labels of scopes below, none of
them behind a switch; it leaves all others alone, and where the label it was
given had labels of its own scope behind it, those stay.  From this `Lists`
follows: a walk along growing labels meets each at most once, so it ends, and it
passes all labels of the body.  `Dispatching` adds that a value occurs once in a
switch, and `ListsStay` that the labels of a list belong to a switch no later
lookup enters.  That labels of two blocks lose each other is
untouched by this: the theorems are about the labels in the body, and
`AllLabelsListed` is violated.

**Node memory** (`AstMemory_proofs`).  The invariant says for each phase
what the links are: while an item is built all but the last are right (a copy
damages only the last, a new node repairs it), between items the last is
`NULL`, and during the two passes of the freeing the calls are exactly the
nodes in order, those freed already cut off at the end.  `FreeAdvances` is the
safety half of the termination of `ast_free`: each of its steps makes `Remaining`, a
natural number, smaller.  That steps happen is `FreeReturns`, which TLC checks.

**Control flow** (`CodegenControl_proofs`).  The invariant says who owns a label
(the statement that made it), what of it is still to be placed (`IPlaced`), which
statements a list's context points to (`IContexts`, `IInner`), and that the jumps
made so far have the label C asks for (`IJumps`).
The context is right up to the first while or do loop of a list that has ended,
which is as far as `ContextsIntact` goes.  That every label is placed once and
none forgotten (`EachLabelOnce`) needs no condition; where jumps go does
(`JumpsReachTarget`, `LabelsDefined`).

**Calls** (`Calls_proofs`).  The caller counts from the last argument down, the
callee from the first parameter up, each for itself.  The first part shows that all
these counts are ranks of an argument within its class, for any number of
registers of each class; the counting lemmas of `Induction` carry this.  The
second follows the stack: `CallerStack`, `FloatsPushed`, `AllPushed` and `Entered`
are its contents at each point, and the invariant says which of them it is in each
phase, which registers still hold their argument, and which slots are filled.

**Types** (`Types_proofs`).  The invariant says that each entry of the object
table (`Tables`) and each structure being read (`OpensIn`) agrees with what C
says of its name: the members are where C puts them as long as C's members are
`plain`, they never overlap, the entry's type is that of the name.  Nothing is
said of what the last declaration left in `latest`: `Accepted` shows that what
`accept_type` yields for a plain type without brackets depends on the table alone.  Proving
`LayoutRight` found an error of an earlier model, in which a typedef of a typedef
forgot whether its structure was complete; the run has such typedefs now.

**Preprocessor** (`Preprocessor_proofs`).  A vector changes while it is walked,
and the position goes back with most definitions, so that a directive may be
passed several times or moved before it is reached.  The invariant says that
nothing in front of a position is still to be done (`Pending`), in the file that is
read and in each that waits for it (`IPassed`), and that the position of a waiting
file is that of its directive (`IPlaces`).  For a step to keep this, what it inserts
must hold nothing pending: the values of macros are words (`Words`), and an included
file comes back only after its own walk.  The `#include` that stays in the
vector because its file is included once must go on being one: the table grows
and marks are only added (`TableGrows`), and `#undef`, which names macros, removes no
file (`ITable`; that macros and headers have different names is part of
`FilesAssumption`).  A walk that a long value sends past a directive loses it:
`Directives` holds unless that has happened (`skipped`), and nothing but the step
of such a definition sets `skipped`, for a walk sent past what is done
already breaks nothing.  `NothingSkipped` shows that it does not happen to files that
have `ShortValues`, a condition on their text alone: each value is free of macros and
no longer than its place.  Insertions move a definition only to greater places, and
a literal value expands to itself.  The file may have any length, nesting and
number of headers.

**Induction**.  The library's induction theorems take an operator as parameter, which the
provers cannot instantiate.  `Induction` states induction on the natural numbers
for a set and applies it to the set of numbers for which a fact about counting
holds; `Calls_proofs`, `CodegenControl_proofs` and `SymbolTable_proofs` use these
facts.  `Iteration` and `Climbing` say that a function given by its value at one end
of an interval and a step towards the other exists, which the definitions of
`SwitchLabels` and `Preprocessor` need before anything can be said of their values;
`StaysIn` says that such a function stays in a set its steps do not leave.  Induction over
trees and expressions is not reached this way.

Model-checked only:

- liveness (`FreeReturns`, `Terminates`), which has no proof rule here that the provers
  can apply to fairness and ENABLED;
- the properties of `CodegenExpr`, `Tokenizer` and `ParseExpr`, and `OutputRight` and
  `ErrorsJustified` of `PreprocessorMeaning`.  They compare what the code makes of a text, a file or an expression with a
  reference that is recursive over the same data, and an invariant that carries
  this needs induction over data.

## Not modelled

Constant expressions and initialisers, which token sequences are statements,
the values of enum members and the enums whose list cannot be read
(`enum {A = 5}` does not end, `parser.c:292`), unions; in expressions 4-byte floats, string and character
literals, constants and static variables, calls that take or return structures by
value (`Calls` has these); goto, the builtins other than `va_begin`; the capacity of vectors; and
`codegen_declr.c`, the driver and its external commands, which keep no state
from one step to the next.  Character strings, directories, formatting and debug
annotations are abstracted everywhere.

## Plan

1. Done: frames, switch labels, control flow, node memory, expressions,
   the preprocessor; theorems about frames and node memory.
2. Done: the tokenizer, expressions and their types, structures and typedefs,
   calls; the composition of parser, generator and machine.
3. Done: proofs of all invariants of `SymbolTable`, `SwitchLabels`, `AstMemory`,
   `CodegenControl`, `Calls` and `Types`, of the stability of the labels' lists, of
   the refinement of `BlockStorage`, and of the walk of `Preprocessor`.
4. Proofs about the passes of `Tokenizer`, of what holds without the reference:
   places in range, nothing read twice.
5. goto in `CodegenControl`; statements between `ParseExpr`'s
   expressions; initialisers.
