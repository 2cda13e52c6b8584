# TLA+ models of the OpenSMTPD table layer and smtpctl parser

This directory holds TLA+ models of the code under `src/`. The runs are
model-checked with TLC, and the main safety invariants of the static and
db backends are proved with TLAPS.

## The system

`src/` holds three parts of OpenSMTPD:

- `src/unnamed/part_000` is the **static table backend** (`table_static_*`).
  - A table is a `struct table` that holds an ordered list of `(key, value)`
    entries (`t_contents`), a name (`t_name`) and an id (`t_id`).
  - `table_static_config` fills the list from a configuration blob.
  - `table_static_update` reloads a table.
    1. It creates a fresh table `t` and parses the configuration into it.
    2. On success it swaps the names of `table` and `t`, exchanges their ids
       with three XORs, and destroys `table`.
    3. On failure it destroys `t`.
  - `table_static_lookup` finds the first entry with the key.
    - Asked only for presence, it answers 1 or 0.
    - Otherwise it duplicates the value and hands it to the **record decoder**
      of the requested service.
  - There are four record decoders:
    - `table_static_credentials`: `user:password`;
    - `table_static_alias` and `table_static_virtual`: a comma list of
      recipients, each one trimmed and given to `alias_parse`;
    - `table_static_netaddr`: the whole value given to `text_to_netaddr`.
  - `table_static_compare` asks whether some key satisfies a predicate.
- `src/smtpd/table_db.c` is the **persistent (db) backend**. It uses the same
  four decoders over values read with `db->get`. The length it passes is the
  stored size, which counts the terminating NUL.
- `src/smtpd/parser.c` is the **smtpctl command parser**.
  - `parse()` walks token tables (`t_main`, `t_show`, ...).
  - `match_token()` accepts an argument that abbreviates exactly one keyword
    of the current table, or fills the table's variable slot. It records the
    token's action and data.

The parts interact as follows. Both backends call the same decoder logic. The
table layer (`table_create`, `table_destroy`, `table_find` and the
configuration line parser) is not under `src/`. The static backend calls into
it, so it is modelled from the spec only as far as the backend relies on it.
The parser is independent of the tables.

## Modules

| Module | Models | State and actions |
|---|---|---|
| `TableDecode` | The four decoders (part_000 195-338), the decoder switch of lookup, and the len of each backend (`StaticLen`, `DbLen` from `table_db_get_entry`) | Pure operators. `DecodeCredentials` splits at the first `:` and applies every bound of the code. `Tokens`/`Trim`/`ExpandNodes` model the strsep loop at the level of sets and sequences. `alias_parse` and `text_to_netaddr` are constants. |
| `TableDecodeHarness` | The decoder switch of `table_static_lookup` (part_000 132-174) as a harness | One lookup hands one value to one decoder (`DecodeStep`). It states `CredentialsContract` and proves it for the static len (`StaticCredentialsContract`). |
| `TableDecodeLoop` | The strsep/trim loop of `table_static_alias`/`_virtual`, character by character (RECURSIVE; TLC only) | Extends the harness with `LoopDecode` and `ExpandDecodeIsLoop`. A failing token leaves the nodes inserted before it in the struct, as `expand_insert` does; `LoopDecode` discards them at `error:` (`*retp = NULL`). |
| `TableStatic` | `table_static_config/update/lookup/compare/open` | There is a pool `Obj` of table blocks. Each block has `live`, `t_name`, `t_id` and `t_contents`. `last_id` is the id counter. `held` records the block each configured name was created in, which is what a caller holds. `reply` records the last return. The update is three actions: `UpdateNoConfig`, `UpdateSwap` and `UpdateFail`. A lookup is an action per answer, and so is a compare. |
| `TableAbstract` | What a table promises (spec 3, 4.2, 4.4, 7) | `tab[n]` holds the entries and `tid[n]` the id. `Update` replaces the entries atomically or changes nothing. `Lookup` answers from the first match, decoded with the backend's len (the parameter `ValueLen`). `Compare` is there too. |
| `TableDB` | `table_db_config/open/close/update/lookup/compare` and `table_db_get_entry` (table_db.c 73-182); the four db decoders are `DbDecode`, the static ones with `len = dbv.size` | `store` is the file, a function from keys to values or `Absent`. `hdl` is `"closed"`, `"db"` or `NULL` (dbopen failed). `proc` is `"running"`, `"exited"` (errx) or `"crashed"` (a NULL dereference). `reply` is the last return. A lookup is one action whose alternatives are `LookupNullHandle`, `LookupKeyTooLong`, `LookupNotFound` and `LookupDecode`. `CompareScan` is the seq loop. The constants `IOFaults` (get and seq may return -1) and `PresenceLookups` (callers pass `retp == NULL`) switch the faults on. |
| `Parser` | The token tables and `parse`/`match_token` | The state is `argv`, `argc`, `table`, `res` and `status`. There is one action per loop iteration: `MatchOne`, `NoMatch` (no match or an ambiguous one), and `Finish` (the superfluous-argument check). `Paths` is a reference: the commands the tables describe, written out. |
| `TableDecodeLemmas` | Lemmas and a theorem about the decoders | `DecodeRetType`, `NatSetMin`, `FirstColonFacts`, `StaticCredentialsSound` |
| `TableStaticProofs` | TLAPS proofs about `TableStatic` | |
| `TableStaticRefinement` | TLAPS proof that `TableStatic` refines `TableAbstract` | |
| `TableDBProofs` | TLAPS proofs about `TableDB` | |
| `TableDBRefinement` | TLAPS proof that `TableDB` refines `TableAbstract` | |
| `ParserProofs` | The loop invariant `PInv` of `parse()`, the TLAPS proofs of `[]ParseSound` and `[]UnambiguousParse` | |
| `ParserCompleteness` | The loop invariant `CInv` on spelled commands and the TLAPS proof of `[]FullCommandsParse` | |

The MC modules (`MCTableDecodeLoop`, `MCTableStatic`, `MCTableDB` and
`MCParser`) give the constants small values. `MCParser` extends
`ParserCompleteness`, so that TLC evaluates the assumption
`GrammarPrefixFree` on every run of the parser.

`TableDB` refines `TableAbstract` through the instance `DbAbs`.

- The one table is named `"db"`.
- Its entries are the stored pairs in any order (`StoreSeq`). Hash order is
  unspecified, and keys are unique.
- Its id never changes.
- An update is the abstract update without a configuration. The end of the
  process (errx or crash) is the end of the behaviour.

Some things are modelled nondeterministically or by choice:

- **Uninitialized data.** The uninitialized local `name`, which is logged on
  two paths, is modelled as a choice between garbage and any table's name.
  No property is stated about it: what is logged is decided by that free
  choice, and the source line already says the buffer is never written.
- **Out of memory.** `strdup` failing in lookup is the action `LookupNoMem`.
- **Pool size.** Blocks freed by `table_destroy` may be reused, so three
  blocks are enough for two tables plus one update in flight.

## Runs

| Run | Checks | Result |
|---|---|---|
| `decode_static` (`MCTableDecodeLoop.cfg`) | `ExpandDecodeIsLoop`, `CredentialsContract` for every value of up to 5 characters over `a : , space @`, for every kind and two keys | passes, 62k states |
| `decode_db_credentials` (`MCTableDecodeLoopDb.cfg`) | `CredentialsContract` with `DbLen` | **violated**: `user:` decodes with an empty password |
| `static_table` (`MCTableStatic.cfg`) | `TypeOK`, `TableIdentity` and `AbstractSpec` (the refinement) | passes, about 14k states, 1 min |
| `static_held_dangling` | `HeldTablesCurrent` | **violated**: `table_destroy(table)` frees the caller's table |
| `static_decode_zero` | `ZeroMeansAbsent` | **violated**: a malformed virtual value answers 0, "not found" |
| `db_table` (`MCTableDB.cfg`) | `DbAnswerSound` with every fault on: failed opens, get and seq errors, presence lookups, over-long keys | passes, 13.6k states |
| `db_refines` (`MCTableDB_Refines.cfg`) | `DbAbstractSpec` with a store that does not fail and lookups that ask for the record | passes, 7k states |
| `db_presence_lookup` | `CrashOnlyOnFailedOpen` | **violated**: a presence lookup writes through `retp == NULL` on an open handle |
| `db_io_error` | `DbAbstractSpec` with get errors | **violated**: a get error on a present key answers 0 |
| `parser` (`MCParser.cfg`) | `ParseSound`, `FullCommandsParse` and `UnambiguousParse` (no ambiguous abbreviation is accepted) over every vector of at most 3 of 25 words: all keywords, `s`, `sh`, `m`, the empty string and `x` | passes, 42k states |
| `parser_empty_arg` | `NoEmptyArgument` | **violated**: `update "" table` is accepted |

### Why the bounds are enough

- **Decoders.** Five characters over that alphabet cover every branch.
  - Leading, trailing and only-space tokens.
  - Empty tokens: leading, trailing and doubled commas.
  - A `:` first, last or missing.
  - The line-length bound: `MAX_LINE_SIZE` is 5, so lines of length 4 and 5
    sit on each side of it. The field-size bounds (`USERNAME_SIZE`,
    `PASSWORD_SIZE`, also 5) cannot be exceeded by a field of a 5-character
    line, so TLC never takes those branches; `StaticCredentialsSound` and
    `StaticCredentialsContract` cover them for every size.
  - Keys with and without `@`.
- **Static table.**
  - Three configurations: one valid with one entry; one valid with a duplicate
    key whose first value does not decode; one invalid.
  - `MaxId = 5` allows three updates. That is enough to reuse a freed block
    and to exchange ids twice.
- **Db table.**
  - Keys of 3, 1 and 4 characters and one of 5, `MAX_LINE_SIZE`, which is
    never stored and hits the errx.
  - Values: a credential, `a:` (empty password), and a list.
  - Every file contents over those values, and two predicates (equality, and
    one that accepts a single stored key) so that a compare can hit a key
    other than the first.
- **Parser.** Three words reach the deepest tables. The chosen words include
  ambiguous abbreviations (`s`, `m`), a unique one (`sh`), the empty word and
  a variable value.

### Deadlock and fairness

- The decoder and parser runs set `CHECK_DEADLOCK FALSE` because the
  procedure they model returns. The final states are its results.
- The db runs set it because errx and a NULL dereference end the process.
- No liveness property is checked, and no fairness is assumed.
  - Every table operation is a single call with no waiting, so it is one
    step of the model.
  - The one loop, `parse()`, makes at most three iterations. Each one
    consumes an argument or ends the loop, and the tables are three levels
    deep.
  - TLC finds that `<>(status \in {"ok", "error"})` holds under
    `WF_vars(Next)`.
  - It still holds with a dropped `argc--` and with a `table` that is not
    advanced.
  - `match > 1` in place of `match != 1` changes nothing in C: with no
    match, `t` stays NULL and is returned.
  - A property that no faithful mutant breaks says nothing about the code,
    so none is stated.

### Mutants

Each property of a passing run has a mutant, a plausible bug that TLC must
catch:

| Property | Mutant |
|---|---|
| `ExpandDecodeIsLoop` | the trailing whitespace strip is dropped; and, in the loop, the error path leaves `*retp` on the partial expansion |
| `CredentialsContract` | the `p == line + len - 1` check is dropped |
| `TypeOK` | the presence lookup returns the entry's index |
| `TableIdentity` | the names are swapped without the temporary buffer |
| `AbstractSpec` | the ids are not exchanged |
| `ParseSound` | the superfluous-argument check is off by one |
| `FullCommandsParse` | the word is stored as data for keywords too |
| `UnambiguousParse` | `match != 1` becomes `match == 0`: an ambiguous abbreviation is taken |
| `DbAnswerSound` | an over-long key is truncated and looked up instead of errx |
| `DbAbstractSpec` | compare stops after the first key, matched or not |

## Findings

1. **`table_db.c:179`.** The db backend's len counts the NUL, so
   `table_db_credentials` accepts `user:` with an empty password. Its
   `MAX_LINE_SIZE` bound is also off by one.
2. **`part_000:99`.** A successful update destroys the `struct table` the
   caller holds. Seen by name, the tables still refine the abstract
   specification: the name moves to the new block.
3. **`part_000:316`, `:337`.** A decode error in virtual or netaddr is
   reported as absence, which contradicts spec 7.
4. **`parser.c:179`.** The empty argument matches every keyword.
5. **`table_db.c:113`.** `table_db_lookup` passes `retp` to the decoders
   unchecked. The static backend answers `retp == NULL` by presence, but
   here the decoders write through the NULL pointer.
6. **`table_db.c:176`.** A `db->get` error is reported as "not found",
   which contradicts spec 7's typed errors.

## Proofs

`TableStaticProofs` proves two theorems for every value of the constants,
under `ConstantsAssumption` (the pool and the configured names are finite,
there are at most `MaxId` configured names, and garbage is not a name):

- `TypeCorrect`: `Spec => []TypeOK`.
- `IdentityInvariant`: `Spec => []TableIdentity`.

### The inductive invariant

Neither invariant is inductive alone. The proof uses
`IInv == TypeOK /\ TableIdentity`.

- **Why TypeOK alone fails.** An update writes `t_name[Resolve(n)]`, which is
  a block only while `n` names a live table.
- **Why TableIdentity alone fails.** It needs the types to know what the swap
  writes.

`NextIInv` has one case per action.

- **The swap case.** It maps every live block after the step to the block it
  came from (`t` comes from `o`), and the uniqueness of names and ids carries
  over through that map.
- **Lemmas.** `DecodeRetType` (every decoder returns -1, 0 or 1),
  `ResolveLive` and `ConfigEntriesType`.

`TableDBProofs` proves two theorems for every file contents, key set and
predicate set, with or without store faults, under `DbAssumption`:

- `DbTypeCorrect`: `Spec => []TypeOK`.
- `DbAnswersSound`: `Spec => []DbAnswerSound`.

`DbAnswerSound` is not inductive alone. A lookup step keeps it only because
the key answered for is in the store's domain and the decoder's result is
typed. The proof therefore uses `IInv == TypeOK /\ DbAnswerSound`.

- One case per action, and one per lookup alternative.
- The steps that end the process leave the reply alone (`ReplyUnchanged`).
- The decode step rests on `DecodeRetType`.

`TableStaticRefinement` proves `StaticRefinement: Spec => AbstractSpec` for
all constants, under `ConstantsAssumption`. The abstract table under name
`n` is the contents and the id of the block `Resolve(n)`.

- **Invariant.** Every step is taken from a state satisfying `IInv` and
  reaches one. Name resolution is then unique (`ResolveIs`).
- **Init** (`InitMaps`). Each name resolves to its `held` block. The ids
  are distinct and between 1 and the number of names.
- **Successful update** (`UpdateSwapMaps`). The name moves from the old
  block `o` to the new block `t`. `t` holds the new entries and, after the
  XOR exchange, `o`'s id. Every other name stays on its block, which is
  neither `o` nor `t`.
- **Failed update** (`UpdateFailMaps`). It writes only the non-live block
  `t`, so no name moves.
- **Lookup and compare** (`LookupMaps`, `CompareMaps`).
  - `SelectInSeq` returns the least matching position (`FirstEntryFacts`,
    `CompareFacts`, both resting on `NatSetMin`).
  - That position is the single element of the abstract `first` set.
- **Instance copies.** The instance `Abs` has its own copies of the
  decoders and of `Cardinality`. `AbsDecodeIsDecode` equates them by
  definition.

`TableDBRefinement` proves `DbRefinement`:
`~IOFaults /\ ~PresenceLookups => (Spec => DbAbstractSpec)`. It holds for
every finite key set (`DbAssumption`) and every file, and it needs the two
hypotheses. The runs `db_io_error` and `db_presence_lookup` show that each
hypothesis is necessary.

- **The abstract table** is `StoreSeq(store)`: the stored pairs in the order
  `SetToSeq` picks.
- `SetToSeqBijection` and `StoreSeqFacts` show that this order lists each
  stored key at exactly one position. The first entry with a key is
  therefore the stored pair.
- There is one mapping lemma per action.

`TableDecodeLemmas` proves `StaticCredentialsSound` for every value and
every buffer size: `table_static_credentials`, given `strlen(line)`, meets
the contract `CredentialsSpec` of spec 4.1. It rests on two lemmas:

- `FirstColonFacts`: `strchr` finds the first `:`.
- `NatSetMin`: a non-empty set of naturals has a least element. It is proved
  from `WFMin` of `WellFoundedInduction`.

`ParserProofs` proves `ParseSoundProved: Spec => []ParseSound` for every set
of argument vectors of C strings (`InputsAssumption`).

- **The inductive invariant** `PInv` says what holds after each iteration
  of the loop.
  - The `Consumed` arguments spell a chain of entries from `t_main` along
    the `next` pointers (`Prefix`).
  - While looping, the current table is the last entry's `next` table, at
    depth `Consumed + 1` (`Level`), and `res.data` is NULL.
  - After the loop ends, the last entry has no `next`.
  - `res` is the chain's `PathResult`.
  - Each consumed argument matched its entry and no other entry of its
    table (`MatchedAlone`): `MatchOne` fires only on `OneMatch`, the test
    `match != 1` of line 202.
- **Why `ParseSound` is not inductive.** It says nothing until `status` is
  `"ok"`.
- **Why `res.data = NULL` is in the invariant.** `Record` keeps `res.data`
  for a keyword with a value, so the invariant must know it is NULL.
- **Lemmas.**
  - `GrammarShape`: only KEYWORD and VARIABLE entries; a VARIABLE ends a
    command; every `next` goes one level down, and the third level ends
    every command.
  - `PathResultExtend`: the result of a chain grown by one entry.
  - `BoundedNatSetMax`.
  - `FnIsSeq`.
  - `TableDomains` and `OneMatchSingleton`: a table has finitely many
    entries, so the one match of a word is the only element of its matches.

`ParserProofs` also proves `UnambiguousParseProved:
Spec => []UnambiguousParse`: a command parse() accepts has one reading as a
chain of table entries, for every argument vector.

- The same invariant `PInv` gives it. At `"ok"` the chain the loop walked
  is a path whose every entry was its argument's only match.
- `FitsMatching`: a word that stands for an entry is one of that table's
  matches (the tables have no NOTOKEN entry, and the word is no NULL).
- `SameChain`: two chains from `t_main` for the same arguments, the second
  matching each argument alone, agree entry by entry. Paths have at most
  three entries, so the lemma goes entry by entry without induction.
- Any path the arguments stand for is therefore that chain, and two such
  paths are equal.

`ParserCompleteness` proves `FullCommandsParseProved:
Spec => []FullCommandsParse`. Every command of the tables written out in
full is accepted, with its action and data, for every argument vector.

- **Assumptions.**
  - `InputsAssumption`.
  - `NullAssumption`: the NULL that ends `argv` is no string.
  - `GrammarPrefixFree`: in each table, a full keyword is a prefix of its
    own keyword and of no other. This is a fact about the string constants
    of `parser.c` lines 50-120. The provers cannot evaluate `IsPrefix` on
    string literals, so it is stated as an `ASSUME` that TLC evaluates on
    every run of the parser. Dropping it would leave the theorem unprovable,
    not false.
- **Lemmas.**
  - `VariableAlone`: a table with a VARIABLE entry has no other entry,
    proved table by table.
  - `PathFacts`: what membership in `Paths` gives.
  - `MatchUnique`: a word of a spelled command matches exactly its path's
    entry. For a keyword this uses `GrammarPrefixFree`; for a variable it
    uses `VariableAlone` and the word's being non-empty.
- **The inductive invariant** `CInv`, with `PInv`. For every path the
  argument vector spells:
  - `status` is not `"error"`;
  - while looping, the current table is the table of the path's next entry;
  - after the loop ends, the whole path has been consumed;
  - `res` is the result of the part walked (`Walked`).
- **The step.** `NoMatch` cannot fire on a spelled command, since the match
  is unique (`FS_Singleton`). `MatchOne` takes the path's entry, and
  `PathResultExtend` grows the result. `Finish` finds `argc = 0`.

`TableDecodeHarness` proves `StaticCredentialsContract`. Under the
hypothesis that `DecodeLen` is `StaticLen` on every value, it gives
`Spec => []CredentialsContract`: every credential value a lookup decodes
meets spec 4.1.

- The invariant `HInv` says that `out` is the decoding of `line` with the
  backend's len.
- The contract then follows from `StaticCredentialsSound`.
- The run `decode_db_credentials` shows that the hypothesis is needed: with
  `DbLen` the contract is violated.

### What stays with TLC

- `ExpandDecodeIsLoop`. It compares the decoders with a RECURSIVE
  character loop. Modules with theorems cannot reach RECURSIVE operators,
  and induction over data is out of the provers' reach.
- `GrammarPrefixFree`, the prefix relation between the keywords of each
  table. The provers treat strings as opaque values, not as sequences, so
  TLC evaluates it. `FullCommandsParse` is proved from it.
- `CredentialsContract` under `DbLen`. It is false: the finding of
  `decode_db_credentials`. Under `StaticLen` it is the theorem
  `StaticCredentialsContract`.
- The violated properties of the other violation runs. They are findings,
  not theorems.
- No liveness is stated (see *Deadlock and fairness*). Liveness and
  `ENABLED` are out of the provers' reach in any case.

## Not modelled, and the plan

- **A composition.** A `Table` module that dispatches to either backend
  through `struct table_backend`. The dispatcher (`table.c`) is not under
  `src/`.
- **More theorems.** `ExpandDecodeIsLoop` could be proved if the
  character loop were rewritten as recursive functions. The proof would
  argue by least counterexample (`WFMin`), since the provers cannot
  instantiate the library's induction rules.
- **Not under the model's resolution.** The one-byte over-read of
  `xmemdup(dbk.data, dbk.size + 1)` in `table_db_compare`.
  - Keys are whole values in the model.
  - Lookups search with `strlen(key) + 1` bytes, so the keys they find were
    stored with their NUL, and the extra byte lies after it.
  - Only a file written without NULs, by a tool outside `src/`, would hand
    `func` an unterminated string.
- **Output only.** `show_valid_args` in the parser only prints.
- **Left out.** The table layer (`table_create`, `table_find`, the
  configuration line parser), `alias_parse` and `text_to_netaddr` are not
  under `src/` and are treated as collaborators.
