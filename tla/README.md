# TLA+ models of beecrypt's multi-precision core

This directory holds TLA+ models of the Barrett-reduction arithmetic in
`src/mp32barrett.c`, of the dynamic numbers in `src/mp32number.c` and of the
SHA-512 context in `src/sha512.c`, of the hash-function context of
`src/beecrypt.c` that drives it and of RSA key-pair generation in
`src/rsakp.c`, the TLC
configurations that check them, and `PROJECT.json`. `PROJECT.json` is the
machine-readable inventory: the components, the runs, the mutants, the map from
definitions to source lines, the findings and the hazards.

## The system and how its parts interact

* **Barrett context** (`mp32barrett`): one calloc'd buffer holding `data`,
  `modl`, `mu` and a workspace.
  * `mp32bset` copies the modulus and computes `mu = floor(b^(2 size)/modl)`
    (`mp32bmu`).
  * `mp32bmodres` reduces a 2·size-word value with the estimate `q3`, then
    subtracts the modulus in a loop.
  * `mp32bmod`, `baddmod`, `bsubmod`, `bmulmod(res)` and `bsqrmod(res)` all
    end in `mp32bmodres`.
  * `mp32bpowmod` (sliding window, K = 4) and `mp32btwopowmod` call
    `mp32bnsqrmodres`/`mp32bmulmod` on the context itself, cast to a number.
  * `mp32binv` runs a binary extended gcd in the workspace.
  * `mp32brnd*res` draw residues through a random generator, and
    `mp32brndinvres` calls `mp32binv`.
* **Dynamic number** (`mp32number`): a size and a heap block, managed by
  `mp32nsize`, `nset`, `ncopy`, `nsetw` and `nsethex` (realloc/malloc), plus
  `nwipe` and `nfree`.
* **SHA-512 context** (`sha512`): `sp->h`, a 128-byte block buffer
  `sp->data`, `sp->offset` and the 128-bit bit counter `sp->length`.
  * `sha512Update` adds 8·size to the counter and then copies the data in a
    loop, calling `sha512Process` whenever the buffer fills.
  * `sha512Digest` calls `sha512Finish`, which appends 0x80, zeros and the
    counter, compressing one or two final blocks. It then encodes `h` and
    calls `sha512Reset`.
* **RSA key pair** (`rsakp.c`): `rsakpMake` mallocs a workspace `temp`,
  draws primes p and q (`mpprnd_w`, with e = 65535) and orders them so that
  p ≥ q. It loops, drawing more primes, until p·q fills `nsize` words. It then
  computes n, p−1, q−1, phi, d, d1, d2 and c, and frees `temp`. `rsakpFree`
  wipes the secret fields and frees every field. The `mp*` calls it makes are
  not in the repository.
* **Hash-function context** (`beecrypt.c`): `ctxt->hash` points at an
  algorithm's function table and `ctxt->param` at its malloc'd state.
  `hashFunctionContextInit`, `Free`, `Reset`, `Update`, `UpdateMC` and
  `Digest` dispatch through the table. `UpdateMP32` encodes a number's words
  big-endian (`encodeInts`), with a leading 0 byte when the top word's msb is
  set, and hands the bytes to the algorithm's update.

All of this code is single-threaded. The hard behaviours are the arithmetic at
word boundaries, long sequences of calls, allocation failure, and loops that
must end.

## Modules

| Module | Models | State / actions |
|---|---|---|
| `Mp32Words` | word vectors | words are naturals below 2^WBITS; `Wrap` is fixed-width wrap-around; `MsbSet` is the 0x80000000 test; `Signed` is two's complement |
| `Mp32Reduce` | `mp32bmu`, `mp32bmodres`, `mp32bmulmodres`, `mp32bsqrmodres` | operators: `MuOf` and `Q3`, built from the truncated partial products of the first loop; `RemOf`, `ModRes` and `SubsOf`, the number of final subtractions |
| `Mp32Barrett` | context lifecycle and arithmetic | variables are `size`, `mem` (the buffer exists), `modl`, `mu`, `data`, `want` (the exact result) and `subs`; there is one action per function (`BInit`, `BFree`, `BSet`, `BMod`, `BAddMod`, `BSubMod`, `BMulMod`, `BSqrMod`, `BNeg`, `BModSubOne`); calloc may fail (`AllocOutcomes`) |
| `PowModSpec` | what exponentiation promises | a single `Compute` step, with `result = base^exp mod modulus` |
| `SlidingWindowPowMod` | `mp32bpowmod` | one step per loop iteration: `Start`, `SkipWord`, `Test` (precomputes the odd-power table), `SkipBit`, `ScanBit` (driven by the presq/mulg/postsq tables), `NextWord`, `Flush`; refines `PowModSpec` |
| `TwoPowMod` | `mp32btwopowmod` | the same shape, with a modular doubling; `NextWord` follows the code's `if (psize--)` and reads any word past the end of `pdata` |
| `BinaryInverse` | `mp32binv` | variables `u`, `v`, `bb`, `d` on size+1 words; `Init` chooses the odd path, the even path, or the immediate `return 0`; actions `HalveU`, `HalveV`, `Subtract` (which also finishes) |
| `RandomResidue` | `mp32brndres`, `brndoddres`, `brndinvres` | `Draw` is any word vector; then the mask, `ReduceStep`, `Accept` (the `mp32leone` test) and `Invert` (succeeds exactly when the gcd is 1) |
| `Mp32Number` | `mp32number.c` | variables `size`, `buf` (non-null), `blen`; the heap is observed through `blocks` and `residue` (freed blocks still holding words), and `oob` records an out-of-bounds write; word contents are abstracted to `secret` |
| `Sha512Spec` | what a SHA-512 context promises | `msg` (the bytes since the last Reset or Digest) and `digests`; `SDigest` returns the blocks of the FIPS 180 padding of `msg` |
| `Sha512` | `sha512Reset`, `sha512Update`, `sha512Finish`, `sha512Digest` | variables `h` (the blocks compressed since Reset), `buf` (`sp->data` as bytes), `offset`, `length`, `pend` (the bytes the current Update still has to copy), `pc`, `out`; actions `Reset`, `UpdateCall` (the counter addition), `UpdateStep` (one loop iteration, including the flush at offset 128), `UpdateReturn`, `Digest` (Finish's padding in `FinishBlocks`, then Reset); refines `Sha512Spec` with `msg <- Message`, the compressed, buffered and pending bytes |
| `RsaKeyPair` | `rsakpInit`, `rsakpMake`, `rsakpFree` | variables `phase`, `p`, `q`, `newn`, `draws`; the heap seen per owner (`held`, `secret`, `leaked`, the owners whose block was released while holding secret words); actions `MakeAlloc` (malloc may fail), `MakeDraw`, `LoopBreak`, `LoopDraw` (the three branches on the new prime r), `MakeTail`, `KpFree`. Each `mp*` call is taken for what it computes: `mpprnd_w` returns any member of `Primes`, and `mple` is ≤ |
| `HashContext` | `hashFunctionContext*` bound to `sha512` | EXTENDS `Sha512`; adds `cparam` (`ctxt->param`: none, null, raw, live, freed) and the history `mpHashed` (the numbers given to `UpdateMP32` since the last Reset or Digest, with their bytes); actions `CtxInit` (malloc may fail), `CtxFree`, `CtxReset`, `CtxUpdate`, `CtxUpdateMP32` (via `MP32Bytes`), `CtxDigest`, and the `sha512Update` loop `UpdateLoop` |

`sha512Process` is abstracted inside the actions that call it. The chaining
value is represented by the sequence of blocks compressed, with the
compression taken as collision-free. Because the byte swap and the message
schedule overwrite the buffer, `sp->data` is left `Stale`. The 64-bit round
arithmetic is therefore not checked; what is checked is everything that decides
*which* blocks are compressed.

The `MC*.tla` modules define the finite sets TLC enumerates. Every `*NoX`,
`*Typo`, `*NoZeroSqr`, `*Strict`, `*Always`, `*Flipped`, `*Wide`, `*Unsigned` or
`*ShortDividend`, `*Bytes`, `*NoFlush`, `*Ge`, `*Short` or `*NoSign` operator is a fault model: a plausible bug in the definition
that follows it. `PROJECT.json` lists which property must catch each one.

## Runs

| Run | Result | What it shows |
|---|---|---|
| `barrett_ops` (MCBarrett.cfg) | pass | After any sequence of init, set, free (with failing callocs) and operations, `data` is congruent to the exact result, and `mp32bmodres` subtracts at most twice. This holds for all 1- and 2-word moduli except b^(size-1). |
| `powmod` (MCSlidingWindow.cfg) | pass | The window invariant holds, and `mp32bpowmod` refines `PowModSpec` for every modulus of 1 and 2 words and every exponent of up to 3 words, with every one-word base and the two-word bases 0, 2, 3, 7 and 15. These exponents include a full window followed by zero bits (the squaring at line 516) and a partial window, so the table entries act on values other than 1. |
| `twopowmod` (MCTwoPowMod.cfg) | pass | The doubling invariant holds, and `mp32btwopowmod` refines `PowModSpec` (exponents of up to 3 words), whatever the over-read word is. |
| `binv` (MCBinaryInverse.cfg) | pass | The Bezout relations and the gcd are kept, every call with x ≠ 0 returns, and the call returns 1 exactly when x is coprime to the modulus. |
| `hash_context` (MCHashContext.cfg) | pass | A context bound to SHA-512, driven through Init (with failing mallocs), Reset, Update, UpdateMP32, Digest and Free: every number is hashed as the bytes a signed big-endian reader takes for its value (`MpEncodingSigned`, also for the numbers with the top bit set); and after any sequence of calls the bit counter counts exactly the bytes held, every Update returns, and `Sha512` refines `Sha512Spec`: each Digest returns the padded blocks of exactly the bytes given since the last Reset or Digest, across block boundaries and at the extra-block edge of `sha512Finish`. |
| `number` (MCNumber.cfg) | pass | The heap counters stay in range over any sequence of calls with failing allocations, so no block is released twice. The number's real hazards (the hex overrun, unwiped frees, the size kept after a failed `mp32ninit`) are violations, checked by `number_heap`. |
| `rnd` (MCRandomResidue.cfg) | pass | For moduli above 6, every generator returns a residue in [2, m-2], odd or a unit where promised. |
| `barrett_radix_power` | violation | For modl = b^(size-1), `mu` overflows and the final loop subtracts 3 or more times (TLC: modl = 4, size = 2). |
| `binv_inverse` (MCBinaryInverseUnits.cfg) | violation | For every unit x, `mp32binv` should leave x⁻¹ mod modl. TLC finds the even path returning modl⁻¹ mod x (modl = 2, x = 1). The odd path has a second defect, a wrong and unreduced inverse (modl = 27, x = 20), which is listed as a hazard. |
| `rsa_secrets` (MCRsaKeyPair.cfg) | violation | Secret material is wiped before release, and nothing is left allocated after `rsakpFree`. TLC finds `rsakpMake` ending with `free(temp)` while `temp` holds phi, after one draw of p and q. The contexts `psubone`, `qsubone` and `phi` are never freed either, which the same property reports once `temp` is wiped. |
| `number_heap` (MCNumberHeap.cfg) | violation | The heap contract `NumberHeapSafe`: freed blocks are wiped and no write leaves the block. TLC finds `mp32nsethex` writing one word past the block when the length is not a multiple of 8. With that write fixed, `mp32nfree` and a moving realloc still release blocks unwiped (the property's other half), as the hazards note. |
| `rnd_small` | violation | For m ≤ 3 (and m = 4 or 6 in some variants) the generators never return. |

## Bounds

* Words have 2 bits (3 bits for `mp32binv`), and sizes are 1 and 2 words.
  * Every carry, borrow, wrap-around and multi-word alignment in the code
    happens with words this small.
  * Size 2 exercises the partial products of `mp32bmodres` spanning words.
* Exponents have up to 3 words (6 bits) for `mp32bpowmod` and for
  `mp32btwopowmod`. With 2-bit words, a K = 4 window straddles word
  boundaries. With 6 bits, a full window can be followed by zero bits and by
  a partial window. With 4 bits, every call would apply a single window to
  `data = 1`. Two full windows would need 8 bits, which is 4 times the state
  space. The presq entries of full windows are therefore checked only on
  `data = 1`. Partial windows reach the entries with a value other than 1.
* `mp32binv` needs one spare word of headroom for its coefficients. With
  2-bit words this headroom is too small, and the Bezout relation fails
  because of the word width rather than the algorithm, so the `binv` runs use
  3-bit words.
* `Mp32Number` uses 2 hex digits per word in place of 8. This keeps the store
  pattern of the parse loop while making the lengths small, and lengths 1 to 5
  cover both remainders.
* `MaxCount = 3` bounds the heap counters.
* SHA-512 is scaled to 4-byte blocks with a 1-byte length field, in place of
  128 and 16, so the final-block test `offset > 112` becomes `offset > 3`.
  * Offsets 0 to 2 pad into one final block, and offset 3 needs the extra
    block.
  * Data bytes are 1 or 2, so they are distinct from the 0x80 marker, the zero
    padding, and each other.
  * Updates of 0 to 2 bytes reach every offset and cross a block boundary.
  * One block may be compressed between resets (`MaxBlocks`), and one Digest
    is recorded (`MaxDigests`). A larger bound multiplies the states by the
    contents of the recorded digest.
  * `SizeBits = 3` is wider than any update, so the size is not truncated.
    With `SizeBits = 1`, `LengthCountsMessage` fails: this is the
    32-bit-word truncation hazard.
* `HashContext` uses 1-byte words, and the numbers `<<1>>`, `<<200>>` and
  `<<1, 200>>`: one without and two with the msb of the top word set, one of
  them two words long. Plain updates are 0 to 2 bytes of value 1, and the data
  bytes are 0, 1 and 200, so the sign byte and the high byte are each distinct
  from the data. malloc may fail.

* `RsaKeyPair` uses 5-bit primes whose p−1 is coprime to 65535: 17, 23
  and 29. The products 17·17, 17·23 and 17·29 are one bit short of 10 bits,
  so every branch of the retry loop happens. At most 2 retries are allowed
  (`MaxDraws`). The key pair's life ends at `rsakpFree`, so this run does
  not check deadlock.

## Fairness

Each call is a single thread that runs to completion, so the exponentiation
and inverse loops assume weak fairness of `Next`. In `SlidingWindowPowMod`
and `TwoPowMod` every step changes `pc` or a counter, so `ENABLED <<Next>>_vars`
is exactly `pc # "done"`. `WF_vars(Next)` is therefore written out with that
predicate, because TLC evaluates `ENABLED` of the arithmetic without caching.

The random generator gets strong fairness for each drawn word: a source that
never avoids a value forever. This is the probability-one reading of
"random", and the `rnd_small` violation holds even under it.

In `Sha512`, an `sha512Update` call runs to completion on its thread. The loop
steps (`UpdateStep`, `UpdateReturn`) are therefore weakly fair, and
`UpdateReturns` depends on this. Callers are not assumed to call again, so
`Reset`, `UpdateCall` and `Digest` carry no fairness. `HashContext` keeps
exactly this: `UpdateLoop` is weakly fair and the context calls are not.

`HashContext`'s caller follows the protocol the code relies on: it resets a
context before using it, does not use it after a failed Init or after Free,
and does not Init it twice. What the code does when a caller breaks this
(unchecked malloc, uninitialised `param`, dangling pointer after Free) is
undefined behaviour and is listed under the hazards.

## Not modelled

* `mp32bpprime`: it needs `mp32gcd` and `mp32pmilrab`, which are outside
  `src/`.
* The `#if 0` copy of `mp32bpowmod`, which is dead code.
* `mp32bspowmod3`, which is empty.
* The 64-bit compression rounds of `sha512Process` and the big-endian encoding
  of `h` in `sha512Digest`. These are data transformations without control
  decisions; the model keeps their effect on which blocks are chained.
* `rsakpCopy`, a sequence of `mpbcopy`/`mpncopy` calls that are not in the
  repository. The allocation failures inside `rsakpMake`'s tail (`mpbset`,
  `mpnset`, `mpninv`) are not modelled either: the model takes these calls to
  succeed, because how they fail cannot be read from this repository.
* A failed `mp32binit` leaves `size` set, with null pointers. Spec 4.1 says
  the size becomes 0. The stale size is listed as a hazard. Every operation
  on such a context dereferences null, and the model disables them.
* The registry lookups of `beecrypt.c` (entropy sources, random generators,
  hash, keyed-hash and cipher tables: `Count`, `Get`, `Find`, `Default`). These
  are stateless reads of constant arrays. Two observations from reading them:
  `sha512` is not in `hashFunctionList`, so `hashFunctionFind("SHA-512")`
  returns null; `keyedHashFunctionDefault` returns null when
  `BEECRYPT_KEYEDHASH` is unset.
* The random-generator, keyed-hash and block-cipher contexts of `beecrypt.c`:
  they dispatch to algorithms (fips186, mtprng, sha1hmac, blowfish) whose code
  is not in the repository.
* Headers and C++ declarations, which have no behaviour of their own.
* Null-pointer dereferences after `mp32binit` or `mp32ninit` fail. Here the
  model disables the context's operations, and the `number_heap` run
  covers the out-of-bounds part of `mp32nwipe`.
