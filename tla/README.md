# Verification of elips_bn_bls in TLA+

This directory specifies the ELiPS pairing library (C, BLS12-381, BLS12-461 and
BN462) in TLA+, checks the specifications with TLC on small instances, and
proves the most important facts for every value of the constants with TLAPS.
Paths below are relative to the repository.

The library is sequential but for one flag that threads share. Its hazards are
those of cryptographic code: loops over limbs whose carry matters for one
operand in 2^64, stack arrays whose slots are filled by different functions,
masks in place of branches, early returns that decide what a caller may trust,
and rare failures (a zero scalar, a short `getrandom`) that no test reaches. The specifications keep every loop counter,
slot, digit, early return and wipe. Field and curve arithmetic is modelled in
modules of its own on small primes, and abstracted in the modules above them.

## 1. The system

| Component | Source | State | Operations | What makes it correct |
|---|---|---|---|---|
| BLS signature API | `src/bls/bls.c` | the call's stack frame: arrays `P[]`, `Q[]`, accumulators | `sk_to_pk`, `key_validate`, `sign`, `verify`, `pop_prove`, `pop_verify`, `aggregate`, `aggregate_verify`, `fast_aggregate_verify` | returns what `bls.h` promises; accepts a claim only if those it names signed it |
| Key generation, random scalars | `src/bls/bls.c`, `src/util/random.c` | `ikm`, `salt`, `prk`, `okm`, attempt counter | `elips_bls_keygen`, `..._random`, `elips_random_scalar`, `fp_rand` | first non-zero output of the salt chain; zero on failure; secrets wiped |
| HMAC, HKDF | `src/bls/hkdf.c` | block counter | extract, expand | length limits keep the one-byte counter from wrapping |
| System entropy | `src/util/sysrand.c` | buffer, bytes obtained | `elips_random_bytes` | a full buffer of one source, or zeros and an error |
| SHA-256 | `src/hash/sha256.c` | `h[8]`, `buf`, `buf_len`, `len` | init, update, final | the padded stream is compressed whatever the pieces |
| Hash to curve | `src/hash/hash_to_curve.c`, `h2c_tmpl.h` | none | `expand_message_xmd`, `hash_to_field`, `hash_to_g1`, `encode_to_g1`, and on G2 | total on exceptional inputs; lengths bounded |
| Serialization | `src/arith/serialize.c` | none | read and write of `fp`, G1, G2, GT | one encoding per point; nothing outside the subgroup |
| Miller loops, products | `src/pairing/miller.c` | chunk buffers `px`, `qx`, counters `m`, `base`, line tables | `elips_pairing`, `_multi`, `_multi_prec`, `ep2_precompute` | the product of the single pairings |
| Final exponentiation | `src/pairing/miller.c` | none | plain and fast chain | both raise to the same exponent, up to a unit mod r |
| Ladders | `src/arith/ec_tmpl.h`, `ec.c`, `fpx.c` | table, digits, accumulator | `mul`, `mul_pubconst`, `ep2_mul2`, `fp2_exp`, `fp12_exp` | [k]P for every k and declared length |
| GLV multiplications | `src/arith/ec.c`, `fpx.c` | digits, table, ladder position | `ep_mul_glv`, `ep2_mul_glv`, `fp12_exp_gt` | [k]P for every k, reduced or not |
| Constant-time scalars | `src/arith/glv_scalar.h`, `wide.c` | limb arrays | shift, add, subtract, multiply, `glv_divrem`, `elips_mod_wide` | the integer operation, exact in every limb |
| Curve group law | `src/arith/ec_tmpl.h` | none | Jacobian add, double, affine | complete on infinity, P = Q, P = -Q |
| Prime field | `src/arith/fp.c`, `ct.h` | none | add, subtract, Montgomery product, two inversions, square root, signs | exact mod p, operands kept in range |
| Extension tower | `src/arith/fpx.c` | none | Fp2, Fp6, Fp12, Karabina | as the field |
| Backend selection, assembly | `src/arith/fp.c`, `fpx.c`, `*.S`, `wide_x86_64.h` | three flags, one cached by whichever thread is first | constructors, dispatchers, kernels, lazily reduced products | no kernel the processor lacks; each kernel the portable function |
| Generated parameters | `include/elips/fp_params.h` | constants | - | lattice, digits and orders fit each other |
| Python binding | `bindings/python` | none | ten calls over cffi | what is measured is what the library reads; errors mapped |
| JavaScript binding | `bindings/js` | the cached module promise, the instance's memory | `load`, ten calls | arguments survive the growth of memory; errors mapped |
| Tests, tools, benchmarks | `test`, `tools`, `bench`, `examples` | - | - | read for what they say of the code |

Interactions: `bls.c` decodes every argument with the readers of `serialize.c`
(which end in a subgroup test, a `mul_pubconst`, `mul2` or endomorphism identity),
hashes with `hash_to_g2`, multiplies secrets with `ep_mul_glv` and `ep2_mul_glv`,
and decides with one `elips_pairing_multi`. `keygen` calls HKDF, which calls the
streaming SHA-256, then `elips_mod_wide`; the random variants call
`elips_random_bytes`. The bindings call the ten functions of `bls.h`. All calls
are synchronous, there are no callbacks, and the only state shared between calls
or threads is the lazily cached backend flag of `fpx.c` and, in the Python
binding, the buffers of the caller.

Hard behaviours, each listed at its line in `PROJECT.json` under `hazards`:
the return value of a refused pairing, whose output is the very value meaning
"verifies"; slot conventions between functions; repeated messages and rogue or
cancelling keys; chunk boundaries; tables replayed by index; carries and masked
subtractions; windows that read past a length; digits one bit longer than
expected; retries of key generation; failures halfway through entropy; a one-byte
block index; a flag threads race for; memory that moves under a view.

## 2. Modules

| Module | Role | Corresponds to |
|---|---|---|
| `BlsScheme` | operators | G1, G2, GT as formal linear combinations of unknown exponents, encodings as accept or reject; the result each entry point promises (`bls.h`, the checks of `bls.c`) |
| `BlsService` | abstract specification | a call, then whatever code and bytes are promised of it, in one step |
| `BlsApi` | detailed specification | the nine entry points of `bls.c` that are given keys, one action per validation block, loop iteration or pairing |
| `BlsNetwork` | composition | signers, aggregators and verifiers using the scheme; a history of who signed |
| `MillerLines` | operators | running points, lines and Fp12 values as bags of evaluated lines |
| `PairingProduct` | abstract specification | all pairs validated, then the product of the single pairings |
| `MultiPairing` | detailed specification | `elips_pairing_multi`, `_multi_prec`, `ep2_precompute`, `miller_chunk`, `miller_prec_chunk`, with a proof |
| `Tower` | operators | Fp6 and Fp12 of `fpx.c` with the cyclotomic squarings, and the exponentiation chains of `miller.c` |
| `Pairing` | specification | `pairing_miller`, its lines and points, and the three final exponentiations, on field elements |
| `LongDivision` | abstract specification | binary long division over the integers, with its proof |
| `Limbs` | operators | carry and borrow chains of `glv_scalar.h`, limb by limb |
| `GlvScalar` | detailed specification | the routines of `glv_scalar.h` and `elips_scalar_is_reduced`; `glv_divrem` one bit per step |
| `ModWide` | detailed specification | `elips_mod_wide`, one bit per step |
| `Montgomery` | abstract specification | the digit-by-digit product over the integers, with its proof |
| `MontField` | detailed specification | addition, subtraction, product, conversion and signs of `fp.c` and of the three sets of kernels, a limb or a round per step |
| `WideTower` | detailed specification | the lazily reduced products of `fpx.c` and of the x86-64 kernels, on unreduced values twice as wide |
| `FpInverse` | specification | `fp_inv` by batches of divsteps, `fp_inv_vartime` by Euclid |
| `ScalarMul` | abstract specification | [k]P in a cyclic group |
| `GlvMul` | detailed specification | `ep_mul_glv`, `ep2_mul_glv` (both families), `fp12_exp_gt` |
| `Ladders` | detailed specification | `mul`, `mul_pubconst`, `ep2_mul2`, `fp2_exp`, `fp12_exp` |
| `Fields` | operators | Fp and Fp2 of `fp.c`, `fpx.c` on canonical residues: arithmetic, inverses, roots, signs |
| `EcJacobian` | operators | the template of `ec_tmpl.h`, `ec_jacobian.h` over either field |
| `GroupLaw` | specification | calls of the template in any order on registers, against the chord-and-tangent law on affine points |
| `Serialize` | operators | the shared shape of readers and writers of `serialize.c`, over either field |
| `PointCodec` | specification | the four readers and writers, endomorphisms and subgroup tests of `miller.c` |
| `MapToCurve` | operators | `h2c_tmpl.h`: simplified SWU with either root, isogeny, Shallue-van de Woestijne; beside them RFC 9380 6.6.1 and 6.6.2 as relations, without roots |
| `HashToCurve` | specification | the entry points of `hash_to_curve.c` and `clear_cofactor_g2` |
| `ExpandMessage` | specification | `expand_message_xmd`, `hash_to_field`, HMAC, HKDF, a block per step |
| `Sha256Stream` | specification | init, update, final over named bytes |
| `SysRand` | specification | `elips_random_bytes` in each build |
| `KeyGen` | composition | key generation, `elips_random_scalar` and `fp_rand` over `SysRand`, with the proofs of both |
| `RuntimeBackend` | specification | the constructors and dispatchers of `fp.c`, the cached flag of `fpx.c` and the threads that race for it |
| `Bindings` | specification | a call of `elips.mjs` and of `elips/__init__.py`, from arguments to result |
| `Runtime` | composition | the backend and the two bindings, one of them per behaviour, with the proofs of all three |
| `BlsScheme_proofs`, `BlsApi_proofs`, `Hashing_proofs` | theorems | about the scheme and its network, the entry points, and hashing: see section 5 |
| `MC*` | instances | sets of calls and inputs for TLC |

### BLS (`BlsScheme`, `BlsService`, `BlsApi`, `BlsNetwork`)

A group element is a finite map from names to coefficients mod R. Secret keys,
and the points hash-to-curve returns for distinct (message, tag) pairs, are
independent unknowns, so two combinations are equal exactly when the code would
compute equal points for all but a negligible share of keys and hashes. Nothing
is assumed about signatures beyond that: a forgery is whatever combination of
circulating points an outsider can add up. `Encode(p)` is an accepted encoding,
`Malformed` any refused one; a secret is the number its bytes spell, `Unreduced`
when the order does not bound it.

`BlsApi` keeps `P[]` and `Q[]` uninitialised at the start of each call, fills
them in the loops of `bls.c`, and lets `pairing_check` fill slot 0. The
`out` buffer keeps the caller's content until the code writes it.
`BlsService` is implemented by `BlsApi` under the refinement mapping
`phase <- "busy"` while `pc` is anywhere inside a call: the codes, their priority
and the output bytes are those `BlsScheme` states without arrays or loops. Three of
the calls make something (a key, a signature, a proof): `WhatIsMadeVerifies`
relates what they write to what the verifying calls accept.

What an argument may be is `WellFormed`: lists as long as the prototypes of `bls.h`
say, and points as the readers of `serialize.c` leave them. Nothing is assumed of a
call with a null pointer where its entry tests for one (`NullArgument`, one boolean
for all of them). The entries do not test alike: `fast_aggregate_verify` does not
test `msg` (`bls.c:371`) nor `aggregate_verify` each `msgs[i]` (`bls.c:335`), and a
call whose only null is such a message is not among `Calls`.

`BlsNetwork` composes the promises into use. Signers sign any of `SignedBytes`,
the encoding of a key among them, and prove possession of their keys; anyone
aggregates what circulates (`Counts` bounds how many at once) and publishes points
that took no signer's secret to make (`Foreign`, such as the hash point of a message);
verifiers are asked about any lists of keys (`Claims`), honest, rogue or the
identity. Its properties speak of the history of signing, which the code does not
see.

### Pairing (`MillerLines`, `PairingProduct`, `MultiPairing`, `Tower`, `Pairing`)

An Fp12 accumulator is the bag of lines multiplied into it, each named by the
two points it passes through and the point it is evaluated at; squaring doubles
the bag. A line taken twice, left out, evaluated at the wrong point or squared
once too often is a different bag. `MultiPairing` runs the validation loop, the
buffering loop with its chunk flush, the shared Miller loop digit by digit
(doubling line, addition line on a non-zero digit, BN's two corrections) and
the tail; a "prec" call first builds tables and then replays them by index `k`.
The loop digits are those of a build; the final exponentiation is a
homomorphism with an unknown image.

`Pairing` looks inside a line: it computes one pairing of a toy curve on elements
of `Tower`, one loop digit, one correction or one value of an exponentiation
chain per action. `Tower` keeps the formulas of `fpx.c` (Karatsuba and the
sparse product with its extra w, Granger and Scott, Karabina with its choice of
divisor). `Pairing` judges them against arithmetic it defines on its own, Fp12 as
polynomials in w multiplied term by term, and against a pairing worked out from
the textbook lines on the untwisted curve. The BLS12 and BN chains are compared
with the exponents their comments derive, and `HardParts` in `MCPairing` checks
that those polynomials are the hard part of the family.

### Scalars, field and ladders

`Limbs` translates the chains of `glv_scalar.h`, including the two tests that
make a carry, with limbs of W bits. `GlvScalar` and `ModWide` are stepped one bit
at a time and mapped to `LongDivision`.

`MontField` runs one field operation of one backend, its build naming the sets of
kernels that multiply and that add. The carry chains of `fp.c` are kept limb by
limb; those of the assembly are one number per chain, since they run in the
processor's flags, with the limb that is dropped above them written out.
Every product, `fp_mul_portable` and the two kernels, is mapped to `Montgomery`
round by round. `WideTower` extends it to the products of Fp2 (Karatsuba on wide
values, with `WSUB`'s single correction), Fp6 and the line, and compares them
with the eager forms. `FpInverse` keeps the transition matrix, the shift, the
normalisation of `redc_lin` and the count of batches, and the Euclidean inverse
with its two halving loops as actions of their own, so that its end is a
liveness property and not an assumption.

`GlvMul` and `Ladders` use a cyclic
group in which P is 1, so that an accumulator *is* the multiple computed; an
endomorphism multiplies by its eigenvalue. The ladder tables are built by the
additions the code makes, in its order, and the windows read the digit arrays as
the code does, past the declared length included (such bits read as zero).

### Curves (`Fields`, `EcJacobian`, `GroupLaw`, `Serialize`, `PointCodec`)

`ec_tmpl.h` is included twice by `ec.c`, once per field; `EcJacobian` takes the field
as operator constants and is instantiated twice for the same reason. Its
operators are the formulas with their masked selection: what is selected is an
IF, computed from the same tests (`is_dbl`, the two tests of infinity) on the
same Jacobian coordinates. `GroupLaw` runs any sequence of calls over two
registers, the result aliasing any operand, so that the representatives compared
are those that calls produce, equal points with different z included.

`PointCodec` reads any buffer into a point that held something else and writes any
member of the group. A buffer is its three flag bits and its field elements as
integers, as wide as the bits left to them, so that canonicity can fail. The
subgroup tests compare an endomorphism with a public multiple, as in
`miller.c`, and are judged against the orbit of a generator.

### Hash to curve (`MapToCurve`, `HashToCurve`, `ExpandMessage`)

`h2c_tmpl.h` is a template like `ec_tmpl.h`; `MapToCurve` takes the field and the record
`H2C_CN` of generated constants. `HashToCurve` instantiates it for both groups;
one behaviour is one call with one or two field elements, as `hash_to_field` may
return, or with an empty tag. Candidates, masks, the loop over the table of
eight roots and the sign selection are those of the code. The reference states
what RFC 9380 requires without square roots, so it does not share the code's
candidates.

`ExpandMessage` takes a free hash: a digest is the string that was hashed, so two
digests are equal exactly when the code hashed the same bytes, and every byte
keeps its origin. Indices, lengths, zero padding and tags are bytes like any
others, of a small base, so a wrapped index or a message that ends like a tag can
be told apart or, where the code is wrong, cannot.

### Secrets (`Sha256Stream`, `SysRand`, `KeyGen`)

`Sha256Stream` names a message byte by its position, so the state is the exact
sequence of blocks compressed. `SysRand` names a byte by where it came from and
chooses nondeterministically how many bytes the kernel gives, whether it is
interrupted, and whether the device opens and reads. `KeyGen` extends it with the
four callers, beside which anyone may ask for bytes (`RandomBytes`): HKDF is a
random function, and the outputs that reduce to zero are chosen arbitrarily at
the start of a behaviour.

### Surroundings (`RuntimeBackend`, `Bindings`, `Runtime`)

A behaviour of `RuntimeBackend` is one process: its target, processor and
environment are chosen at the start, the loading thread runs the constructors in
any order, and may multiply in between as a constructor of another object would.
A multiplication that needs the cached flag is five actions (load, evaluate,
write, test, run), and the test may see either the flag or the register, as a
build is free to read it again.

`Bindings` follows the data of a call. In JavaScript every argument goes into a
block of the instance's memory; each `malloc` may grow the memory, which detaches
every view taken before, or fail with the null pointer. In Python other
threads may write into a `bytearray` at every moment at which the interpreter
lock is free. The library is any code its function may return. `Runtime` puts the
three side by side: a behaviour takes steps of one of them, the others stand still.

## 3. Runs

| Run | Bounds | What it shows |
|---|---|---|
| `bls_api` | R = 5; two independent keys, the negation of one, the identity, a refused encoding; secrets in and out of range and zero; 3 messages; MaxN = 3 | `ImplementsService`: code and bytes as promised, for every claim of 0 to MaxN + 1 pairs with fitting and nearly fitting signatures. `SlotsHoldTheClaim`, `AcceptanceIsEarned` say why; `WhatIsMadeVerifies` ties the making calls to the verifying ones |
| `bls_network` | R = 3; two signers; one message and the encoding of one signer's key; aggregates of 2 or 3; the hash point of the message as a foreign point; claims of one or two keys, honest, the identity, cancelling or absorbing one; at most 5 signatures in circulation; MaxN = 2 | `ClaimsNameOnlySigners`: an accepted aggregate names only signers, with repeated messages and with rogue keys; proofs and signatures never serve for one another; honest aggregates verify |
| `pairing` | products: chunks of 2, 0 to 5 pairs, one bad point of each kind anywhere; loops of 3 and 4 digits of either leading sign; BLS12 and BN. Single pairings: p = 163, r = 13, four loops, three chains with parameters 7, -5 and -8, five direct inputs, runs of up to four squarings | the product, through every chunk boundary, both entry points; tables consumed exactly as produced (`PairsAreAligned`). The tower is the field; the running point is the multiple the digits spell and never degenerate; each chain raises to its exponent and no power of w survives; the pairing is the optimal ate pairing, bilinear |
| `scalar_arith` | 3 limbs of 2 bits, all operands and divisors the callers may pass; dividends of up to 3 limbs by moduli of 0 to 2; the field modulo 61, 31 and 29 in six builds, all operands; Fp2 on lines and corners, Fp6 and lines on extreme elements; inversions of every element modulo 251 and 61, two limbs of 4 bits | chains exact; `ImplementsAbstractions`: both divisions are long division, all products `Montgomery`; `FieldIsExact`: every operation of every backend is the field's, for moduli that fill their limbs and that leave a bit; `LazyIsEager`; `EuclidEnds` |
| `scalar_mul` | ladders: order 1009, k below 256 with lengths -1 to 8, double multiplications of 6 and 5 bits; decompositions: BLS12 with x = 4 and x = -5, BN with x = 3, scalars past r | [k]P for every scalar and length, the fallback included, and through all six decompositions; `DigitsAreTheScalar`: the digits, signed or not, fit their widths and spell k |
| `pubconst_full` | constants filling the array | expected violation, see section 6 |
| `group_law` | y^2 = x^3 + 1 over F19 and the 6-torsion of y^2 = x^3 + u over F49, every pair of reachable representatives | add, double and equality are the group law, with points of order two and three |
| `point_codec` | BLS12, x = -5, p = 7207, r = 601, cofactors 12 and 86437: all compressed buffers of E, those around the group of the twist; BN, x = -1, p = 19, r = 13, twist cofactor 25: all compressed buffers of the twist | exactly the encodings of members are accepted; each code is true of the buffer (flags blamed exactly when no writer sets them so, "no y" and "not on the curve" checked against the equation); identity on failure; write then read |
| `hash_to_curve` | `sswu`: p = 43, Fp2, 3-isogeny, table of eight roots. `isogeny`: p = 67, Fp, two roots, 3-isogeny with rational kernel. `bn`: p = 19, both groups. `bls`: p = 7207, both groups, every element of Fp and 200 of Fp2 | `MapIsExact`: the map is the standard's at every element, u = 0 included; `HashIsExact`: every hash is in the group but at the poles of the isogeny, and the chains of psi clear the cofactor on the whole twist |
| `hash_isogeny_kernel` | the same with the build `isogeny` | expected violation, see section 6 |
| `hashing` | stream: blocks of 5 bytes, length of 2, messages to 16 bytes cut in every way. Expansion: bytes of five values, so at most four blocks, of 2 bytes each; all messages to 3 bytes of two of the values, tags to one byte past the limit. Secrets: requests to 5 bytes, chunks of 2, four builds; 3 passes, every choice of vanishing outputs, lengths at both limits | the padded stream of FIPS 180-4, each byte once; every byte of every expansion is the one of RFC 9380 or RFC 5869 and none is given twice; calls that differ in message, tag or length hash different strings, compared over every length that is answered; entropy is all or nothing and every request answered; the key is that of the draft, of full entropy, wiped, zero on failure |
| `runtime` | three threads, every host; one growth of the memory; all ten operations with every form of each argument | no thread runs a kernel its processor lacks, the cached flag never changes once set, a verdict of a binding is about the bytes the caller gave |

A run whose model holds several small components chooses one of them per
behaviour (`build` in `point_codec` and `hash_to_curve`, `field` in `group_law`,
`part` in `scalar_arith`, `hashing` and `runtime`), or lets them take turns, a call
of one while the others are idle (`scalar_mul`): the calls share no state, so
nothing is lost by that.

Why these bounds are enough. Array code is uniform in its length: 0, 1, the
limit and the limit plus one meet every branch, and three slots let a shift by
one, a missed first and a missed last be told apart. Limb chains are uniform in
the width: at two bits per limb every pattern of incoming and outgoing carry
occurs, and at three limbs there is a first, an inner and a last one. A modulus
of 61 fills six bits as BN462 nearly fills its limbs, 31 and 29 leave the bits
clear that the kernels rely on. A batch of divsteps builds matrices that have to fit a limb,
hence limbs of four bits for the inversions, two of which 251 fills. The toy
curve seeds make the digit bases small but keep the relations of the real ones
(the generator's closed forms are used). Blocks of 5 bytes with a length of 2
have the same three cases of padding as 64 and 8. A byte of five values wraps
after four blocks, where 255 blocks would be out of reach, and a tag of five bytes
is oversized. Three threads let two race for the flag while a third has it. The
order R only has to be
large enough that no sum of MaxN unit coefficients vanishes by accident where the
real one would not: R = 5 in `bls_api` with at most 4 keys. In `bls_network` R = 3
and MaxN = 2.

Small fields make rare inputs common: at p = 19 or 67 every exceptional case of
the addition, the roots and the maps occurs, where at 381 bits none would in a
lifetime of tests. The price is that a small curve can have relations the real
one lacks, or be in no family: `pairing` takes y^2 = x^3 + 1 over F163, where the
Frobenius is [7] on the points of order 13 and the embedding degree is 12, with
loops over 7, 7 - 13 and, with BN's two corrections, over -2. The other
curves were therefore taken from the families where the property
depends on it (trace, eigenvalues and the clearing chain come from a seed), with a
cofactor on the twist so that membership is not trivial, and with or without
rational points in the kernel of the isogeny as BLS12-381 has them on G1 and
lacks them on G2. The toy twists are by 1 + u or 1 + 3u: xi enters these modules only
through constants the generator emits; `pairing` uses 1 + u.

`MaxSigs` bounds circulation in `BlsNetwork` and is why that run may stop
(`CHECK_DEADLOCK FALSE`); `hash_to_curve` stops after one call and `point_codec`
after a refused buffer, since the calls keep no state. `MaxBytes`,
`MaxFed` and `MaxAsked` bound requests, messages and outputs. `runtime` may stop as well: a rejected module
load is cached for ever, so no call of the JavaScript binding starts again. Every
other run checks deadlock, but `hash_isogeny_kernel`, which is one call of
`hash_to_curve`.

## 4. Fairness

The library runs on its caller's thread and never waits, so each specification
assumes weak fairness of the steps of a call in progress: a started call is
executed. It assumes nothing of callers. `EuclidEnds` needs no more than that:
the loop of `fp_inv_vartime` runs, and that it stops is arithmetic. In `SysRand`
the kernel is strongly fair in answering: `EINTR` is retried without bound by the
code, and the request is answered only because a signal does not arrive during
every single retry. `RequestsAreAnswered` needs that and nothing else. The
threads of `RuntimeBackend` and the callers of `Bindings` have no fairness: their
properties are of safety.

## 5. What is proved

All theorems are checked by TLAPS for every value of the constants that meets
the named assumptions of the modules.

- `BlsScheme_proofs`, about the operators. A formal combination is equal to another
  when their coefficients are (`FormsEqual`), so a sum is judged one coefficient at a
  time. `SumOfSome`: a sum over any finite set is one of its terms added to the
  sum of the others. `SumOver` is a fold, so this looks like induction over data,
  which is out of reach in the form of the library's induction theorems (their
  parameter is an operator). What replaces it is a minimal counterexample: strict
  inclusion is well founded on the subsets of a finite set, hence a family of
  subsets that fail has a least member, which cannot fail. From it: sums do not
  depend on the order in which they are taken (`SumRemove`), shares on distinct
  messages never mix (`SharesApart`), and multiplication distributes over a sum.
  `PairingEquation` is the heart of the scheme: for any number of pairs,
  e(-G1, signature) times the product of e(key s, hash s) is one exactly when the
  signature is the sum of the shares. `Lifts` carries it: pairing a point of G2 with
  the generator renames its terms, one to one, so sums in GT are sums in G2 renamed.
  The verdict lemmas (`VerdictIsFirst`, `...Means`, `...First`) say of each entry
  point which arguments give "OK" and which code the first failing check gives,
  for lists of checks that grow with the number of keys.
- `BlsApi_proofs`, about the code, for all well-formed calls, all MAXN and all
  orders. `BlsApiInductive` is the inductive invariant `IInv`: the program counter
  fits the operation, the counters are within the lengths and zero outside the
  loops, and each slot below the loop counter already holds its claimed pair.
  `SlotsHoldTheClaim` speaks only of the moment of the pairing and is not
  inductive; the loop invariant is what carries it there. From `IInv` follow
  `BlsApiTypeCorrect` and `BlsApiChecksTheClaim`. `BlsApiMakesVerifies` adds
  `MadeAtOnce`: a call that makes something is one step, so the key or signature in
  `out` belongs to the secret of the pending call, whose key is neither refused nor
  the identity (`KeyIsValid`).
  `BlsApiKeepsPromises` is that every call returns the promised code and bytes.
  Its invariant `DueInv` is `Due` (the promise kept when `pc = "done"`, nothing
  written before) and `Passed`: at each place inside a call, the checks that precede
  it have passed, for the keys, proofs and signatures read so far, and the
  accumulators hold the sums so far. At `pairing_check` all that is left of the
  promise is the equation, and `PairingEquation` says that the pairing decides it.
  `BlsApiStepsAreServiceSteps` follows: `BlsApi` refines `BlsService` step by step,
  the safety part of `ImplementsService`. `BlsApiAcceptsTheEarned` reads the promise
  backwards: an accepted aggregate carries every key's share on its own message,
  and no identity key, sum or signature is accepted.
  Assumed: `CallsAssumption` (calls that are not null are `WellFormed`),
  `MaxNAssumption`, `GroupAssumption` (R > 1; that R is prime is not needed).
- `BlsScheme_proofs`, about `BlsNetwork`, the scheme in use, for any signers,
  messages, foreign points, aggregates and claims. `BlsNetworkInductive`: a term with the exponent of an
  honest signer, in any signature in circulation, names something that signer signed
  (`NamesAreSigned`), and a proof was made only over the prover's own key
  (`ProofsAreOwn`). The properties speak of what a verifier accepts and say nothing
  of signatures still to be added up, so none is inductive. From it
  `BlsNetworkKeepsApart`, `BlsNetworkNamesOnlySigners` (with
  the proofs of a fast aggregate, which leave no room for a rogue key: a key with a
  proof and an honest signer's exponent in it is that signer's own) and `BlsNetworkAcceptsHonest`.
  Assumed: `ForeignAssumption` (no signer's exponent in a foreign point),
  `ClaimsAssumption` (fewer than R keys: a claim of R equal keys would sum to the
  identity, and R has at least 255 bits in the code), `CountsAssumption`.
- `MultiPairing`. `PairsStayAligned`, for any buffer size, digits, number of pairs
  and number of calls. `PairsAreAligned` is strengthened twice. `Counters`: a chunk
  starts only on a full buffer or at the end of the pairs, so `base`, which
  `elips_pairing_multi_prec` moves after full chunks only, is left behind only when
  nothing remains to replay. `TableInv`: a table in the making is as long as the
  digits walked so far account for, and one that was finished has the size of its
  build; the test at the end of `ep2_precompute` is what lets a replay rely on that.
  Assumed: `ChunkAssumption`, `CallsAssumption`, `BuildsAssumption` (n and the
  number of digits are numbers).
- `Runtime`, about `RuntimeBackend`. `BackendInductive`: besides the types, the
  choice of the constructors is final in the main phase (`Choice`), only the loading
  thread runs before (`OneAtATime`), and every value a thread is about to write to
  the flag is the one it has or will keep (`Caching`). `KernelsAreRunnable` alone is
  not inductive, as a thread between its test and its kernel has nothing but the
  flag to rely on. From it follow `BackendIsRunnable` and the action property
  `BackendSettles`, for any number of threads. Assumed: `LoaderAssumption`.
- `Runtime`, about `Bindings`, with no assumption. `JsCallIsSound` and
  `PyCallIsSound` speak of a call that has ended and are not inductive; what carries
  them is what holds while a call is prepared. In JavaScript (`JsIInv`) an argument
  that was told right stays right and every block lies at its own place or at null
  (`Preparing`), however often the memory grows between two allocations: the library
  reads the caller's bytes because the views are taken after the last `malloc`. In
  Python (`PyIInv`) every copy made so far is of the right type and size
  (`Checked`) and what the library has read is a prefix of the copies
  (`Snapshot`), whatever other threads write to the caller's buffers meanwhile. From
  them `JsCallsAreSound` and `PyCallsAreSound`. `RuntimeIsSound` is about the
  composition: a step of `RuntimeSpec` is a step or a stutter of each part, so what
  is proved of the parts is true of the whole.
- `Hashing_proofs`, about `Sha256Stream`, for every block size, width of the length
  and message, cut in any way. `StreamInductive`: what was compressed, then the
  filled part of the buffer, then what is left of the current piece is, at every
  step, the message so far, or after `elips_sha256_final` began the message and all
  its padding (`InOrder`), and what was compressed is a whole number of blocks
  (`WholeBlocks`). `StreamIsStandard` says as much of the order but not of the places:
  that the padding comes out whole needs that the buffer has room for one byte: a full buffer is compressed at
  once (`Shape`), that inside `final` the head of an update is finished before its
  blocks (`Places`), and that the length fixed at its start is that of the padded
  message. From it `Sha256StreamIsStandard`. Assumed:
  `StreamAssumption` (a block is longer than the length and the marker, 64 > 8 + 1).
- `Hashing_proofs`, about `ExpandMessage`, for outputs, messages and tags of any
  length. The blocks of RFC 9380 and RFC 5869 are a recursive list; `Chain` is that
  list up to the last block, which exists by induction on a set of numbers.
  `ExpansionInductive`: after i - 1 blocks the output holds the first i - 1 of the list,
  cut at its length, and nothing after them (`Laid`), and `prev` is the last one
  (`Running`): the code keeps a single block, the standard a list, and
  `ExpansionIsStandard` compares the two only at the end. `ExpansionsAreStandard`
  follows, refusals included. `DomainsStayApart`: two calls that hash
  the same first string have the same message, tag and length. The tag is read off
  the end of the string, first its length and then its bytes; a tag over 255 bytes
  has become a digest, and two of those are equal only if the tags are. Before it
  stands the length asked for, in two bytes, which spell any length that is answered.
  Assumed: `ExpandAssumption` (the digest fits a block and a length byte, two elements
  of Fp2 stay within the limit of 255 blocks, and strings are of bytes).
  Concatenation, `SubSeq` and `FlattenSeq` have lemmas there, by least counterexample
  for the last, a recursive function in the library.
- `KeyGen`, with `SysRand`. `SysRandInductive`: an unfinished request has filled
  exactly `got` bytes, all from the kernel. `SysRandTypeCorrect` and
  `SysRandAllOrNothing` follow for requests and chunks of every size.
  `KeyGenInductive` (`KeyIInv`) composes it with the callers, stage by stage: while
  entropy is being drawn the request is the one the caller asked for; at attempt
  k the salt is the k-th of the chain and every salt before it gave zero; on
  return the buffers that held key material are wiped. From it follow
  `KeyGenReturnsTheFirst` and `KeyGenHandlesSecrets`, for any number of attempts,
  whichever outputs of HKDF vanish and however often the kernel interrupts.
  Assumed: `KeyGenAssumption` and the sizes of `SysRand`.
- `Montgomery`. `MontgomeryIsTheProduct`: at every round t stands for the product
  of x by the digits used, over the scale, modulo p (`Represents`), and stays below
  twice the modulus (`Bounded`), so one subtraction ends it; for every base,
  modulus and operands. `scalar_arith` shows on small limbs that the portable
  product and both kernels are this algorithm.
- `LongDivision`. `LongDivisionTypeCorrect`, `LongDivisionDivides`: one
  masked subtraction per bit keeps `read = quo * den + rem` and `rem < den`, for
  all sizes. `scalar_arith` shows on small limbs that the code is this algorithm.

Only model-checked: liveness (`RequestsAreAnswered`, `EuclidEnds`, the fairness of
`ImplementsService`) and everything that would need ENABLED; the values that a
recursive definition computes from a limb array or a digit string, and with them
the refinements `ImplementsProduct`, `ImplementsAbstractions`,
`ImplementsMultiplication` and `GlvImplementsMultiplication`; all statements about
polynomials over a finite field (tower, group law, maps, pairing), which the
solvers do not reach; all properties of section 3 not named above.

## 6. Findings

**Carry of a public constant.** `mul_pubconst` (`src/src/arith/ec_tmpl.h:93`) falls back when `kbits` exceeds
`PUBCONST_BITS` "rather than overrun", but a constant of exactly that many bits
has no room for the carry of `t += 1`. For k = 2^PUBCONST_BITS - 1 the recoding is
the single digit -1. No caller in the repository passes such a constant (they are
all at least a limb shorter), so this is about what the guard and its comment
promise, not a fault of the pairing. `pubconst_full` finds the counterexample.

**Kernel of the isogeny.** `iso_map` (`src/src/hash/h2c_tmpl.h:186`) inverts its denominator
with zero going to zero. An input whose simplified SWU image is a kernel point
of the isogeny is thereby mapped to (0, 0), which is not on the curve, and
`elips_hash_to_g1` returns 0 with a point outside the group, where
`include/elips/hash_to_curve.h` says that every byte string becomes a point of G1 or
G2 and that nothing else can fail, and RFC 9380 takes the identity. On G1 of
BLS12-381 all five roots of the denominator are abscissae of rational points and
sixteen field elements reach them, so the chance that a message meets one is about
2^-377: a statement about the contract, not about use. `hash_isogeny_kernel` finds
it on a curve over the field of 67 elements. `hash_to_curve` takes these inputs
out by name (`AtAPole`) and shows that everything else is right there, and that a
kernel without rational points, as on G2, is harmless.

## 7. What is abstracted, and what is not modelled

- Keys and hash points are independent (`BlsScheme`): hash-to-curve and HKDF are
  random functions, and the discrete logarithm is hard. Fixed tags and lengths
  make the failure returns of `hash_to_g2` and of HKDF-expand unreachable from
  `bls.c`; `ExpandMessage` has them. The local limbs that `sk_to_pk` and `core_sign`
  wipe are not state there.
- In `BlsScheme`, `GlvMul` and `Ladders` decoding is accept or reject and the group
  law is addition in a cyclic group; `PointCodec` and `GroupLaw` are the modules
  that look inside. In `MultiPairing` a line is a name and the final
  exponentiation a homomorphism; `Pairing` computes both.
- `Fields` and `Tower` compute on residues, which `MontField`, `WideTower` and
  `FpInverse` show the representation to carry out. Buffers are flags and
  integers, not bytes: the byte conversions of `fp.c` are not modelled. Inside
  `PointCodec` and `HashToCurve` a multiplication is double-and-add, which
  `scalar_mul` shows the windowed and recoded ladders to compute. On BN the cofactor
  of E is one and its subgroup test is trivially true, as in the code.
- `HashToCurve` starts from any field elements; `ExpandMessage` makes their bytes,
  and `ModWide` reduces them.
- Assembly: the arithmetic of every kernel is modelled, a carry chain being one
  number. Registers, stack frames, alignment and calling conventions are not.
- Which lengths of keying material `elips_bls_keygen` refuses at once is in its
  action (`Refused`: below 32 and above the 511 that its buffer holds, `bls.c:124`)
  but in no property; `bls.h:77` states the lower bound only.
- Running times, cache behaviour and the constant-time discipline are not
  expressible here: masks (`ct.h`) are modelled by what they select.
- Bindings: the library is any of its codes. A list of items is one argument, and
  a Python list that is itself changed during a call is left out. Two messages of
  one JavaScript list that both got no memory would lie over one another at address
  zero; `JsCallIsSound` names that case (`Overlap`) and says nothing of it. Two
  observations that are not claims of a document: `load()` keeps a rejected promise
  for ever, and the docstring of the Python module gives `ValueError` for wrong
  arguments where an argument of the wrong type raises `TypeError` (`__init__.py:104`).
- Generated constants at full size, the build scripts, the code generator, demo,
  tests, benchmarks, examples and research tools are not modelled: they hold no
  state of the library, and the constants are out of reach of explicit values.

## 8. What is left

1. The digits shipped in `fp_params.h`: `src/src/pairing/miller.c:85` argues from a
   loop with no two adjacent non-zero digits, and the loop of BN462 has some
   (6x + 2 with x = 2^114 + 2^101 - 2^14 - 1). The conclusion stands, as the
   prefixes are never multiples of r; a run over the digits should show both.
2. Proofs: the carry bound of `ModWide` that makes one subtraction per bit enough,
   and that the carry chains of `Limbs` are exact for limbs of any number and width.
3. The byte conversions of `fp.c`, and `ExpandMessage` composed with `ModWide`.
4. `pairing_miller_multi` and `pairing_miller_prec` as entry points of their own.
