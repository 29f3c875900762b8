------------------------------- MODULE Wallet -------------------------------
(***************************************************************************)
(* The wallet of cpp/sdk/src/wallet.cpp and the part of the constructor    *)
(* Client2Imp (cpp/sdk/src/violas_client2.cpp) that opens or makes the     *)
(* mnemonic file.  Several processes may be started on one file.           *)
(*                                                                         *)
(* The packing of 33 bytes into 24 words of 11 bits is done bit by bit as  *)
(* in the code, with the widths as parameters.  A token of the file is an  *)
(* even number 2w for the word w of WORDS and the odd number 2w-1 for any  *)
(* string that sorts between the words w-1 and w.  SHA256 is a constant    *)
(* function; a seed is the words it is derived from, or what the memory    *)
(* held, and the keys of a session are counted.                            *)
(***************************************************************************)
EXTENDS Integers, Sequences, FiniteSetsExt

CONSTANTS
  Procs,          \* the processes started on the file
  ByteBits,       \* 8
  EntropyBytes,   \* 32
  WordBits,       \* 11
  Counts,         \* the accepted numbers of words: 24, 21, 18, 15, 12
  Hash,           \* the first byte of the SHA256 of an entropy
  Memory,         \* what an uninitialized seed can hold
  MaxKeys,        \* bound on the accounts of a session
  Typed           \* what a user may type into the file

Pow2[k \in Nat] == IF k = 0 THEN 1 ELSE 2 * Pow2[k - 1]

TotalBits == (EntropyBytes + 1) * ByteBits
Full      == TotalBits \div WordBits
Byte      == 0 .. Pow2[ByteBits] - 1
Word      == 0 .. Pow2[WordBits] - 1
Token     == 0 .. 2 * Pow2[WordBits] - 1
Entropy   == [1 .. EntropyBytes -> Byte]

ASSUME WalletAssumption ==
  /\ {ByteBits, EntropyBytes, WordBits} \subseteq Nat \ {0}
  /\ TotalBits % WordBits = 0
  /\ Full \in Counts /\ Counts \subseteq 1 .. Full
  /\ Hash \in [Entropy -> Byte]
  /\ \A m \in Typed : m \in Seq(Token)

----------------------------------------------------------------------------
\* Packing.  Bit 0 of a byte or a word is its most significant one.

Bit(n, i, width) == (n \div Pow2[width - 1 - i]) % 2

\* The numbers of the given width that a string of bits is made of.
Group(bits, width) ==
  [k \in 1 .. TotalBits \div width |->
     SumFunctionOnSet([i \in 0 .. width - 1 |->
                         bits[(k - 1) * width + i] * Pow2[width - 1 - i]],
                      0 .. width - 1)]

\* A variant: the byte boundary taken one bit late.
ExportShifted(entropy) ==
  LET hashed == Append(entropy, Hash[entropy])
      bits   == [i \in 0 .. TotalBits - 1 |->
                   Bit(hashed[i \div ByteBits + 1], (i + 1) % ByteBits, ByteBits)]
  IN  Group(bits, WordBits)

export_mnemonic(entropy) ==
  LET hashed == Append(entropy, Hash[entropy])
      bits   == [i \in 0 .. TotalBits - 1 |->
                   Bit(hashed[i \div ByteBits + 1], i % ByteBits, ByteBits)]
  IN  Group(bits, WordBits)

\* The tokens of an exported mnemonic.
Spelt(entropy) == [k \in 1 .. Full |-> 2 * export_mnemonic(entropy)[k]]

\* lower_bound in WORDS; the position after the last word is an error.
Found(token) == (token + 1) \div 2

\* The entropy and the checksum byte that the words of a file spell.  The bits
\* that a short mnemonic does not reach stay zero.
Bytes(words) ==
  LET bits == [i \in 0 .. TotalBits - 1 |->
                 IF i \div WordBits < Len(words)
                 THEN Bit(Found(words[i \div WordBits + 1]), i % WordBits, WordBits)
                 ELSE 0]
  IN  Group(bits, ByteBits)

EntropyOf(words) == SubSeq(Bytes(words), 1, EntropyBytes)

\* A variant: the checksum is not verified.
AcceptedUnverified(words) ==
  /\ Len(words) \in Counts
  /\ \A k \in DOMAIN words : Found(words[k]) \in Word

Accepted(words) ==
  /\ Len(words) \in Counts
  /\ \A k \in DOMAIN words : Found(words[k]) \in Word
  /\ Bytes(words)[EntropyBytes + 1] = Hash[EntropyOf(words)]

\* The seed of generate_from_random: what the memory held.
UninitializedSeed == {<<"memory", m>> : m \in Memory}

\* generate_seed: PBKDF2 over the exported mnemonic.
generate_seed(entropy) == <<"pbkdf2", export_mnemonic(entropy)>>

\* export_mnemonic and generate_from_mnemonic are inverse: what one spells the
\* other accepts and reads as the same entropy, the checksum byte included.
PackingInverts ==
  \A e \in Entropy : Accepted(Spelt(e)) /\ EntropyOf(Spelt(e)) = e

----------------------------------------------------------------------------
VARIABLES
  file,    \* "absent" or the words in it, with the entropy of the process that
           \* wrote them, if one did
  proc     \* each process

vars == <<file, proc>>

Absent        == [exists |-> FALSE, words |-> <<>>, of |-> <<>>]
Text(m, e)    == [exists |-> TRUE, words |-> m, of |-> e]
Ended         == [at |-> "ended", read |-> Absent,
                  entropy |-> <<>>, seed |-> <<>>, keys |-> 0]
InAt(p, s)    == proc[p].at = s
Become(p, r)  == proc' = [proc EXCEPT ![p] = r]

\* A file the user typed, or none.
Init ==
  /\ file \in {Absent} \cup {Text(m, <<>>) : m \in Typed}
  /\ proc = [p \in Procs |-> Ended]

\* ifstream ifs(mnemonic_file); ifs.fail()
Start(p) ==
  /\ proc[p].at \in {"ended", "refused"}
  /\ Become(p, [Ended EXCEPT !.at = IF file.exists THEN "reading" ELSE "making"])
  /\ UNCHANGED file

\* generate_from_random, whose entropy and seed are uninitialized, and the
\* ofstream, which truncates the file.
Make(p) ==
  /\ InAt(p, "making")
  /\ \E e \in Entropy, s \in UninitializedSeed :
       Become(p, [Ended EXCEPT !.at = "writing", !.entropy = e, !.seed = s])
  /\ file' = Text(<<>>, <<>>)

\* The mnemonic reaches the file when the stream is closed.
Write(p) ==
  /\ InAt(p, "writing")
  /\ file' = Text(Spelt(proc[p].entropy), proc[p].entropy)
  /\ Become(p, [proc[p] EXCEPT !.at = "running"])

\* The file is read up to the ';' and given to generate_from_mnemonic.
Read(p) ==
  /\ InAt(p, "reading")
  /\ \/ /\ Accepted(file.words)
        /\ LET e == EntropyOf(file.words) IN
           Become(p, [Ended EXCEPT !.at = "running", !.read = file,
                                   !.seed = generate_seed(e), !.entropy = e])
     \/ /\ ~Accepted(file.words)
        /\ Become(p, [Ended EXCEPT !.at = "refused", !.read = file])
  /\ UNCHANGED file

\* The next key is derived from the seed and the number of keys so far.
create_next_account(p) ==
  /\ InAt(p, "running") /\ proc[p].keys < MaxKeys
  /\ Become(p, [proc[p] EXCEPT !.keys = @ + 1])
  /\ UNCHANGED file

\* The process exits, or is killed wherever it is.
End(p) ==
  /\ proc[p].at # "ended"
  /\ Become(p, Ended)
  /\ UNCHANGED file

Next ==
  \E p \in Procs :
    Start(p) \/ Make(p) \/ Write(p) \/ Read(p) \/ create_next_account(p) \/ End(p)

Spec == Init /\ [][Next]_vars

----------------------------------------------------------------------------
\* Every file holds tokens, every session what its way of starting gave it.
TypeOK ==
  /\ file.words \in Seq(Token) /\ file.of \in Entropy \cup {<<>>}
  /\ \A p \in Procs :
       /\ proc[p].keys \in 0 .. MaxKeys
       /\ InAt(p, "running") => proc[p].entropy \in Entropy

\* A mnemonic that a client has written is accepted when it is read again, and
\* gives back the entropy of the wallet that wrote it (export_mnemonic and
\* generate_from_mnemonic are inverse, the checksum byte included).
OwnFileOpens ==
  \A p \in Procs :
    proc[p].read.of # <<>> =>
      /\ InAt(p, "running")
      /\ proc[p].entropy = proc[p].read.of

\* The token is a word of WORDS and not a string that sorts before one.
Listed(token) == token % 2 = 0

\* A wallet made from a typed mnemonic of words of the list exports the words
\* that were typed, followed by the first word of the list up to the full
\* length.  Nothing is claimed of a mnemonic with any other string in it:
\* lower_bound takes the next word in its place and only a string after the
\* last word is "a unkonwn word" (wallet.cpp:211-214), so when the checksum
\* fits the wallet is that of another mnemonic than the one typed.
ExportsWhatWasRead ==
  \A p \in Procs :
    LET words == proc[p].read.words IN
    (/\ InAt(p, "running") /\ proc[p].read.exists
     /\ \A k \in DOMAIN words : Listed(words[k])) =>
      export_mnemonic(proc[p].entropy) =
        [k \in 1 .. Full |-> IF k <= Len(words) THEN words[k] \div 2 ELSE 0]
=============================================================================
