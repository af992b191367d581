------------------------------ MODULE Encrypter ------------------------------
(***************************************************************************)
(* The Encrypter of src/src/lib/util/encrypter.cpp: two cipher contexts    *)
(* that are set up once and used by call after call, with the text encoded *)
(* as base64.  The instances live in the service's pool, so that a call    *)
(* finds a context as an earlier caller has left it.                       *)
(*                                                                         *)
(* OpenSSL is external.  A context is what has been fed into it since it   *)
(* was initialised, and its output depends on all of that, as the output   *)
(* of a block cipher in CBC mode with padding does.                        *)
(***************************************************************************)
EXTENDS Base64

CONSTANTS
  Texts,         \* the texts to encrypt: sequences of bytes
  Corrupt,       \* other texts to decrypt: sequences of characters
  Memory,        \* what may follow the argument of decrypt() in memory
  Block,         \* the block size of the cipher
  Key            \* the key, and the first initialisation vector

ASSUME EncrypterAssumption ==
  /\ Texts \subseteq Seq(Byte)
  /\ Corrupt \subseteq Seq(Character)
  /\ \A after \in Memory : after \in Seq(Character) /\ Len(after) = 3
  /\ Block \in 1..255
  /\ Key \in Byte

VARIABLES
  encryptingContext,
  decryptingContext,
  refreshEncryptContext,
  refreshDecryptContext,
  last           \* the last call: [op, text, after, result]

vars == <<encryptingContext, decryptingContext, refreshEncryptContext,
          refreshDecryptContext, last>>

NoText == <<>>
Terminated == <<Terminator, Terminator, Terminator>>

-----------------------------------------------------------------------------
(* The cipher *)

PadText(bytes) ==
  LET n == Block - (Len(bytes) % Block) IN bytes \o [i \in 1..n |-> n]

Chain(bytes) ==
  LET c[i \in 0..Len(bytes)] ==
        IF i = 0 THEN Key ELSE (bytes[i] + c[i - 1] + Key) % 256
  IN [i \in 1..Len(bytes) |-> c[i]]

Encipher(bytes) == Chain(PadText(bytes))

\* What EVP_DecryptFinal_ex accepts: whole blocks with a padding at the end.
Unchain(bytes) ==
  [i \in DOMAIN bytes |->
     (bytes[i] - (IF i = 1 THEN Key ELSE bytes[i - 1]) - Key) % 256]

Decipherable(bytes) ==
  /\ bytes # <<>>
  /\ Len(bytes) % Block = 0
  /\ \E n \in 1..Block :
       \A i \in (Len(bytes) - n + 1)..Len(bytes) : Unchain(bytes)[i] = n

Decipher(bytes) ==
  LET plain == Unchain(bytes) IN SubSeq(plain, 1, Len(plain) - plain[Len(plain)])

-----------------------------------------------------------------------------

\* The constructor: initContext().
Init ==
  /\ encryptingContext = <<>>
  /\ decryptingContext = <<>>
  /\ refreshEncryptContext = FALSE
  /\ refreshDecryptContext = FALSE
  /\ last = [op |-> "none", text |-> NoText, after |-> Terminated, result |-> NoText]

\* What a context holds when a call begins to feed it: it is initialised anew,
\* but not by its first call.
RefreshedMutant(context, refresh) == context
Refreshed(context, refresh) == IF refresh THEN <<>> ELSE context

\* The encoded output, or nothing if EVP_EncryptUpdate or -Final_ex fails.
EncryptResults(fed) == {NoText, Encode(Encipher(fed), FALSE)}

Encrypt(text) ==
  LET fed == Refreshed(encryptingContext, refreshEncryptContext) \o text IN
  /\ IF text = NoText
       THEN UNCHANGED <<encryptingContext, refreshEncryptContext>>
       ELSE encryptingContext' = fed /\ refreshEncryptContext' = TRUE
  /\ \E result \in IF text = NoText THEN {NoText} ELSE EncryptResults(fed) :
       last' = [op |-> "encrypt", text |-> text, after |-> Terminated, result |-> result]
  /\ UNCHANGED <<decryptingContext, refreshDecryptContext>>

\* The plain text, or nothing if EVP_DecryptUpdate or -Final_ex fails, as it does
\* for what is no output of the cipher.
DecryptResultsMutant(fed) == {NoText, Unchain(fed)}
DecryptResults(fed) ==
  {NoText} \cup (IF Decipherable(fed) THEN {Decipher(fed)} ELSE {})

\* The text is decoded before the context is touched: when that throws, the
\* exception leaves decrypt().
Decrypt(text, after) ==
  LET source == Decode(text, after)
      fed == Refreshed(decryptingContext, refreshDecryptContext) \o source
      ends == text = NoText \/ source = Thrown
  IN
  /\ IF ends
       THEN UNCHANGED <<decryptingContext, refreshDecryptContext>>
       ELSE decryptingContext' = fed /\ refreshDecryptContext' = TRUE
  /\ \E result \in IF ends THEN {source} ELSE DecryptResults(fed) :
       last' = [op |-> "decrypt", text |-> text, after |-> after, result |-> result]
  /\ UNCHANGED <<encryptingContext, refreshEncryptContext>>

Next ==
  \/ \E text \in Texts : Encrypt(text) \/ Decrypt(Encode(Encipher(text), FALSE), Terminated)
  \/ \E text \in Corrupt, after \in Memory : Decrypt(text, after)

Spec == Init /\ [][Next]_vars

-----------------------------------------------------------------------------
(* Properties *)

TypeOK ==
  /\ encryptingContext \in Seq(Byte)
  /\ decryptingContext \in Seq(Byte)
  /\ {refreshEncryptContext, refreshDecryptContext} \subseteq BOOLEAN
  /\ last.op \in {"none", "encrypt", "decrypt"}
  /\ last.result \in Seq(Byte) \/ last.result = Thrown

\* The same text is always encrypted to the same result, whatever calls came
\* before, failed ones among them: the context keeps no trace of them.
EncryptsOnlyItsText ==
  last.op = "encrypt" /\ last.result # NoText =>
    last.result = Encode(Encipher(last.text), FALSE)

\* What encrypt() has returned, decrypt() of any other instance, in whatever state
\* its context was left, gives back or fails on; it never returns another text.
DecryptUndoesEncrypt ==
  last.op = "decrypt" =>
    \A text \in Texts :
      text # NoText /\ last.text = Encode(Encipher(text), FALSE) =>
        last.result \in {text, NoText}

\* Decoding undoes encoding for every text that goes through the cipher, in both
\* alphabets and with lines broken anywhere.
DecodeUndoesEncode ==
  last.op = "encrypt" =>
    \A bytes \in {last.text, Encipher(last.text)} :
      /\ \A url \in BOOLEAN : Decode(Encode(bytes, url), Terminated) = bytes
      /\ \A length \in 1..5 :
           DecodeLines(BreakLines(Encode(bytes, FALSE), length), Terminated) = bytes

\* The decoder never asks for the length of what is left.  In a text that ends
\* with a terminator, as the ones of the shell and the command line do, it
\* still stops there: the terminator is no digit, and it throws.
StopsAtTerminator ==
  last.op = "decrypt" /\ last.after = Terminated =>
    LET m == last.text \o last.after IN
    \A g \in 1..Turns(last.text) :
      \/ \E f \in 1..(g - 1) : DecodeGroup(m, 4 * f - 3) = Thrown
      \/ 4 * g - 4 + LooksAt(m, 4 * g - 3) <= Len(last.text) + 1

=============================================================================
