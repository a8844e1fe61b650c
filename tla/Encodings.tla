----------------------------- MODULE Encodings ------------------------------
(***************************************************************************)
(* The conversions a name goes through between the disk and a WebDAV       *)
(* client: PROPFIND lists its href, the client sends that back, and        *)
(* parse_request and resolve_path read it.  A string is a sequence of      *)
(* bytes.  What Windows does with its code page (CP_ACP) is given by Wide, *)
(* the characters beyond ASCII a name may have, each with its bytes in the *)
(* code page and in UTF-8.                                                 *)
(***************************************************************************)
EXTENDS Integers, Sequences

CONSTANTS Wide,        \* records [acp |-> bytes, utf8 |-> bytes]
          Letter,      \* the ASCII characters names are made of
          NameLen      \* characters of the longest name

StartsWith(s, t) == Len(t) <= Len(s) /\ SubSeq(s, 1, Len(t)) = t

(* A wide character begins with a lead byte in the code page, where a byte *)
(* that follows is at least 64, and has no ASCII byte in UTF-8.  In neither*)
(* does one character begin with another.  Windows has no control          *)
(* characters in names.                                                    *)
ASSUME EncodingsAssumption ==
    /\ Letter \subseteq 32 .. 126 /\ NameLen \in Nat
    /\ \A w \in Wide :
          /\ w.acp \in Seq(64 .. 255) /\ w.acp # <<>> /\ w.acp[1] > 127
          /\ w.utf8 \in Seq(128 .. 255) /\ w.utf8 # <<>>
    /\ \A v, w \in Wide : StartsWith(v.acp, w.acp) \/ StartsWith(v.utf8, w.utf8) => v = w

(* Text read from left to right: at i, piece[i] is put out, and reading    *)
(* goes on at next[i].                                                     *)
Scan(piece, next) ==
    LET from[i \in 1 .. Len(piece) + 1] ==
          IF i > Len(piece) THEN <<>> ELSE piece[i] \o from[next[i]]
    IN  from[1]

Joined(pieces) == Scan(pieces, [i \in DOMAIN pieces |-> i + 1])

Percent == 37
Space == 32
Blank == 9 .. 13 \cup {Space}
HexDigit == 48 .. 57 \cup 65 .. 70 \cup 97 .. 102
Digit(d) == IF d <= 57 THEN d - 48 ELSE IF d <= 70 THEN d - 55 ELSE d - 87
Hex(v) == IF v < 10 THEN 48 + v ELSE 55 + v

-----------------------------------------------------------------------------
(* Percent encoding, http_parser.cpp.                                      *)

(* What `iss >> std::hex >> value` reads from two characters: none, or the *)
(* byte.  The extraction skips a blank, takes a sign, and is content with  *)
(* one digit, but not with the "0" of "0x".                                *)
HexValue(a, b) ==
    CASE a \in HexDigit /\ b \in HexDigit -> {16 * Digit(a) + Digit(b)}
      [] a \in HexDigit /\ b \notin HexDigit /\ ~(a = 48 /\ b \in {88, 120}) -> {Digit(a)}
      [] a \in Blank \cup {43} /\ b \in HexDigit -> {Digit(b)}
      [] a = 45 /\ b \in HexDigit -> {(256 - Digit(b)) % 256}
      [] OTHER -> {}

(* decode_url has room for two digits after a '%' at i.                    *)
HasTwoMore(s, i) == i + 2 <= Len(s)

(* The byte of the escape at i, if there is one.                           *)
EscapeAt(s, i) ==
    IF s[i] = Percent /\ HasTwoMore(s, i) THEN HexValue(s[i + 1], s[i + 2]) ELSE {}

DecodeUrl(s) ==
    LET byte(i) == IF EscapeAt(s, i) = {} THEN s[i] ELSE CHOOSE v \in EscapeAt(s, i) : TRUE
    IN  Scan([i \in DOMAIN s |-> <<byte(i)>>],
             [i \in DOMAIN s |-> IF EscapeAt(s, i) = {} THEN i + 1 ELSE i + 3])

Escaped(c) == <<Percent, Hex(c \div 16), Hex(c % 16)>>

(* The bytes encodeFilename puts out for one byte: blanks and what is not  *)
(* ASCII are escaped, a '%' is not.                                        *)
EncodedByte(c) == IF c = Space \/ c > 127 THEN Escaped(c) ELSE <<c>>

-----------------------------------------------------------------------------
(* Code pages, by MultiByteToWideChar and WideCharToMultiByte.             *)

(* What a C string holds of s: nothing from the first 0 on.                *)
CString(s) ==
    Scan([i \in DOMAIN s |-> IF s[i] = 0 THEN <<>> ELSE <<s[i]>>],
         [i \in DOMAIN s |-> IF s[i] = 0 THEN Len(s) + 1 ELSE i + 1])

Acp == [w \in Wide |-> w.acp]
Utf8 == [w \in Wide |-> w.utf8]

(* The wide characters, as encoding From spells them, that s has at i.     *)
WideAt(s, i, From) == {w \in Wide : StartsWith(SubSeq(s, i, Len(s)), From[w])}

(* s read character by character in encoding From and written in To; what  *)
(* is no character becomes '?'.                                            *)
Recoded(s, From, To) ==
    LET wide(i) == WideAt(s, i, From) # {}
        char(i) == CHOOSE w \in WideAt(s, i, From) : TRUE
        other(i) == IF s[i] < 128 THEN s[i] ELSE 63
    IN  Scan([i \in DOMAIN s |-> IF wide(i) THEN To[char(i)] ELSE <<other(i)>>],
             [i \in DOMAIN s |-> IF wide(i) THEN i + Len(From[char(i)]) ELSE i + 1])

Gb18030ToUtf8(s) == Recoded(CString(s), Acp, Utf8)

Utf8ToAcp(s) == Recoded(CString(s), Utf8, Acp)

EncodeFilename(name) ==
    LET s == Gb18030ToUtf8(name)
    IN  Joined([i \in DOMAIN s |-> EncodedByte(s[i])])

(* A slip ParsedPath must not become: the path stays UTF-8.                *)
ParsedPathAsSent(target) == DecodeUrl(target)

(* What parse_request makes of a request target: decoded, then converted   *)
(* to the code page.                                                       *)
ParsedPath(target) == Utf8ToAcp(DecodeUrl(target))

(* The name resolve_path looks up: it decodes what is decoded already.     *)
ResolvedName(path) == DecodeUrl(path)

-----------------------------------------------------------------------------
(* The names of the disk, in the code page.                                *)
Upto(n, S) == UNION {[1 .. k -> S] : k \in 0 .. n}
Names == {Joined(cs) : cs \in Upto(NameLen, {<<l>> : l \in Letter} \cup {w.acp : w \in Wide})}

(* The names whose href, sent back as a request, does not find them.       *)
Misled == {n \in Names : ResolvedName(ParsedPath(EncodeFilename(n))) # n}

(* The names that hold an escape themselves.                               *)
Escapes == {n \in Names : DecodeUrl(n) # n}
=============================================================================
