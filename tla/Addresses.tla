----------------------------- MODULE Addresses ------------------------------
(* The tests of names and addresses of valid_hostname.c and sane_inet.c, and  *)
(* the printing of an IPv4 address.                                          *)
(*                                                                          *)
(* A text is a sequence of characters and grows piece by piece, so that every  *)
(* text over an alphabet, up to a length, is a state; each test, translated     *)
(* from its loop, is compared there with a definition of what it looks for.    *)
(* The loops' early returns are the field ok: once FALSE it stays FALSE.  A     *)
(* loop is a function of how many characters it has read.                     *)
EXTENDS Integers, Sequences, FiniteSets, Functions

CONSTANTS
  Alphabets,   \* sets of [piece, most]: what a text is made of, and of how many
  Octets,      \* the octets of the addresses that are printed
  LabelLen,    \* VALID_LABEL_LEN (63)
  NameLen,     \* VALID_HOSTNAME_LEN (255)
  PortMax      \* the largest port (65535)

Digit == {"0", "1", "2", "3", "4", "5", "6", "7", "8", "9"}
Hex == Digit \cup {"a", "b", "c", "d", "e", "f"}
Letter == Hex \cup {"g", "x", "_"}    \* isalnum, or '_'

DigitValue == [d \in Digit |->
  CHOOSE n \in 0..9 : d = <<"0", "1", "2", "3", "4", "5", "6", "7", "8", "9">>[n + 1]]

DigitOf == [n \in 0..9 |-> CHOOSE d \in Digit : DigitValue[d] = n]

VARIABLES
  alphabet,  \* the alphabet of this behaviour
  size,      \* how many pieces of it have been written
  text,      \* the text
  octets     \* the address that the text was printed from, or <<>>

vars == <<alphabet, size, text, octets>>

\* The character at place i, "" (the NUL) behind the last one.
At(s, i) == IF i \in DOMAIN s THEN s[i] ELSE ""

\* The parts of a text between separators, with one character more.
PartsWith(parts, c, separator) ==
  IF c = separator THEN Append(parts, <<>>)
  ELSE [parts EXCEPT ![Len(parts)] = Append(@, c)]

Split(s, separator) ==
  LET parts[i \in 0..Len(s)] ==
        IF i = 0 THEN <<<<>>>> ELSE PartsWith(parts[i - 1], s[i], separator)
  IN  parts[Len(s)]

\* Numbers beyond a hundred thousand are not told apart.
NumberWith(n, c) == IF n > 100000 THEN n ELSE 10 * n + DigitValue[c]

Number(s) ==
  LET n[i \in 0..Len(s)] == IF i = 0 THEN 0 ELSE NumberWith(n[i - 1], s[i])
  IN  n[Len(s)]

Digits(s) == Range(s) \subseteq Digit

-----------------------------------------------------------------------------
\* Mutant: a hyphen is misplaced at the end of the name only.
HyphenFitsEarly(st, behind) == st.label # 0 /\ behind # ""

\* A hyphen is not the first nor the last of its label.
HyphenFits(st, behind) == st.label # 0 /\ behind \notin {"", "."}

\* valid_hostname: one character; hyphens are not held against the length of
\* the label, the character behind them is.
NameChar(s, st, i) ==
  LET c == s[i]
      behind == At(s, i + 1)
  IN  CASE c \in Letter ->
             [ok |-> st.ok /\ st.label < LabelLen, label |-> st.label + 1,
              named |-> st.named \/ c \notin Digit]
        [] c = "." ->
             [st EXCEPT !.ok = @ /\ st.label # 0 /\ behind # "", !.label = 0]
        [] c = "-" ->
             [st EXCEPT !.ok = @ /\ HyphenFits(st, behind),
                        !.label = @ + 1]
        [] OTHER -> [st EXCEPT !.ok = FALSE]

ValidHostname(s) ==
  LET after[i \in 0..Len(s)] ==
        IF i = 0 THEN [ok |-> TRUE, label |-> 0, named |-> FALSE]
        ELSE NameChar(s, after[i - 1], i)
      end == after[Len(s)]
  IN  s # <<>> /\ end.ok /\ end.named /\ Len(s) <= NameLen

\* valid_ipv4_hostaddr: one character.
QuadChar(s, st, i) ==
  LET c == s[i]
      value == IF st.inByte THEN 10 * st.value + DigitValue[c] ELSE DigitValue[c]
  IN  CASE ~st.ok -> st
        [] st.ok /\ c \in Digit ->
             [ok |-> value <= 255, inByte |-> TRUE, value |-> value,
              count |-> st.count + IF st.inByte THEN 0 ELSE 1]
        [] st.ok /\ c = "." ->
             [st EXCEPT !.inByte = FALSE,
                        !.ok = /\ st.inByte
                               /\ At(s, i + 1) # ""
                               /\ ~(/\ st.count = 1 /\ st.value = 0
                                    /\ ~(Range(s) \subseteq {"0", "."}))]
        [] OTHER -> [st EXCEPT !.ok = FALSE]

ValidIpv4(s) ==
  LET after[i \in 0..Len(s)] ==
        IF i = 0 THEN [ok |-> TRUE, inByte |-> FALSE, value |-> 0, count |-> 0]
        ELSE QuadChar(s, after[i - 1], i)
      end == after[Len(s)]
  IN  end.ok /\ (end.count = 4 \/ s = <<"0">>)

\* strspn: how many characters from place p on are hexadecimal digits.
HexRun(s, p) ==
  Cardinality({i \in p..Len(s) : \A j \in p..i : s[j] \in Hex})

\* Mutant: the place of "::" is not kept.
NullForgotten(st, field, double) == st.null

\* The field that "::" stands for.
NullField(st, field, double) == IF double THEN field ELSE st.null

\* valid_ipv6_hostaddr: one round of the loop, at place p.
Ipv6Round(s, st) ==
  LET c == At(s, st.p)
      run == HexRun(s, st.p)
      field == st.field + 1
      double == At(s, st.p + 1) = ":"
      Stop(answer) == [st EXCEPT !.done = TRUE, !.ok = answer]
  IN  CASE st.done -> st
        [] ~st.done /\ c = "" ->
             Stop(st.field >= 2 /\ (st.len # 0 \/ st.null = st.field - 1))
        [] ~st.done /\ c = "." ->
             Stop(/\ st.field \in 2..6
                  /\ ValidIpv4(SubSeq(s, st.p - st.len, Len(s))))
        [] ~st.done /\ c = ":" ->
             IF \/ st.field = 0 /\ st.len = 0 /\ At(s, st.p + 1) \in Letter \ {"_"}
                \/ field > 7
                \/ double /\ st.null > 0
             THEN Stop(FALSE)
             ELSE [st EXCEPT !.field = field, !.p = @ + 1, !.len = 0,
                             !.null = NullField(st, field, double)]
        [] OTHER ->
             IF run > 4 \/ run = 0 THEN Stop(FALSE)
             ELSE [st EXCEPT !.len = run, !.p = @ + run]

\* Each round but the last moves on, so the length of the text bounds them.
ValidIpv6(s) ==
  LET after[i \in 0..Len(s) + 1] ==
        IF i = 0
        THEN [done |-> FALSE, ok |-> FALSE, p |-> 1, field |-> 0, null |-> 0, len |-> 0]
        ELSE Ipv6Round(s, after[i - 1])
  IN  after[Len(s) + 1].ok

ValidHostaddr(s) ==
  /\ s # <<>>
  /\ IF ":" \in Range(s) THEN ValidIpv6(s) ELSE ValidIpv4(s)

IsIp(s) == ValidIpv4(s) \/ ValidIpv6(s)

\* The digits an octet may have.
OctetLen == 3

\* ipv4_addr_valid: each loop reads at most three digits up to its end mark.
PartChar(st, c) ==
  LET mark == IF st.part < 4 THEN "." ELSE ":"
  IN  CASE st.part = 5 -> [st EXCEPT !.rest = Append(@, c)]
        [] st.part < 5 /\ c = mark -> [st EXCEPT !.part = @ + 1, !.left = OctetLen]
        [] OTHER -> [st EXCEPT !.ok = @ /\ c \in Digit /\ st.left > 0,
                               !.left = @ - 1]

\* atoi: the number the text begins with; 0 when there is none.
Atoi(s) ==
  LET sign == At(s, 1) = "-"
      t == IF sign THEN Tail(s) ELSE s
      end == Cardinality({i \in DOMAIN t : \A j \in 1..i : t[j] \in Digit})
  IN  Number(SubSeq(t, 1, end)) * IF sign THEN -1 ELSE 1

ValidAddrPort(s) ==
  LET after[i \in 0..Len(s)] ==
        IF i = 0 THEN [part |-> 1, left |-> OctetLen, ok |-> TRUE, rest |-> <<>>]
        ELSE PartChar(after[i - 1], s[i])
      end == after[Len(s)]
  IN  end.ok /\ end.part = 5 /\ Atoi(end.rest) \in 0..PortMax

\* inet_ntop4: one octet, and the four of an address.
Decimal(u) ==
  (IF u > 99 THEN <<DigitOf[u \div 100], DigitOf[(u % 100) \div 10]>>
   ELSE IF u > 9 THEN <<DigitOf[u \div 10]>> ELSE <<>>)
  \o <<DigitOf[u % 10]>>

Ntop4(bytes) ==
  Decimal(bytes[1]) \o <<".">> \o Decimal(bytes[2]) \o <<".">>
    \o Decimal(bytes[3]) \o <<".">> \o Decimal(bytes[4])

-----------------------------------------------------------------------------
Init ==
  /\ alphabet \in Alphabets
  /\ size = 0
  /\ text = <<>>
  /\ octets = <<>>

Write(piece) ==
  /\ octets = <<>>
  /\ size < alphabet.most
  /\ size' = size + 1
  /\ text' = text \o piece
  /\ UNCHANGED <<alphabet, octets>>

PrintQuad(bytes) ==
  /\ text = <<>>
  /\ text' = Ntop4(bytes)
  /\ octets' = bytes
  /\ UNCHANGED <<alphabet, size>>

Next ==
  \/ \E piece \in alphabet.pieces : Write(piece)
  \/ \E bytes \in [1..4 -> Octets] : PrintQuad(bytes)

Spec == Init /\ [][Next]_vars

-----------------------------------------------------------------------------
\* A host name: labels of letters, digits, hyphens and underscores, not empty,
\* not too long, not with a hyphen at an end, and not all of them numbers.
IsName(s) ==
  /\ Len(s) <= NameLen
  /\ Range(s) \subseteq Letter \cup {".", "-"}
  /\ Range(s) \cap (Letter \ Digit) # {}
  /\ \A i \in DOMAIN Split(s, ".") :
       LET label == Split(s, ".")[i]
       IN  /\ Len(label) \in 1..LabelLen
           /\ label[1] # "-"
           /\ label[Len(label)] # "-"

\* Four octets; the first is 0 in the address 0.0.0.0 only.
IsQuad(s) ==
  LET part == Split(s, ".")
  IN  /\ Len(part) = 4
      /\ \A i \in 1..4 : part[i] # <<>> /\ Digits(part[i]) /\ Number(part[i]) <= 255
      /\ Number(part[1]) = 0 => Range(s) \subseteq {"0", "."}

\* Groups of one to four hexadecimal digits, or a quad in the place of the last
\* two; and how many groups they stand for.
IsGroup(g) == Len(g) \in 1..4 /\ Range(g) \subseteq Hex

IsGroups(s) ==
  LET group == Split(s, ":")
      n == Len(group)
      octet == Split(group[n], ".")
  IN  /\ \A i \in 1..n - 1 : IsGroup(group[i])
      /\ \/ IsGroup(group[n])
         \/ IsQuad(group[n]) /\ \A i \in DOMAIN octet : Len(octet[i]) <= 3

Width(s) ==
  IF s = <<>> THEN 0 ELSE Len(Split(s, ":")) + (IF "." \in Range(s) THEN 1 ELSE 0)

\* An IPv6 address as valid_hostname.c:196-197 describes it: eight groups, or
\* fewer with "::" in the place of at least so many that are left out.
IsV6(s, least) ==
  \/ IsGroups(s) /\ Width(s) = 8
  \/ \E i \in 1..Len(s) - 1 :
       LET left == SubSeq(s, 1, i - 1)
           right == SubSeq(s, i + 2, Len(s))
       IN  /\ s[i] = ":" /\ s[i + 1] = ":"
           /\ left = <<>> \/ (IsGroups(left) /\ "." \notin Range(left))
           /\ right = <<>> \/ IsGroups(right)
           /\ Width(left) + Width(right) + least <= 8

\* The shape that such addresses have, when it is not asked that the groups that
\* are not written be left out for "::".
HasV6Shape(s) ==
  LET group == Split(s, ":")
      n == Len(group)
  IN  /\ n \in 3..8
      /\ Cardinality({i \in 1..Len(s) - 1 : s[i] = ":" /\ s[i + 1] = ":"}) <= 1
      /\ group[1] = <<>> => group[2] = <<>>
      /\ group[n] = <<>> => group[n - 1] = <<>>
      /\ \A i \in 1..n - 1 : group[i] = <<>> \/ IsGroup(group[i])
      /\ \/ group[n] = <<>>
         \/ IsGroup(group[n])
         \/ n <= 7 /\ IsQuad(group[n])

\* valid_hostname accepts host names only, and all of them
\* (valid_hostname.c:9-84).
NamesRecognized == ValidHostname(text) <=> IsName(text)

\* The test of quads accepts quads only, and all of them, and "0".  The test of
\* IPv6 addresses accepts all of them in which "::" does not stand for one group
\* alone, and nothing that has not their shape: one "::", no group too long, no
\* colon at an end, a quad in the end only.  The two ways to ask, valid_hostaddr
\* and is_ip, agree (valid_hostname.c:88-281, sane_inet.c:41-54).
AddressesRecognized ==
  /\ ValidIpv4(text) <=> (IsQuad(text) \/ text = <<"0">>)
  /\ IsV6(text, 2) => ValidIpv6(text)
  /\ ValidIpv6(text) => HasV6Shape(text)
  /\ ValidHostaddr(text) <=> IsIp(text)

\* What the comment says of the test of IPv6 addresses: eight groups, or a
\* version of them that "::" compresses.  The code does not keep to it
\* (valid_hostname.c:196-197).
Ipv6Only == ValidIpv6(text) => IsV6(text, 1)

\* ipv4_addr_valid accepts every address with its port; what else it accepts
\* has the shape of one, with octets that are empty or up to 999
\* (sane_inet.c:56-123).
PortsRecognized ==
  LET half == Split(text, ":")
      part == Split(half[1], ".")
      shape == /\ Len(half) >= 2 /\ Len(part) = 4
               /\ \A i \in 1..4 : Digits(part[i]) /\ Len(part[i]) <= 3
  IN  /\ ValidAddrPort(text) => shape
      /\ (/\ shape /\ Len(half) = 2 /\ Digits(half[2])
          /\ IsQuad(half[1]) /\ Number(half[2]) <= PortMax) => ValidAddrPort(text)

\* What is printed fits the sixteen characters asked for, reads back as the
\* same octets, and is an address unless it begins with the octet 0
\* (sane_inet.c:5-32).
PrintedReadsBack ==
  octets # <<>> =>
    /\ Len(text) + 1 <= 16
    /\ [i \in 1..4 |-> Number(Split(text, ".")[i])] = octets
    /\ ValidIpv4(text) <=> (octets[1] # 0 \/ octets = <<0, 0, 0, 0>>)

=============================================================================
