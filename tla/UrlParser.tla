----------------------------- MODULE UrlParser -----------------------------
(***************************************************************************)
(* The loop of Request::URLParser (auth server) and FormRequest::URLParser *)
(* (content server), character by character: the same automaton, started   *)
(* behind the four characters of "GET " in the one and at the beginning of *)
(* the target in the other.  Characters that both treat alike are one.     *)
(***************************************************************************)
EXTENDS Integers, Sequences, SequencesExt

CONSTANTS
    Letters,      \* characters without a meaning for the loop
    Lengths,      \* set of lengths of the arbitrary texts tried
    Names,        \* names and values of parameters in the well-formed ones,
    MaxPairs,     \* at most so many of them
    Starts        \* the parameter start: 0, or 4 = sizeof("GET ") - 1

ASSUME LettersAssumption == Letters \cap {"?", "=", "&", " "} = {}
ASSUME NamesAssumption == Names \subseteq Seq(Letters)
ASSUME NumbersAssumption == Lengths \subseteq Nat /\ MaxPairs \in Nat /\ Starts \subseteq Nat

Chars == Letters \cup {"?", "=", "&", " "}
Skipped(n) == [i \in 1..n |-> "skipped"]     \* " /ge", say

(* A target with a query string as a browser forms it. *)
Pairs == [name : Names, value : Names]
Queries == UNION {[1..n -> Pairs] : n \in 1..MaxPairs}
Written(pair) == pair.name \o <<"=">> \o pair.value
Joined(query) ==         \* joined[k] is what the first k parameters make
    LET joined[k \in 1..Len(query)] ==
            IF k = 1 THEN Written(query[1])
            ELSE joined[k - 1] \o <<"&">> \o Written(query[k])
    IN  joined
TextOf(query) == <<"/", "?">> \o Joined(query)[Len(query)] \o <<" ">>

VARIABLES
    text,         \* what is parsed
    query,        \* what it was written from; <<>> when it is arbitrary
    start, p, properStart, separator,  \* positions, counted from 0 as in C++
    result,       \* from names to values
    status        \* "parsing", "parsed", "bad http" or "out of range"

vars == <<text, query, start, p, properStart, separator, result, status>>

-----------------------------------------------------------------------------
Size == Len(text)
At(i) == text[i + 1]

(* substr(from, count); a count below zero has wrapped round to a huge one. *)
Substr(from, count) ==
    IF count < 0 \/ from + count > Size THEN SubSeq(text, from + 1, Size)
    ELSE SubSeq(text, from + 1, from + count)

(* A possible slip: the value keeps its equality sign. *)
StoredWithSign(to) ==
    [n \in DOMAIN result \cup {Substr(properStart, separator - properStart)} |->
        IF n = Substr(properStart, separator - properStart)
        THEN Substr(separator, to - separator) ELSE result[n]]

(* result[name] = value, for the pair that ends before position to. *)
Stored(to) ==
    [n \in DOMAIN result \cup {Substr(properStart, separator - properStart)} |->
        IF n = Substr(properStart, separator - properStart)
        THEN Substr(separator + 1, to - (separator + 1)) ELSE result[n]]

(* substr throws when it is to begin behind the end. *)
InRange == properStart <= Size /\ separator + 1 <= Size

Store(to) ==
    IF InRange THEN result' = Stored(to) /\ UNCHANGED status
    ELSE UNCHANGED result /\ status' = "out of range"

Init ==
    /\ start \in Starts
    /\ \/ /\ query = <<>>
          /\ \E n \in Lengths : \E rest \in [1..n -> Chars] : text = Skipped(start) \o rest
       \/ /\ query \in Queries
          /\ text = Skipped(start) \o TextOf(query)
    /\ text # <<>>                              \* httpString.empty()
    /\ p = start /\ properStart = 0 /\ separator = 0
    /\ result = <<>>                            \* the function without names
    /\ status = "parsing"

More == status = "parsing" /\ p < Size /\ At(p) # " "

Letter ==
    /\ More /\ At(p) \notin {"?", "=", "&"}
    /\ p' = p + 1
    /\ UNCHANGED <<text, query, start, properStart, separator, result, status>>

Question ==
    /\ More /\ At(p) = "?"
    /\ properStart' = p + 1
    /\ p' = p + 1
    /\ UNCHANGED <<text, query, start, separator, result, status>>

Equals ==
    /\ More /\ At(p) = "="
    /\ separator' = p
    /\ p' = p + 1
    /\ UNCHANGED <<text, query, start, properStart, result, status>>

Bad ==
    /\ More /\ At(p) = "&"
    /\ properStart = 0 \/ separator = 0
    /\ status' = "bad http"
    /\ UNCHANGED <<text, query, start, p, properStart, separator, result>>

(* A possible slip: the next name begins with the ampersand. *)
AndAgain ==
    /\ More /\ At(p) = "&"
    /\ properStart # 0 /\ separator # 0
    /\ Store(p)
    /\ properStart' = p
    /\ p' = p + 1
    /\ UNCHANGED <<text, query, start, separator>>

And ==
    /\ More /\ At(p) = "&"
    /\ properStart # 0 /\ separator # 0
    /\ Store(p)
    /\ properStart' = p + 1
    /\ p' = p + 1
    /\ UNCHANGED <<text, query, start, separator>>

(* Behind the loop: the last pair is stored whatever there was. *)
End ==
    /\ status = "parsing" /\ ~More
    /\ IF InRange THEN result' = Stored(p) /\ status' = "parsed"
       ELSE UNCHANGED result /\ status' = "out of range"
    /\ UNCHANGED <<text, query, start, p, properStart, separator>>

Next == Letter \/ Question \/ Equals \/ Bad \/ And \/ End
Spec == Init /\ [][Next]_vars

-----------------------------------------------------------------------------

(* What a browser writes is read back: every parameter with its value, the *)
(* last one when a name occurs twice, empty names and values included.     *)
RoundTrip == status # "parsing" /\ query # <<>> =>
    /\ status = "parsed"
    /\ result = [n \in {query[i].name : i \in DOMAIN query} |->
                    query[CHOOSE i \in DOMAIN query :
                             /\ query[i].name = n
                             /\ \A j \in DOMAIN query : query[j].name = n => j <= i].value]

Ends == {i \in start..p : i = p \/ At(i) = "&"}
HasSign(e) == \E i \in start..e - 1 :
    At(i) = "=" /\ \A j \in i..e - 1 : At(j) \notin {"&", "?"}

(* Whatever the text, no substr begins behind its end, and no name or      *)
(* value takes in a part of another parameter, unless one has no equality  *)
(* sign: then the separator is that of an earlier one and the name's       *)
(* length wraps below zero.  An & with no sign anywhere before is refused. *)
NoSpill ==
    /\ status # "out of range"
    /\ status = "bad http" => \A i \in start..p - 1 : At(i) # "&"
    /\ status = "parsed" /\ (\A e \in Ends : HasSign(e)) =>
          \A n \in DOMAIN result : "&" \notin ToSet(n) \cup ToSet(result[n])
=============================================================================
