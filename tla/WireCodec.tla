------------------------------ MODULE WireCodec ------------------------------
(***************************************************************************)
(* The frames of one connection: transport/stomp.py inside                 *)
(* transport/sockjs.py, read by transport/websocket.py.  A string is a      *)
(* sequence of symbols; a symbol stands for one character or for a word     *)
(* whose characters do not matter.  The symbols that do matter:             *)
(*   BS  backslash   LF  line feed   CR  carriage return   ":"  colon       *)
(*   NUL the octet zero   VT  any other line boundary of str.splitlines     *)
(*   e'  a character of two octets   r, n, c  the letters of the escapes    *)
(* The broker writes its frames as encode() does; what it puts into one     *)
(* SockJS packet, and garbage, are its choice.                              *)
(***************************************************************************)
EXTENDS Integers, SequencesExt, TLC

CONSTANTS Headers,     \* the headers of a frame: functions from strings to strings
          Bodies,      \* the bodies of a frame: strings
          Garbage,     \* messages that are no frame: strings
          MaxItems     \* messages read after the handshake (bound)

VARIABLES phase,       \* where connect() is, or what receive() has met
          packets,     \* history: what the packets read since CONNECTED held
          delivered    \* the frames receive() has returned, in order

vars == <<phase, packets, delivered>>

ContentLength == <<"content-length">>
NoFrame == [command |-> "none"]
Frames == [command : {"MESSAGE"}, headers : Headers, body : Bodies]

(* What the broker puts into a packet: frames, blank messages, garbage. *)
Blank == [command |-> "blank"]
Items == Frames \cup {Blank} \cup {[command |-> "garbage", text |-> g] : g \in Garbage}
Greetings == [command : {"CONNECTED", "ERROR"}, headers : {<<>>}, body : {<<>>}]

-----------------------------------------------------------------------------
(* stomp.py: _escape replaces in four passes, backslash first. *)
RECURSIVE Replace(_, _, _)
Replace(s, old, new) ==
    IF s = <<>> THEN <<>>
    ELSE (IF Head(s) = old THEN new ELSE <<Head(s)>>) \o Replace(Tail(s), old, new)

(* The passes with backslash last: it doubles the ones just written. *)
MutEscape(s) ==
    Replace(Replace(Replace(Replace(s, "CR", <<"BS", "r">>),
                            "LF", <<"BS", "n">>), ":", <<"BS", "c">>), "BS", <<"BS", "BS">>)

Escape(s) ==
    Replace(Replace(Replace(Replace(s, "BS", <<"BS", "BS">>),
                            "CR", <<"BS", "r">>), "LF", <<"BS", "n">>), ":", <<"BS", "c">>)

Unescaped == [n |-> "LF", r |-> "CR", c |-> ":", BS |-> "BS"]

(* _unescape's loop; where it raises, the text ends with "bad". *)
RECURSIVE Unescape(_)
Unescape(s) ==
    CASE s = <<>> -> <<>>
      [] s # <<>> /\ Head(s) # "BS" -> <<Head(s)>> \o Unescape(Tail(s))
      [] s # <<>> /\ Head(s) = "BS" ->
            IF Len(s) > 1 /\ s[2] \in DOMAIN Unescaped
            THEN <<Unescaped[s[2]]>> \o Unescape(SubSeq(s, 3, Len(s)))
            ELSE <<"bad">>

Readable(s) == ~Contains(Unescape(s), "bad")

(* len(body.encode()), as the header names it. *)
Octets(s) == <<ToString(Len(s) + Cardinality({i \in DOMAIN s : s[i] = "e'"}))>>

(* encode() adds the length of a body to a frame that does not name it. *)
Announced(f) ==
    IF f.body = <<>> \/ ContentLength \in DOMAIN f.headers THEN f
    ELSE [f EXCEPT !.headers = (ContentLength :> Octets(f.body)) @@ @]

(* The header it adds is the last one; the order of the others is any.     *)
HeaderLines(h) ==
    LET keys == SetToSeq(DOMAIN h \ {ContentLength})
                \o (IF ContentLength \in DOMAIN h THEN <<ContentLength>> ELSE <<>>)
    IN  FlattenSeq([i \in DOMAIN keys |->
                       <<"LF">> \o Escape(keys[i]) \o <<":">> \o Escape(h[keys[i]])])

Encode(f) ==
    <<f.command>> \o HeaderLines(Announced(f).headers) \o <<"LF", "LF">> \o f.body \o <<"NUL">>

-----------------------------------------------------------------------------
(* stomp.py: decode. *)
LineEnds == {"LF", "CR", "VT"}

(* rstrip: every NUL at the end goes, the body's own ones too. *)
Stripped(s) ==
    SubSeq(s, 1, SelectLastInSeq(s, LAMBDA x : x # "NUL"))

(* splitlines: no empty line after a boundary at the very end. *)
RECURSIVE SplitLines(_)
SplitLines(s) ==
    LET at == SelectInSeq(s, LAMBDA x : x \in LineEnds)
    IN  CASE s = <<>> -> <<>>
          [] s # <<>> /\ at = 0 -> <<s>>
          [] at # 0 -> <<SubSeq(s, 1, at - 1)>> \o SplitLines(SubSeq(s, at + 1, Len(s)))

(* One header line: the text up to its first colon, and the text behind it. *)
Key(l) == SubSeq(l, 1, SelectInSeq(l, LAMBDA x : x = ":") - 1)
Value(l) == SubSeq(l, SelectInSeq(l, LAMBDA x : x = ":") + 1, Len(l))
IsHeader(l) == Contains(l, ":") /\ Readable(Key(l)) /\ Readable(Value(l))

Header(h, l) == (Unescape(Key(l)) :> Unescape(Value(l))) @@ h

(* The frame a message holds, or NoFrame where decode raises ProtocolError. *)
Decode(message) ==
    LET raw == Stripped(message)
        cut == {i \in 1..Len(raw) - 1 : raw[i] = "LF" /\ raw[i + 1] = "LF"}
        at == CHOOSE i \in cut : \A j \in cut : i <= j
        lines == SplitLines(SubSeq(raw, 1, at - 1))
        body == SubSeq(raw, at + 2, Len(raw))
        headers == FoldLeft(Header, <<>>, Tail(lines))
    IN  IF \/ cut = {}
           \/ lines = <<>> \/ lines[1] = <<>>
           \/ \E i \in 2..Len(lines) : ~IsHeader(lines[i])
           \/ ContentLength \in DOMAIN headers /\ headers[ContentLength] # Octets(body)
        THEN NoFrame
        ELSE [command |-> lines[1][1], headers |-> headers, body |-> body]

-----------------------------------------------------------------------------
(* sockjs.py and websocket.py.  parse() tells five kinds of packets apart:   *)
(* "o", "h", "c..." and "a..." and what it refuses; only "a" has messages.   *)
Written(x) == CASE x.command = "blank" -> <<"LF">>
                [] x.command = "garbage" -> x.text
                [] OTHER -> Encode(x)

IsBlank(message) == \A i \in DOMAIN message : message[i] \in LineEnds \cup {" "}

Init == phase = "opening" /\ packets = <<>> /\ delivered = <<>>

(* connect(): the first packet has to be "o". *)
Open ==
    /\ phase = "opening"
    /\ phase' = "connecting"
    /\ UNCHANGED <<packets, delivered>>

(* connect(), the packets behind it: the first message that is CONNECTED,    *)
(* ERROR or no frame decides, the messages behind that one are not read.     *)
(* A blank message is no frame here.                                         *)
Decides(x) == Decode(Written(x)).command \in {"CONNECTED", "ERROR", "none"}

Handshake(items) ==
    LET first == SelectInSeq(items, Decides)
    IN  /\ phase = "connecting"
        /\ first # 0
        /\ phase' = IF items[first].command = "CONNECTED" THEN "open" ELSE "failed"
        /\ UNCHANGED <<packets, delivered>>

(* connect(): another first packet, one that parse() refuses, the timeout,   *)
(* or the end of the WebSocket.                                              *)
ConnectFails ==
    /\ phase \in {"opening", "connecting"}
    /\ phase' = "failed"
    /\ UNCHANGED <<packets, delivered>>

(* receive(): blank messages are skipped, and one that is no frame raises    *)
(* before any frame of its packet has been returned.                         *)
Receive(items) ==
    LET messages == SelectSeq([i \in DOMAIN items |-> Written(items[i])],
                              LAMBDA m : ~IsBlank(m))
        frames == [i \in DOMAIN messages |-> Decode(messages[i])]
    IN  /\ phase = "open"
        /\ packets' = Append(packets, items)
        /\ IF Contains(frames, NoFrame)
           THEN phase' = "failed" /\ UNCHANGED delivered
           ELSE delivered' = delivered \o frames /\ UNCHANGED phase

(* receive(): "c...", a packet parse() refuses, or the end of the WebSocket. *)
LinkEnds ==
    /\ phase = "open"
    /\ phase' = "closed"
    /\ UNCHANGED <<packets, delivered>>

(* The bound: what the broker may still write.  A packet without messages  *)
(* changes nothing.                                                         *)
Left == MaxItems - Len(FlattenSeq(packets))

Next ==
    \/ Open \/ ConnectFails \/ LinkEnds
    \/ \E items \in BoundedSeq(Greetings \cup {Blank}, 2) : Handshake(items)
    \/ \E n \in 1..Left : \E items \in [1..n -> Items] : Receive(items)

Spec == Init /\ [][Next]_vars

-----------------------------------------------------------------------------
TypeOK ==
    /\ phase \in {"opening", "connecting", "open", "closed", "failed"}
    /\ \A i \in DOMAIN FlattenSeq(packets) : FlattenSeq(packets)[i] \in Items
    /\ \A i \in DOMAIN delivered : delivered[i].command = "MESSAGE"

(* The one character a frame loses on its way without anybody noticing: a    *)
(* line boundary escape() does not know, at the very end of the head.        *)
Meant(f) ==
    IF f.body # <<>> THEN Announced(f)
    ELSE [f EXCEPT !.headers = [k \in DOMAIN @ |->
             IF @[k] # <<>> /\ Last(@[k]) = "VT" THEN Front(@[k]) ELSE @[k]]]

(* What encode() writes and decode() refuses: a body that ends with NUL, and *)
(* such a line boundary anywhere else in a header.                           *)
Legible(x) ==
    x.command = "MESSAGE" =>
        /\ x.body # <<>> => Last(x.body) # "NUL"
        /\ \A k \in DOMAIN Meant(x).headers :
               ~Contains(k, "VT") /\ ~Contains(Meant(x).headers[k], "VT")

Messages(some) == SelectSeq(FlattenSeq(some), LAMBDA x : x.command = "MESSAGE")
Sent(some) == [i \in DOMAIN Messages(some) |-> Meant(Messages(some)[i])]

(* A connection that goes on has read every frame the broker put into its    *)
(* packets, each as it was meant, in the order they were written, and        *)
(* nothing else.  One that has failed after the handshake met a message that *)
(* is no frame or is not legible, and delivered the packets before that one  *)
(* whole and nothing of it.                                                  *)
RoundTrip ==
    IF phase = "failed" /\ packets # <<>>
    THEN /\ delivered = Sent(Front(packets))
         /\ \E i \in DOMAIN Last(packets) :
               Last(packets)[i].command = "garbage" \/ ~Legible(Last(packets)[i])
    ELSE /\ delivered = Sent(packets)
         /\ \A i \in DOMAIN FlattenSeq(packets) :
               LET x == FlattenSeq(packets)[i] IN x.command # "garbage" /\ Legible(x)
=============================================================================
