------------------------------- MODULE IpcFields -------------------------------
(* Messages between the processes. A parcel is a sequence of fields, each of a
   kind (how many bytes, or an object) and named after the parameter whose value
   it carries; the value itself is left out. A proxy function is the method it
   implements, the code it sends, the fields it writes and those it reads from
   the reply; a case of OnRemoteRequest is the code, the fields it reads, the
   method it calls and the fields it replies. Signed and unsigned words, floats
   and booleans all take one 32 bit word of a parcel.                          *)
EXTENDS Naturals, Sequences

Field(kind, name) == [kind |-> kind, name |-> name, when |-> "always"]
W(name) == Field("word", name)         \* Write/Read Uint32, Int32, Float, Bool
D(name) == Field("long", name)         \* Write/Read Uint64
S(name) == Field("string", name)       \* Write/Read String
O(name) == Field("object", name)       \* Write/Read RemoteObject
P(name) == Field("parcelable", name)   \* Write/Read (Strong)Parcelable
V(name) == Field("vector", name)       \* a count and its elements

(* a field there only when the caller gave the object; a field of the reply
   there only when the method succeeded                                        *)
Opt(f)  == [f EXCEPT !.when = "given"]
IfOk(f) == [f EXCEPT !.when = "ok"]
There(f, given, ok) == \/ f.when = "always"
                       \/ f.when = "given" /\ f.name \in given
                       \/ f.when = "ok" /\ ok
Present(fields, given, ok) ==
    LET kept[i \in 0 .. Len(fields)] ==
          IF i = 0 THEN <<>>
          ELSE IF There(fields[i], given, ok) THEN Append(kept[i - 1], fields[i]) ELSE kept[i - 1]
    IN  kept[Len(fields)]

(* A proxy function that waits and returns a result, one that waits and returns
   nothing, one that does not wait (TF_ASYNC), and one case of a stub.         *)
Call(method, code, args, results) ==
    [method |-> method, code |-> code, args |-> args, results |-> results,
     waits |-> TRUE, tells |-> TRUE]
Tell(method, code, args) == [Call(method, code, args, <<>>) EXCEPT !.tells = FALSE]
Post(method, code, args) == [Tell(method, code, args) EXCEPT !.waits = FALSE]
Case(code, args, method, results) ==
    [code |-> code, args |-> args, method |-> method, results |-> results]

(* Reading a parcel field by field: a field of the expected kind gives its
   value. A missing remote object reads as null and takes nothing; anything else
   out of place is garbage and takes the bytes of the field it stands on.      *)
ReadField(parcel, acc, f) ==
    LET here == Len(parcel) >= acc.at /\ parcel[acc.at].kind = f.kind
    IN  IF here THEN [at |-> acc.at + 1, got |-> Append(acc.got, <<f.name, parcel[acc.at].name>>)]
        ELSE IF f.kind = "object" THEN [acc EXCEPT !.got = Append(@, <<f.name, "null">>)]
        ELSE [at |-> acc.at + 1, got |-> Append(acc.got, <<f.name, "garbage">>)]
ReadParcel(parcel, fields) ==
    LET read[i \in 0 .. Len(fields)] ==
          IF i = 0 THEN [at |-> 1, got |-> <<>>] ELSE ReadField(parcel, read[i - 1], fields[i])
    IN  read[Len(fields)].got

(* every parameter got its own value, or null when nothing was given for it    *)
RightValues(got, given) ==
    \A i \in 1 .. Len(got) :
        got[i][2] = got[i][1] \/ (got[i][2] = "null" /\ got[i][1] \notin given)
=============================================================================
