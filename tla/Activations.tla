---------------------------- MODULE Activations ----------------------------
(***************************************************************************)
(* What a caller of a function may rely on, without the shared vector of   *)
(* values: every activation has values of its own, a new one begins with   *)
(* its parameters, its captures and null locals (or, resumed, with the     *)
(* values the coroutine was left with), it gives its result to whoever     *)
(* entered it, and a throw continues at the newest activation that has a   *)
(* handler and leaves all those below alone.                               *)
(***************************************************************************)
EXTENDS Naturals, SequencesExt

CONSTANTS Functions, FrameSize, Arity, Parameters(_), Captures, EntryPos(_), BodyPos(_), ExceptPos(_), Null

VARIABLES
    control,   \* who runs: "host", "code" (compiled code) or "native" (C++ code)
    ground,    \* the values below all activations: the globals, and those of the
               \* code that initialises them or of calls that came to nothing
    acts,      \* the activations: [pos, vals, armed, by]; by: who entered it
    objects    \* the objects; here only function pointers and coroutines matter

avars == <<control, ground, acts, objects>>

Top == Last(acts)
Nulls(n) == [i \in 1..n |-> Null]

\* Objects are never taken away, and only captures are ever added to one.
ObjectsGrow ==
    /\ Len(objects') >= Len(objects)
    /\ \A i \in DOMAIN objects :
           IF objects[i].kind = "function" THEN objects'[i].fx = objects[i].fx
                                           ELSE objects'[i] = objects[i]

NoNewCoroutine ==
    \A i \in DOMAIN objects' \ DOMAIN objects : objects'[i].kind # "coroutine"

\* All activations but the top one are as before, and so are the values of
\* the globals unless no activation is there.
OnlyTopChanges ==
    /\ Len(acts') = Len(acts)
    /\ acts # <<>> => /\ Front(acts') = Front(acts)
                      /\ Last(acts').by = Top.by
                      /\ Last(acts').pos.fx = Top.pos.fx
                      /\ ground' = ground

Init == control = "code" /\ ground = <<>> /\ acts = <<>> /\ objects = <<>>

\* The running code works on its own values, or hands over to a native.
Work ==
    /\ control = "code" /\ control' \in {"code", "native"}
    /\ OnlyTopChanges /\ NoNewCoroutine

WriteGlobal ==
    /\ control = "code" /\ control' = control
    /\ Len(acts') = Len(acts)
    /\ acts # <<>> /\ acts' = Front(acts) \o <<[Top EXCEPT !.vals = Front(@)]>>
    /\ \E i \in DOMAIN ground : ground' = [ground EXCEPT ![i] = Last(Top.vals)]
    /\ UNCHANGED objects

\* The native is done: the code below it continues with one value more.
EndNative ==
    /\ control = "native" /\ control' = "code"
    /\ IF acts = <<>>
       THEN Front(ground') = ground /\ UNCHANGED acts
       ELSE /\ \E v \in {Last(Last(acts').vals)} :
                   acts' = Front(acts) \o <<[Top EXCEPT !.vals = Append(@, v)]>>
            /\ UNCHANGED ground
    /\ UNCHANGED objects

\* The caller loses at most some of its topmost values.
CallerGivesArguments ==
    /\ Len(acts') = Len(acts) + 1
    /\ IF acts = <<>>
       THEN IsPrefix(ground', ground)
       ELSE LET n == Len(acts)
            IN  /\ IsPrefix(acts'[n].vals, Top.vals)
                /\ acts'[n] = [Top EXCEPT !.vals = acts'[n].vals]
                /\ SubSeq(acts', 1, n - 1) = Front(acts)
                /\ UNCHANGED ground
    /\ Last(acts').by = control
    /\ Last(acts').armed = FALSE
    /\ control # "code" => ground' = ground /\ Front(acts') = acts
    /\ control' = "code"

\* What code gives to the function it enters: values from its stack, or with
\* std::invoke the items of the tuple that was topmost.
Given ==
    LET taken == SubSeq(Top.vals, Len(acts'[Len(acts)].vals) + 1, Len(Top.vals))
        tuples == {i \in DOMAIN objects : objects[i].kind = "tuple" /\ taken # <<>>
                                              /\ Last(taken) = [ref |-> i]}
    IN  {taken} \cup {objects[i].items : i \in tuples}

\* The parameters are what the caller gave (host and natives bring their
\* own), the captures those of a function pointer, the locals null.
Enter == \E f \in Functions :
    LET new == Last(acts')
        rest == SubSeq(new.vals, Parameters(f) + 1, Len(new.vals))
    IN  /\ CallerGivesArguments /\ ObjectsGrow /\ NoNewCoroutine
        /\ new.pos = EntryPos(f)
        /\ control = "code" /\ acts # <<>> =>
               \E given \in Given : Arity[f] <= Len(given) /\ SubSeq(given, 1, Arity[f]) = SubSeq(new.vals, 1, Arity[f])
        /\ \/ Captures[f] = 0 /\ (rest = Nulls(FrameSize[f]) \/ control = "host")
           \/ \E i \in DOMAIN objects :
                  /\ objects[i].kind = "function" /\ objects[i].fx = f
                  /\ rest = objects[i].captured \o Nulls(FrameSize[f])

Resume == \E i \in DOMAIN objects :
    /\ CallerGivesArguments /\ UNCHANGED objects
    /\ objects[i].kind = "coroutine"
    /\ Last(acts').pos = objects[i].resume
    /\ Last(acts').vals = objects[i].locals

\* The result goes to whoever entered the activation; code gets it as its
\* topmost value.  A coroutine that is created here is the activation that
\* leaves: the same function and the values that it had, less the one that it
\* yields.
Leave ==
    /\ control = "code" /\ acts # <<>>
    /\ control' = Top.by
    /\ IF control' = "code"
       THEN IF Len(acts) = 1
            THEN Front(ground') = ground /\ acts' = <<>>
            ELSE /\ Front(Last(acts').vals) = Last(Front(acts)).vals
                 /\ acts' = Front(Front(acts)) \o
                        <<[Last(Front(acts)) EXCEPT !.vals = Last(acts').vals]>>
                 /\ UNCHANGED ground
       ELSE acts' = Front(acts) /\ UNCHANGED ground
    /\ ObjectsGrow
    /\ \A i \in DOMAIN objects' \ DOMAIN objects :
           objects'[i].kind = "coroutine" =>
               /\ objects'[i].resume.fx = Top.pos.fx
               /\ objects'[i].context = Top.pos.fx
               /\ objects'[i].locals = IF Top.pos = BodyPos(Top.pos.fx) THEN Front(Top.vals) ELSE Top.vals

\* The newest handler gets the exception, and is used up.
Throw ==
    /\ control \in {"code", "native"} /\ control' = "code"
    /\ \E h \in DOMAIN acts :
           /\ acts[h].armed /\ \A i \in DOMAIN acts : i > h => ~acts[i].armed
           /\ LET new == Last(acts')
                  f == acts[h].pos.fx
              IN  /\ Len(acts') = h
                  /\ SubSeq(acts', 1, h - 1) = SubSeq(acts, 1, h - 1)
                  /\ new = [acts[h] EXCEPT !.armed = FALSE, !.pos = ExceptPos(f), !.vals = new.vals]
                  /\ Tail(new.vals) = Nulls(FrameSize[f])
    /\ UNCHANGED <<ground, objects>>

\* Without a handler the host gets the exception.
ThrowOut ==
    /\ control \in {"code", "native"} /\ control' = "host"
    /\ \A i \in DOMAIN acts : ~acts[i].armed
    /\ acts' = <<>>
    /\ acts # <<>> => IsPrefix(ground', ground)
    /\ UNCHANGED objects

FinishSetup == acts = <<>> /\ control = "code" /\ control' = "host" /\ UNCHANGED <<ground, acts, objects>>

\* The host calls a function that does not exist: nothing is entered, and the
\* arguments lie below all activations to come.
Refuse ==
    /\ control = "host" /\ control' = control
    /\ IsPrefix(ground, ground')
    /\ UNCHANGED <<acts, objects>>

Next ==
    \/ (Work /\ ObjectsGrow) \/ WriteGlobal \/ Enter \/ Resume \/ Leave \/ EndNative
    \/ Throw \/ ThrowOut \/ FinishSetup \/ Refuse

Spec == Init /\ [][Next]_avars
=============================================================================
