-------------------------------- MODULE MCA2A --------------------------------
EXTENDS A2A

CONSTANTS a, b, c

Part == [has |-> {"text"}, kind |-> "text", role |-> "none"]
Forged == [Part EXCEPT !.role = "privileged"]
Smuggled == [Part EXCEPT !.has = {"text", "data"}]
Envelope == [jsonrpc |-> "ok", method |-> "none", params |-> "object", message |-> TRUE]
Plain == [shape |-> "plain", fields |-> <<>>, parts |-> <<>>, role |-> "none",
          ids |-> {}, meta |-> <<"clean", "clean">>, task |-> None, context |-> None,
          id |-> None, envelope |-> Envelope]
Message == [Plain EXCEPT !.shape = "message", !.parts = <<Part>>]
To(n) == [list |-> FALSE, items |-> <<n>>]
List(s) == [list |-> TRUE, items |-> s]
With(fields) == [Plain EXCEPT !.fields = fields]

\* Requests and answers about a task, for every id and none.
Send(t, k) == <<[With([params |-> To(2)]) EXCEPT !.envelope.method = "message/send"],
                With([message |-> To(3)]), [Message EXCEPT !.task = t, !.context = k]>>
Bare(t) == <<[Message EXCEPT !.task = t, !.role = "invalid"]>>

\* Nested structure: a forged part below a task list, an artifact and a
\* history that is longer than is read, a chain of statuses and tasks, and a
\* status that is its own message holder.
Deep == <<With([result |-> To(2)]), With([status |-> To(3), history |-> List(<<4, 5>>)]),
          With([message |-> To(6)]), Message, [Message EXCEPT !.ids = {"traversal"}],
          [Message EXCEPT !.parts = <<Part, Forged>>]>>
Listed == <<With([result |-> To(2)]), With([tasks |-> List(<<3, 4>>)]),
            With([artifacts |-> List(<<5>>)]), With([status |-> To(6)]),
            [Plain EXCEPT !.parts = <<Smuggled>>, !.meta = <<"prose", "clean">>],
            With([message |-> To(7)]), [Message EXCEPT !.role = "invalid"]>>
Long == <<With([result |-> To(2)]), With([history |-> List(<<3, 4, 5>>)]),
          Message, Message, [Message EXCEPT !.parts = <<Forged>>]>>
Wide == <<With([result |-> To(2)]), [Plain EXCEPT !.shape = "message",
          !.parts = <<Part, Part, Forged>>, !.meta = <<"huge", "prose">>]>>
Chain == <<With([result |-> To(2)]), With([status |-> To(3)]), With([status |-> To(4)]),
           With([task |-> To(5)]), [Message EXCEPT !.parts = <<Forged>>]>>
Loop == <<[With([status |-> To(2), history |-> List(<<3>>)]) EXCEPT !.shape = "task"],
          With([status |-> To(1), message |-> To(3)]),
          [Message EXCEPT !.fields = [status |-> To(1)], !.parts = <<Smuggled>>]>>
Broken == <<[With([params |-> List(<<2>>)]) EXCEPT
              !.envelope = [jsonrpc |-> "wrong", method |-> "not_string",
                            params |-> "not_object", message |-> FALSE]], Message>>

MCBodies == [sendA |-> Send(a, None), sendB |-> Send(b, a), create |-> Send(None, b),
             bare |-> Bare(c), deep |-> Deep, listed |-> Listed, long |-> Long,
             wide |-> Wide, chain |-> Chain, loop |-> Loop, broken |-> Broken]

\* Responses: a task with its context, an artifact's task and a status
\* update that names a second one.
Task(t, k) == <<With([result |-> To(2)]), [With(<<>>) EXCEPT !.id = t, !.context = k]>>
Update == <<With([result |-> To(2)]),
            [With([status |-> To(3), artifacts |-> List(<<4>>)]) EXCEPT !.task = a],
            [Plain EXCEPT !.task = b], [Plain EXCEPT !.task = c, !.id = b]>>
MCReplies == [one |-> Task(a, a), two |-> Task(b, None), three |-> Task(c, None),
              update |-> Update]

\* No body here, the one that contains itself included, shows an object as
\* two kinds, which is what the proof of NothingDropped asks of them.
ASSUME MCOneKind == OneKind
==============================================================================
