---------------------------- MODULE MCStubWatcher ----------------------------
(* Instance of StubWatcher: an endpoint that refers to the deployments of   *)
(* a directory with a placeholder in its path, and a deployment.            *)
EXTENDS StubWatcher

MCDirOf == [f \in Files |-> IF f = "endpoint" THEN <<"endpoints">>
                            ELSE <<"deployments", "7">>]

Token(path, directory) == [path |-> path, directory |-> directory]

MCContents == { {}, {Token(<<"deployments", "{.id}">>, TRUE),
                     Token(<<"deployments", "7">>, FALSE),
                     Token(<<"..", "endpoints">>, TRUE)} }
=============================================================================
