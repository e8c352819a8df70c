--------------------------- MODULE MCHttpServer ---------------------------
(* HttpServer with a few requests; the IAM routes end with one exception of *)
(* each way an exception is answered.                                       *)
EXTENDS HttpServer
MCRaisable == {Exc("IntegrityError"), HTTPException(403)}
=============================================================================
