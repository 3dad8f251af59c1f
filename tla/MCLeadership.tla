---------------------------- MODULE MCLeadership ----------------------------
(* An instance of Leadership: staff forms may list any one member.         *)
EXTENDS Leadership

MCLists == {{u} : u \in Members}
=============================================================================
