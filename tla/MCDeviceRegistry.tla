-------------------------- MODULE MCDeviceRegistry --------------------------
(***************************************************************************)
(* Workloads of DeviceRegistry and DeviceAuth.                             *)
(***************************************************************************)
EXTENDS DeviceAuth

CONSTANTS u1, u2, d1, d2, d3, j1, j2, j3, w1, w2, w3, A, B, o1, o2,
          k1, k2, k3, p1, p2, n1, n2, n3, c1, c2

Cred(u, d, j, w) == [user |-> u, device |-> d, jkt |-> j, jwk |-> w]

Bind(k, c, o, x) ==
  [key |-> k, body |-> [case |-> c, op |-> o, user |-> x.user,
                        device |-> x.device, jkt |-> x.jkt, jwk |-> x.jwk]]

Pol(k, c, name) == [key |-> k, body |-> [case |-> c, policy |-> name, rev |-> 1]]

Old1 == Cred(u1, d1, j1, w1)
Old2 == Cred(u1, d2, j2, w2)
New3 == Cred(u1, d3, j3, w3)

Sign(op, x, n, d) == [op |-> op, device |-> x.device, jwk |-> x.jwk,
                      nonce |-> n, target |-> d]

Idle == [enrolled |-> {}, enroll |-> {}, bind |-> {}, policy |-> {},
         signed |-> {}, procs |-> {p1, p2}, callers |-> {}]

BindThird == {Bind(k1, A, o1, New3)}
OneFinalization == {Pol(k2, A, "REVOKE_ALL_PREVIOUS")}

\* Two devices are enrolled, a third is bound, and two finalizations of the
\* case differ.
Finalizing ==
  [Idle EXCEPT !.enrolled = {Old1, Old2}, !.enroll = {Old1}, !.bind = BindThird,
               !.policy = OneFinalization
                            \cup {Pol(k3, A, "QUARANTINE_ALL_PREVIOUS")}]

\* Requests that collide on the device id, on the thumbprint or on both, while
\* the owner revokes a device.
Collisions ==
  [Idle EXCEPT !.enroll = {Cred(u2, d1, j2, w2), Cred(u1, d2, j1, w1)},
               !.bind = {Bind(k1, A, o1, Old1), Bind(k2, A, o1, Old2),
                         Bind(k1, B, o2, Cred(u2, d2, j2, w1))},
               !.signed = {Sign("revoke", Old1, n1, d1), Sign("list", Old2, n2, d1)},
               !.callers = {c2}]

\* Signed requests of three kinds, two at a time, while a recovery turns the
\* device off that signs them.
Signing ==
  [Idle EXCEPT !.enrolled = {Old1}, !.bind = BindThird,
               !.policy = OneFinalization,
               !.signed = {Sign("token", Old1, n1, d1), Sign("token", Old1, n2, d1),
                           Sign("revoke", Old1, n3, d3)},
               !.procs = {p2}, !.callers = {c1, c2}]

AllWork == {Finalizing, Collisions, Signing}

\* One device is enrolled and a second is; one finalization, sent twice.
LateEnrollment ==
  {[Idle EXCEPT !.enrolled = {Old1}, !.enroll = {Old2}, !.bind = BindThird,
                !.policy = OneFinalization]}
=============================================================================
