------------------------------ MODULE Endpoints ------------------------------
(* Which server a request goes to, and with what: the addresses kept in     *)
(* config.json (config.rs), in data.json since the last login (auth.rs) and *)
(* in the daemon's VaultManager since it started (vault.rs), resolved into  *)
(* end points (api.rs), with the client certificate and the client's name.  *)
EXTENDS Naturals, Sequences

CONSTANTS
  NoUrl,       \* an empty or missing address
  NoSession,   \* nobody is logged in
  NoCert,      \* no client certificate
  IdentityAddresses, IdentityServer   \* the identity servers outside their own
                                      \* server's host, and whose they are

VARIABLES
  settings,    \* config.json: server, identity, the certificate, its origin and
               \* (for the properties) the server it was set for
  kept,        \* data.json: server and identity of the last login
  held,        \* the identity address the daemon's VaultManager started with
  issued,      \* the end points that issued the session (what the server knows)
  sent         \* the last request

endpointVars == <<settings, kept, held, issued, sent>>

(* An address as the user writes it, without port and blanks.  "slash" says *)
(* whether it ends in one.                                                  *)
Address(scheme, host, path, slash) ==
  [scheme |-> scheme, host |-> host, path |-> path, slash |-> slash]
Https(host) == Address("https", host, <<>>, FALSE)
Addresses == [scheme : {"https", "http", "none"}, host : STRING, path : Seq(STRING),
              slash : BOOLEAN]

ASSUME AddressAssumption == NoUrl \notin Addresses /\ IdentityAddresses \subseteq Addresses

(* What the provers do not know of a literal by themselves.                 *)
ASSUME LiteralAssumption ==
  {"vault.bitwarden.com", "api.bitwarden.com", "identity.bitwarden.com", "vault.bitwarden.eu",
   "api.bitwarden.eu", "identity.bitwarden.eu", "api", "identity"} \subseteq STRING

(* The identity addresses a user gives along with a server.                 *)
IdentitiesOf(u) == {NoUrl} \cup {i \in IdentityAddresses : IdentityServer[i.host] = u.host}

Loopback(host) == host = "localhost"

Points(base, api, identity) == [base |-> base, api |-> api, identity |-> identity]
UnitedStates == {"bitwarden.com", "vault.bitwarden.com"}
Europe       == {"bitwarden.eu", "vault.bitwarden.eu"}
Cloud(host)  == host \in UnitedStates \cup Europe

(* A missing scheme is https; http is left to loopback hosts.               *)
Secured(u) ==
  [u EXCEPT !.scheme = IF @ = "http" /\ Loopback(u.host) THEN @ ELSE "https",
            !.slash = FALSE]
Under(u, end) == [u EXCEPT !.path = Append(@, end)]
WithoutEnd(u, ends) ==
  IF u.path # <<>> /\ u.path[Len(u.path)] \in ends
  THEN [u EXCEPT !.path = SubSeq(@, 1, Len(@) - 1)] ELSE u

(* EnvironmentUrls::resolve: the clouds have hosts of their own; elsewhere  *)
(* the end points are paths below the server's address, which may have been *)
(* given as one of them.  An identity address given overrides.              *)
DefaultPoints(server) ==
  LET root == WithoutEnd(server, {"api", "identity"})
  IN IF server.host \in Europe
     THEN Points(Https("vault.bitwarden.eu"), Https("api.bitwarden.eu"),
                 Https("identity.bitwarden.eu"))
     ELSE IF server.host \in UnitedStates
     THEN Points(Https("vault.bitwarden.com"), Https("api.bitwarden.com"),
                 Https("identity.bitwarden.com"))
     ELSE Points(root, Under(root, "api"), Under(root, "identity"))

Resolve(server, identity) ==
  LET default == DefaultPoints(IF server = NoUrl THEN Https("vault.bitwarden.com")
                               ELSE Secured(server))
  IN IF identity = NoUrl THEN default
     ELSE [default EXCEPT !.identity = WithoutEnd(Secured(identity), {"connect/token"})]

(* A URL parser takes no address without a scheme: is_same_origin is FALSE  *)
(* for one, and a certificate set beside one is bound to its bare text.     *)
SameOrigin(u, v) ==
  /\ u # NoUrl /\ v # NoUrl
  /\ u.scheme # "none" /\ v.scheme # "none"
  /\ u.scheme = v.scheme /\ u.host = v.host
OriginOf(u) == IF u = NoUrl \/ u.scheme = "none" THEN u ELSE Address(u.scheme, u.host, <<>>, FALSE)

(* build_http_client_for_url: the certificate is attached when the target   *)
(* is of the origin it was set for; one that does not load fails the client.*)
Offered(target) ==
  IF settings.cert # NoCert /\ SameOrigin(settings.origin, target) THEN settings.cert ELSE NoCert

(* A client certificate, by its files: whether they are there, whether      *)
(* others may read the key, whether it is encrypted, and what each block    *)
(* that holds a key is worth.                                               *)
Certificate(there, exposed, encrypted, keys) ==
  [there |-> there, exposed |-> exposed, encrypted |-> encrypted, keys |-> keys]

(* validate_client_key_strength: every key found is strong, and one is.     *)
KeyIsStrong(cert) == ~cert.encrypted /\ cert.keys # {} /\ cert.keys \subseteq {"strong"}

(* load_client_identity_from_pem                                            *)
Loads(cert) == cert # NoCert => cert.there /\ ~cert.exposed /\ KeyIsStrong(cert)

(* main's config set looks at the files, not into them.                     *)
Accepts(cert) == cert # NoCert => cert.there /\ ~cert.exposed

(* resolve_effective_client_context: a terminal is the bare client, else    *)
(* the overlay's manifest, when it can be read and is well-formed, names it.*)
ClientName(terminal, manifest) ==
  IF ~terminal /\ manifest = "valid" THEN "plugin" ELSE "omawarden"

(* The identity address a manager works with: the one it is given, else     *)
(* that of data.json when it belongs to the same server.                    *)
EffectiveIdentity(server, identity) ==
  IF identity # NoUrl THEN identity
  ELSE IF server = NoUrl \/ server = kept.server THEN kept.identity ELSE NoUrl

Nothing == [what |-> "none", to |-> NoUrl, cert |-> NoCert, name |-> "none"]

(* A request by a client built for "target"; a certificate that does not    *)
(* load fails it before anything is sent.                                   *)
Sent(what, to, target, name) ==
  IF Loads(Offered(target))
  THEN [what |-> what, to |-> to, cert |-> Offered(target), name |-> name] ELSE Nothing

EndpointInit(configs) ==
  /\ settings \in configs
  /\ kept = [server |-> NoUrl, identity |-> NoUrl]
  /\ held = NoUrl
  /\ issued = NoSession
  /\ sent = Nothing

(* validate_url_scheme_security.                                            *)
Permitted(u) == ~(u # NoUrl /\ u.scheme = "http" /\ ~Loopback(u.host))

Spelling(u) == [u EXCEPT !.slash = FALSE]

(* config set --server-url, with or without --identity-url: a new address   *)
(* drops the old identity address, purges the session and stops the daemon; *)
(* the certificate and its origin stay.                                     *)
Purge ==
  /\ kept' = [server |-> NoUrl, identity |-> NoUrl]
  /\ held' = NoUrl
  /\ issued' = NoSession

ServerChanged(u) ==
  /\ u # NoUrl
  /\ settings.server = NoUrl \/ Spelling(settings.server) # Spelling(u)

(* Mutant: a new server keeps the identity address of the old one.          *)
SetServerOnly(u, given, identity) ==
  /\ Permitted(u) /\ (given => Permitted(identity))
  /\ settings' = [settings EXCEPT !.server = u,
                                 !.identity = IF given THEN identity ELSE @]
  /\ IF ServerChanged(u) THEN Purge ELSE UNCHANGED <<kept, held, issued>>
  /\ sent' = Nothing

SetServer(u, given, identity) ==
  LET kind == IF given THEN identity
              ELSE IF ServerChanged(u) THEN NoUrl ELSE settings.identity
  IN /\ Permitted(u) /\ (given => Permitted(identity))
     /\ settings' = [settings EXCEPT !.server = u, !.identity = kind]
     /\ IF ServerChanged(u) THEN Purge ELSE UNCHANGED <<kept, held, issued>>
     /\ sent' = Nothing

(* config set --client-cert: bound to the origin of the server's address.   *)
SetCertificate(cert) ==
  /\ Accepts(cert)
  /\ settings' = [settings EXCEPT !.cert = cert, !.setFor = settings.server,
                    !.origin = IF cert = NoCert THEN NoUrl ELSE OriginOf(settings.server)]
  /\ sent' = Nothing
  /\ UNCHANGED <<kept, held, issued>>

(* The certificate's files are replaced, removed or exposed meanwhile.      *)
FilesChange(cert) ==
  /\ settings.cert # NoCert /\ cert # NoCert
  /\ settings' = [settings EXCEPT !.cert = cert]
  /\ sent' = Nothing
  /\ UNCHANGED <<kept, held, issued>>

(* A login asks the identity server; where that answers 404 the token       *)
(* request is tried again at the base address (post_identity_connect_token).*)
TokenTargets(points) ==
  {points.identity} \cup (IF Cloud(points.base.host) THEN {} ELSE {points.base})

Login ==
  LET identity == EffectiveIdentity(settings.server, settings.identity)
      points == Resolve(settings.server, identity)
  IN \E to \in TokenTargets(points) :
       /\ sent' = Sent("login", to, settings.server, "omawarden")
       /\ IF sent' # Nothing
          THEN /\ kept' = [server |-> settings.server, identity |-> identity]
               /\ issued' = points
          ELSE UNCHANGED <<kept, issued>>
       /\ UNCHANGED <<settings, held>>

Logout ==
  /\ kept' = [server |-> NoUrl, identity |-> NoUrl]
  /\ issued' = NoSession
  /\ sent' = Nothing
  /\ UNCHANGED <<settings, held>>

(* The daemon starts with the addresses of data.json.                       *)
StartDaemon ==
  /\ held' = kept.identity
  /\ sent' = Nothing
  /\ UNCHANGED <<settings, kept, issued>>

(* sync and the renewal it may need, by the daemon or, when it is not       *)
(* reached, by the command itself; the request names the overlay when the   *)
(* command runs for it, whichever process sends it.                         *)
ServerOfSession == IF kept.server # NoUrl THEN kept.server ELSE settings.server

OwnIdentity(byDaemon) ==
  IF byDaemon THEN held ELSE EffectiveIdentity(settings.server, settings.identity)

Sync(byDaemon, terminal, manifest) ==
  LET own == OwnIdentity(byDaemon)
      points == Resolve(ServerOfSession, IF own # NoUrl THEN own ELSE kept.identity)
  IN /\ issued # NoSession
     /\ \E what \in {"sync", "renew"} :
          \E to \in IF what = "sync" THEN {points.api} ELSE TokenTargets(points) :
            sent' = Sent(what, to, ServerOfSession, ClientName(terminal, manifest))
     /\ UNCHANGED <<settings, kept, held, issued>>

(* Attachments: the client is built for the download address, and used for  *)
(* a storage address the server answers with when that is of its own        *)
(* origin, with the token unless the address brings one.  Elsewhere, where  *)
(* any address goes, the storage gets a client of its own (or again this    *)
(* one, when the certificate does not load) and no token.                   *)
FetchAttachment(storage) ==
  LET points == Resolve(ServerOfSession, NoUrl)
  IN /\ issued # NoSession
     /\ \/ sent' = Sent("download", points.api, points.api, "omawarden")
        \/ /\ SameOrigin(storage, points.base)
           /\ \E what \in {"stored", "blob"} : sent' = Sent(what, storage, points.api, "omawarden")
        \/ /\ ~SameOrigin(storage, points.base) /\ Loads(Offered(points.api))
           /\ sent' = [what |-> "blob", to |-> storage, name |-> "omawarden",
                       cert |-> Offered(IF Loads(Offered(storage)) THEN storage ELSE points.api)]
     /\ UNCHANGED <<settings, kept, held, issued>>

(* health: the identity and API addresses, the base, the address as given,  *)
(* which can be asked when it has a scheme.                                 *)
Health ==
  LET points == Resolve(settings.server, NoUrl)
      given  == IF settings.server # NoUrl /\ settings.server.scheme # "none"
                THEN {Spelling(settings.server)} ELSE {}
  IN /\ \E to \in {points.identity, points.api, points.base} \cup given :
          sent' = Sent("health", to, settings.server, "omawarden")
     /\ UNCHANGED <<settings, kept, held, issued>>

EndpointNext(servers, certs, storages) ==
  \/ \E u \in servers, given \in BOOLEAN : \E i \in IdentitiesOf(u) : SetServer(u, given, i)
  \/ \E c \in certs : SetCertificate(c)
  \/ \E c \in certs : FilesChange(c)
  \/ Login
  \/ Logout
  \/ StartDaemon
  \/ \E byDaemon, terminal \in BOOLEAN, m \in {"valid", "malformed"} : Sync(byDaemon, terminal, m)
  \/ \E u \in storages : FetchAttachment(u)
  \/ Health
-----------------------------------------------------------------------------
(* Everything the state may hold.                                           *)
EndpointTypeOK ==
  /\ DOMAIN settings = {"server", "identity", "cert", "origin", "setFor"}
  /\ DOMAIN kept = {"server", "identity"}
  /\ sent.what \in {"none", "login", "sync", "renew", "download", "stored", "blob", "health"}
  /\ sent.name \in {"none", "plugin", "omawarden"}

(* Over changes of the settings, logins, restarts of the daemon: whatever   *)
(* a request carries goes to the server it belongs to, protected.  A        *)
(* session's token is sent to the end points of the server that issued it,  *)
(* a login to the configured server or the identity server given with it    *)
(* (api.rs resolve, config.rs update_config, vault.rs sync and renew).      *)
SiteOf(server) ==
  LET points == Resolve(server, NoUrl)
  IN {server.host, points.base.host, points.api.host, points.identity.host}
       \cup {i.host : i \in {x \in IdentityAddresses : IdentityServer[x.host] = server.host}}

TokenGoesHome ==
  /\ sent.what \in {"sync", "download"} => sent.to = issued.api
  /\ sent.what = "stored" => SameOrigin(sent.to, issued.base)
  /\ sent.what = "renew" => sent.to.host \in SiteOf(kept.server)
PasswordGoesHome ==
  sent.what \in {"login", "health"} => sent.to.host \in SiteOf(settings.server)
(* But a blob, which carries neither token nor certificate.                 *)
NothingInTheClear ==
  sent # Nothing /\ (sent.what = "blob" => sent.cert # NoCert)
    => sent.to.scheme = "https" \/ Loopback(sent.to.host)

(* The certificate survives changes of the server.  What receives it is a   *)
(* host of the server it was set for: its own, that of an end point, or the *)
(* identity server given with it (the clouds answer with storage addresses  *)
(* on other hosts of theirs).  A request to the configured server's own     *)
(* origin, when it was set for that, carries it or is not sent at all, its  *)
(* files having changed (addresses written with a scheme).                  *)
CertificateAtItsServer ==
  /\ (sent.cert # NoCert /\ (sent.what \in {"stored", "blob"} => ~Cloud(settings.server.host)))
       => sent.cert = settings.cert /\ sent.to.host \in SiteOf(settings.setFor)
  /\ (/\ sent.what \notin {"none", "blob"} /\ settings.cert # NoCert
      /\ settings.setFor.scheme # "none" /\ settings.server.scheme # "none"
      /\ ~Cloud(settings.server.host)
      /\ SameOrigin(sent.to, Secured(settings.server))
      /\ SameOrigin(sent.to, Secured(settings.setFor)))
       => sent.cert = settings.cert

RequestsGoHome ==
  TokenGoesHome /\ PasswordGoesHome /\ NothingInTheClear /\ CertificateAtItsServer

(* "The client certificate is loaded and presented only when communicating  *)
(* with the designated origin" (docs/adr/0023).  One client, built for the  *)
(* server's address, sends all its requests, those to an identity server of *)
(* another origin too, and at the clouds those to their other hosts: not so *)
(* even for a server of one's own, written with its scheme.                 *)
CertificateGated ==
  (sent.cert # NoCert /\ settings.setFor.scheme # "none" /\ ~Cloud(settings.setFor.host))
    => SameOrigin(sent.to, settings.setFor)
=============================================================================
