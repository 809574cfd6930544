----------------------------- MODULE VaultKinds -----------------------------
(***************************************************************************)
(* The kinds of resource that live in Vault under a name or a path of      *)
(* their specification, as far as their controllers differ: what becomes   *)
(* of each field of spec.forProvider (apis/*/v1beta1), and what Create,    *)
(* Update and Delete do to an object that is there or not.  The fields     *)
(* that make up the name are not listed.                                   *)
(***************************************************************************)

\* The classes of fields:
\*   kept        compared by Observe, sent by Create and by Update
\*   written     sent by both, never compared (passwords, ...)
\*   fixed       compared, and sent by Create only
\*   createOnly  sent by Create only, never compared
Classes == {"kept", "written", "fixed", "createOnly"}

\* ignored    fields that are neither compared nor sent
\* required   fields the API server insists on
\* durations  fields that are compared as durations, once parsed by Go
NoFields == [c \in Classes \cup {"ignored", "required", "durations"} |-> {}]

PolicyParameters == [NoFields EXCEPT
    !.kept = {"policy"},
    !.required = {"policy"}]

AuthBackendRoleParameters == [NoFields EXCEPT
    !.kept = {"roleType", "boundAudiences", "boundSubject", "boundClaims",
              "boundClaimsType", "boundServiceAccountNames",
              "boundServiceAccountNamespaces", "userClaim", "groupsClaim",
              "oidcScopes", "policies", "tokenPolicies", "tokenTtl",
              "tokenMaxTtl", "tokenPeriod", "tokenNumUses", "tokenType",
              "secretIdTtl", "secretIdNumUses", "tokenBoundCidrs",
              "allowedRedirectUris", "clockSkewLeeway"}]

SecretBackendRoleParameters == [NoFields EXCEPT
    !.kept = {"allowedDomains", "allowSubdomains", "allowBareDomains",
              "allowGlobDomains", "allowAnyName", "keyType", "keyBits",
              "signatureBits", "ttl", "maxTtl", "generateLease",
              "enforceHostnames", "allowIpSans", "allowLocalhostFlag",
              "allowWildcardCertificates", "serverFlag", "clientFlag",
              "organization", "ou", "country", "locality", "province",
              "streetAddress", "postalCode", "noStore", "requireCn",
              "allowedOtherSans", "allowedSerialNumbers", "keyUsage",
              "extKeyUsage"},
    !.durations = {"ttl", "maxTtl"}]

DatabaseRoleParameters == [NoFields EXCEPT
    !.kept = {"dbName", "creationStatements", "revocationStatements",
              "rollbackStatements", "renewStatements", "defaultTtl", "maxTtl"},
    !.durations = {"defaultTtl", "maxTtl"},
    !.required = {"dbName"}]

IdentityEntityParameters == [NoFields EXCEPT
    !.kept = {"policies", "metadata", "disabled"},
    !.ignored = {"groupIds"}]

IdentityGroupParameters == [NoFields EXCEPT
    !.kept = {"policies", "memberEntityIds", "metadata"},
    !.fixed = {"type"}]

DatabaseBackendParameters == [NoFields EXCEPT
    !.kept = {"pluginName", "connectionUrl", "username", "allowedRoles",
              "maxConnectionLifetime", "maxIdleConnections",
              "maxOpenConnections"},
    !.written = {"password"},
    !.createOnly = {"verifyConnection"},
    !.durations = {"maxConnectionLifetime"},
    !.required = {"connectionUrl", "username", "password"}]

MountParameters == [NoFields EXCEPT
    !.kept = {"description", "defaultLeaseTtl", "maxLeaseTtl"},
    !.createOnly = {"type", "options", "config"},
    !.required = {"type"}]

AuthMethodParameters == [NoFields EXCEPT
    !.fixed = {"type"},
    !.createOnly = {"config"},
    !.required = {"type"}]

QuotaParameters == [NoFields EXCEPT
    !.written = {"path", "rate", "maxLeases", "interval", "blocked"}]

VaultNamespaceParameters == [NoFields EXCEPT
    !.written = {"description"}]

AuditDeviceParameters == [NoFields EXCEPT
    !.createOnly = {"type", "description", "local", "options"},
    !.required = {"type"}]

KubernetesAuthConfigParameters == [NoFields EXCEPT
    !.kept = {"kubernetesHost"},
    !.written = {"kubernetesCaCert", "tokenReviewerJwt",
                 "tokenReviewerJwtSecretRef", "issuer",
                 "disableIssValidation", "disableLocalCaJwt"},
    !.required = {"kubernetesHost"}]

LDAPAuthConfigParameters == [NoFields EXCEPT
    !.kept = {"url", "bindDn", "userDn", "userAttr", "groupDn"},
    !.written = {"bindPass", "certificate", "requestTimeout", "startTls",
                 "insecureTls", "groupAttr", "upnDomain", "discoverDn",
                 "userFilter", "groupFilter", "maxTtl", "tlsMinVersion",
                 "tlsMaxVersion"},
    !.required = {"url", "bindDn", "bindPass"}]

JWTAuthConfigParameters == [NoFields EXCEPT
    !.kept = {"oidcDiscoveryUrl", "oidcClientId", "boundIssuer",
              "defaultRole"},
    !.written = {"oidcDiscoveryCaPem", "oidcClientSecret",
                 "oidcClientSecretSecretRef", "jwtValidationPubKeys",
                 "jwksCacheDuration", "maxTtl", "ttl", "period"}]

AWSAuthConfigParameters == [NoFields EXCEPT
    !.kept = {"iamServerIdHeaderValue", "stsEndpoint"},
    !.written = {"iamRequestUrl", "iamRequestPayload", "stsFallbackRegion",
                 "stsDisableRedirect", "maxTtl", "accessIdentity"}]

AzureAuthConfigParameters == [NoFields EXCEPT
    !.kept = {"tenantId", "resource", "clientId"},
    !.written = {"clientSecret", "environment", "loginMaxUserRetry",
                 "loginScopes"},
    !.required = {"tenantId"}]

GCPAuthConfigParameters == [NoFields EXCEPT
    !.kept = {"serviceAccountEmail", "projectId"},
    !.written = {"credentials", "zone", "clusterName", "maxTtl"}]

----------------------------------------------------------------------------
\* How Vault gives a field back that Observe compares:
\*   normal    always, in a form of Vault's own
\*   verbatim  always, in the form it was written in
\*   set       left out as long as nobody has set it
\*   never     left out, or as something that Observe does not expect
Answers == {"normal", "verbatim", "set", "never"}

\* A kind has one field for each class that some field of its resources is
\* in.  It may be left unset if one of these may, and hold a duration that Go
\* cannot parse if one of these is a duration.
\* style     "put": Create and Update write whether the object is there or not;
\*           "tune": Create fails on a path in use, Update on a free one;
\*           "enable": Update is Create again, and both fail on a path in use;
\*           "renew": Create fails for what is not there, a lease;
\*           "strict": so does Observe, where Vault answers that a lease is
\*           invalid and not that it is not found
\* deletes   Delete removes the object (otherwise it does nothing)
Kind(fields, style, deletes) ==
    [fields   |-> {c \in Classes : fields[c] # {}},
     optional |-> {c \in Classes : fields[c] \ fields.required # {}},
     durations |-> {c \in Classes : fields[c] \cap fields.durations # {}},
     style |-> style, deletes |-> deletes, answers |-> "normal"]

Policy == Kind(PolicyParameters, "put", TRUE)
AuthBackendRole == Kind(AuthBackendRoleParameters, "put", TRUE)
SecretBackendRole == Kind(SecretBackendRoleParameters, "put", TRUE)
DatabaseRole == Kind(DatabaseRoleParameters, "put", TRUE)
IdentityEntity == Kind(IdentityEntityParameters, "put", TRUE)
IdentityGroup == Kind(IdentityGroupParameters, "put", TRUE)
DatabaseBackend == Kind(DatabaseBackendParameters, "put", TRUE)
Mount == Kind(MountParameters, "tune", TRUE)
AuthMethod == Kind(AuthMethodParameters, "enable", TRUE)
Quota == Kind(QuotaParameters, "put", TRUE)
VaultNamespace == Kind(VaultNamespaceParameters, "put", TRUE)
AuditDevice == Kind(AuditDeviceParameters, "enable", TRUE)
KubernetesAuthConfig == Kind(KubernetesAuthConfigParameters, "put", FALSE)
LDAPAuthConfig == Kind(LDAPAuthConfigParameters, "put", FALSE)
JWTAuthConfig == Kind(JWTAuthConfigParameters, "put", FALSE)
AWSAuthConfig == Kind(AWSAuthConfigParameters, "put", FALSE)
AzureAuthConfig == Kind(AzureAuthConfigParameters, "put", FALSE)
GCPAuthConfig == Kind(GCPAuthConfigParameters, "put", FALSE)
LeaseRenewal        == Kind(NoFields, "renew", FALSE)
RevokedLeaseRenewal == Kind(NoFields, "renew", TRUE)
StrictLeaseRenewal  == Kind(NoFields, "strict", TRUE)

ObjectKinds == {Policy, AuthBackendRole, SecretBackendRole, DatabaseRole,
                IdentityEntity, IdentityGroup, DatabaseBackend, Mount,
                AuthMethod, Quota, VaultNamespace, AuditDevice}

ConfigKinds == {KubernetesAuthConfig, LDAPAuthConfig, JWTAuthConfig,
                AWSAuthConfig, AzureAuthConfig, GCPAuthConfig}

LeaseKinds == {LeaseRenewal, RevokedLeaseRenewal, StrictLeaseRenewal}
LeaseStyles == {"renew", "strict"}

\* Which way Vault answers is not known here.
Variants(k) ==
    LET ways == IF {"kept", "fixed"} \cap k.fields = {} THEN {"normal"}
                ELSE IF {"kept", "fixed"} \cap k.optional = {}
                THEN Answers \ {"set"}
                ELSE Answers
    IN  {[k EXCEPT !.answers = way] : way \in ways}

AllKinds ==
    UNION {Variants(k) : k \in ObjectKinds \cup ConfigKinds \cup LeaseKinds}
=============================================================================
