\* A public and a private client, two kinds of ingress, a pod and a proxy.
SPECIFICATION Spec
CONSTANTS
    public = public  other = other  lan = lan
    gateway = gateway  pod = pod  proxy = proxy
    Addrs = {public, other, lan, gateway, pod, proxy}
    Trusted = {lan, gateway, pod, proxy}
    Gateways = {gateway}
    Inside = {pod, proxy}
    Junk = Junk
    None = None
    MaxSent = 2
    MaxHops = 3
CHECK_DEADLOCK FALSE
INVARIANT ClientIsSeen
INVARIANT OnlyTravellersAreSeen
